---------------------------- MODULE CodegenProofs ----------------------------
(***************************************************************************)
(* Theorems about the code generator, for every set of well-formed         *)
(* programs: what the blocks it emits look like, of which types what its   *)
(* handlers return is, what calls run, and what variables read.            *)
(*                                                                         *)
(* The insertion point is one variable that every handler may move, and    *)
(* handlers run inside each other.  The proofs follow the walk: each       *)
(* handler is come to once and works under one operand of each handler     *)
(* above it, so that one can say where the insertion point may be, which   *)
(* blocks are there, and which are still to be ended.                      *)
(***************************************************************************)
EXTENDS Codegen, ResultProofs, FiniteSetTheorems

-----------------------------------------------------------------------------
(* The walk                                                                *)

\* The nodes the handler of n may call accept on, by the steps it takes.
Operand(n, i) ==
  IF Kind(n) \in Callables THEN LastChild(n)
  ELSE IF Kind(n) \in Loops THEN IF i = 1 THEN Child(IteratorOf(n), 1) ELSE LoopBody(n)
  ELSE Child(n, i)
Steps(n) == IF Kind(n) \in Callables THEN {1} ELSE 1 .. Len(Children(n))
Constructs == Callables \cup Loops \cup {"if_expr"}
Visiting == Plain \cup Constructs \cup {"variable_definition"}

\* A step is one of the handler's.  What has taken one, and the node the walk is at, has
\* been visited; and the walk is under the operand of each handler in progress.
StepsAreTaken == \A n \in Node : step[n] # 0 => Kind(n) \in Visiting /\ step[n] \in Steps(n)
Visited(m) == \E k \in 1 .. step[Handler(m)] : m = Operand(Handler(m), k)
WalkIsDown ==
  /\ \A m \in Node \ {1} : step[m] # 0 \/ m = gcur => Visited(m)
  /\ \A n \in Path(gcur) \ {gcur} : Kind(n) # "iterator_definition" =>
       step[n] # 0 /\ Operand(n, step[n]) \in Path(gcur)

WalkInv == gcur \in Node /\ step \in [Node -> Nat] /\ StepsAreTaken /\ WalkIsDown

-----------------------------------------------------------------------------
(* Blocks                                                                  *)

\* The blocks the handler of n has created.
Forks(n) == Kind(n) = "if_expr" /\ step[n] >= 2
Iterates(n) == Kind(n) \in Loops /\ step[n] = 2
Defines(n) == Kind(n) \in Callables /\ step[n] = 1
LabelsOf(n) ==
  IF Forks(n) THEN {"then", "else", "cont"}
  ELSE IF Iterates(n) THEN {"check", "loop", "update", "loopend"}
  ELSE IF Defines(n) THEN {"entry"} ELSE {}

FunctionAt(b) == IF b = NoBlock THEN 0 ELSE blocks[b].fn

\* Where the code goes on after the handler of n, and its function.
After(n) == <<n, IF Kind(n) = "if_expr" THEN "cont" ELSE "loopend">>
FunctionAfter(n) == blocks[After(n)].fn
Open(n) == Forks(n) \/ Iterates(n)

BlocksAreTheirs ==
  /\ DOMAIN blocks \subseteq BlockNames
  /\ \A n \in Node, l \in Labels : <<n, l>> \in DOMAIN blocks <=> l \in LabelsOf(n)
  /\ \A b \in DOMAIN blocks : blocks[b] \in Block
  /\ \A n \in Node : Open(n) => \A l \in LabelsOf(n) : blocks[<<n, l>>].fn = FunctionAfter(n)
  /\ ip \in DOMAIN blocks \cup {NoBlock}
  /\ \A n \in Node : step[n] # 0 /\ Kind(n) \in Constructs => ip # NoBlock

\* No code is put in the blocks that steer a loop.
Steering == {"check", "update"}
LoopsAreSteered ==
  /\ ip[2] \notin Steering
  /\ \A n \in Node : keptBlock[n][2] \notin Steering
  /\ \A n \in Node : Iterates(n) => blocks[<<n, "update">>].to \subseteq {<<n, "check">>}

KeptAreTheirs ==
  /\ keptBlock \in [Node -> DOMAIN blocks \cup {NoBlock}]
  /\ \A n \in Node : keptBlock[n] # NoBlock => (Kind(n) = "lambda" /\ step[n] = 1) \/ (Kind(n) = "if_expr" /\ step[n] = 3)
  /\ \A n \in Node : Kind(n) = "if_expr" /\ step[n] = 3 => keptBlock[n] # NoBlock

\* In an if nothing but a function, and a loop's body when functions are in functions,
\* leaves the insertion point in another function.
Barrier(k) == Defines(k) \/ (Iterates(k) /\ NestedFunctions # {})
ClearTo(m, x) == \A k \in Path(x) : m <= k => ~Barrier(k)
ClearAbove(m, x) == \A k \in Path(x) : m <= k /\ k # x => ~Barrier(k)
FunctionsReturn ==
  \A m \in Path(gcur) : Open(m) =>
    /\ ClearTo(m, gcur) => FunctionAt(ip) = FunctionAfter(m)
    /\ \A x \in Path(gcur) : m < x /\ ClearAbove(m, x) =>
         /\ Kind(x) = "lambda" /\ step[x] = 1 => FunctionAt(keptBlock[x]) = FunctionAfter(m)
         /\ Open(x) => FunctionAfter(x) = FunctionAfter(m)

\* The branches of an if put their code in blocks of their own.
Zone(n, i) ==
  {b \in BlockNames : Child(n, i) \in Path(b[1])} \cup {<<n, IF i = 2 THEN "then" ELSE "else">>}
CodeIsInItsBranch ==
  \A n \in Node : Forks(n) =>
    /\ n \in Path(gcur) =>
         /\ ip \in Zone(n, step[n])
         /\ \A x \in Path(gcur) : n < x /\ Kind(x) = "lambda" /\ step[x] = 1 => keptBlock[x] \in Zone(n, step[n])
    /\ step[n] = 3 => keptBlock[n] \in Zone(n, 2)

Predecessors(n) == {b \in DOMAIN blocks : <<n, "cont">> \in blocks[b].to}
PhisGrow ==
  /\ phi \in [Node -> SUBSET DOMAIN blocks]
  /\ \A n \in Node : phi[n] # {} => Kind(n) = "if_expr" /\ step[n] = 3 /\ n \notin Path(gcur)
  /\ \A n \in Node : Kind(n) = "if_expr" =>
       /\ step[n] # 3 /\ (step[n] = 2 => n \in Path(gcur)) => Predecessors(n) = {}
       /\ step[n] = 3 => FunctionAt(keptBlock[n]) = FunctionAfter(n)
       /\ step[n] = 3 /\ phi[n] = {} => Predecessors(n) = {keptBlock[n]}
       /\ phi[n] # {} => \E b \in DOMAIN blocks :
            /\ b # keptBlock[n] /\ phi[n] = {keptBlock[n], b} /\ Predecessors(n) = phi[n]
            /\ FunctionAt(b) = FunctionAfter(n)

PhiInductive ==
  /\ prog \in Programs /\ WalkInv
  /\ BlocksAreTheirs /\ KeptAreTheirs /\ LoopsAreSteered
  /\ FunctionsReturn /\ CodeIsInItsBranch /\ PhisGrow

-----------------------------------------------------------------------------
(* What is complete                                                        *)

Plainly == NestedFunctions \cup TopExpressions \cup Unfinished = {}

BranchesStay ==
  Plainly => \A b \in DOMAIN blocks : \A t \in blocks[b].to : t \in DOMAIN blocks /\ blocks[t].fn = blocks[b].fn
\* What is not led to yet.
Pending(b) ==
  LET n == b[1]
  IN  n \in Path(gcur) /\ \/ b[2] = "cont" /\ step[n] = 2
                          \/ b[2] = "update"
BlocksAreReached ==
  Plainly => \A b \in DOMAIN blocks : b[2] = "entry" \/ Pending(b) \/ \E a \in DOMAIN blocks : b \in blocks[a].to
\* What is not ended yet.
Unended(b) ==
  LET n == b[1]
  IN  \/ b = ip
      \/ \E x \in Path(gcur) : Kind(x) = "lambda" /\ step[x] = 1 /\ b = keptBlock[x]
      \/ n \in Path(gcur) /\ \/ b[2] = "else" /\ step[n] = 2
                             \/ b[2] \in {"cont", "update", "loopend"}
BlocksEnd ==
  Plainly => \A b \in DOMAIN blocks : blocks[b].done \/ Unended(b)
OutsideIsEnded ==
  Plainly /\ (gcur = 1 \/ (Parent(gcur) = 1 /\ step[gcur] = 0)) => ip = NoBlock \/ blocks[ip].done
\* A global is not visited.
GlobalsAreDeclared == \A n \in Node : Kind(n) = "variable_definition" /\ Parent(n) = 1 => step[n] = 0
EndsAtTheRoot == result \in {"ok", "failed"} => gcur = 1
-----------------------------------------------------------------------------
(* Trees                                                                   *)

LEMMA LoopShape ==
  ASSUME prog \in Programs, NEW n \in Node, Kind(n) \in Loops
  PROVE  /\ Len(Children(n)) = 2 /\ {IteratorOf(n), LoopBody(n)} \subseteq Node \ {1}
         /\ IteratorOf(n) # LoopBody(n)
         /\ Parent(IteratorOf(n)) = n /\ Parent(LoopBody(n)) = n
         /\ Kind(IteratorOf(n)) = "iterator_definition" /\ Kind(LoopBody(n)) = "function_body"
         /\ LET c == Child(IteratorOf(n), 1) IN c \in Node \ {1} /\ Parent(c) = IteratorOf(n)
<1>1. Len(Children(n)) = 2
  BY ShapeFacts DEF Loops
<1>2. 1 \in 1 .. Len(Children(n)) /\ 2 \in 1 .. Len(Children(n))
  BY <1>1
<1>3. /\ Child(n, 1) \in Node \ {1} /\ Parent(Child(n, 1)) = n
      /\ Child(n, 2) \in Node \ {1} /\ Parent(Child(n, 2)) = n
  BY <1>2, TreeFacts
<1>4. Child(n, 1) # Child(n, 2)
  <2>1. Child(n, 1) = Child(n, 2) => 1 = 2
    BY <1>2, TreeFacts
  <2> QED BY <2>1
<1>5. Shape(prog, n)
  BY ProgramsAssumption DEF WellFormed, Node
<1>6. /\ Kind(n) = "do_loop" => Kind(Child(n, 1)) = "iterator_definition" /\ Kind(Child(n, 2)) = "function_body"
      /\ Kind(n) = "collect_loop" => Kind(Child(n, 1)) = "function_body" /\ Kind(Child(n, 2)) = "iterator_definition"
  BY <1>5 DEF Shape, Kind, Child
<1>7. /\ {IteratorOf(n), LoopBody(n)} \subseteq Node \ {1}
      /\ IteratorOf(n) # LoopBody(n)
      /\ Parent(IteratorOf(n)) = n /\ Parent(LoopBody(n)) = n
      /\ Kind(IteratorOf(n)) = "iterator_definition" /\ Kind(LoopBody(n)) = "function_body"
  BY <1>3, <1>4, <1>6 DEF IteratorOf, LoopBody, Loops
<1>8. PICK it \in Node : it = IteratorOf(n)
  BY <1>7
<1>9. 1 \in 1 .. Len(Children(it))
  BY <1>7, <1>8, ShapeFacts, ProgramFacts
<1> QED BY <1>1, <1>7, <1>8, <1>9, TreeFacts

\* An iterator stands in a loop, and nothing accepts it but through its list.
LEMMA IteratorShape ==
  ASSUME prog \in Programs, NEW c \in Node, Kind(c) = "iterator_definition"
  PROVE  c # 1 /\ Parent(c) \in Node /\ Kind(Parent(c)) \in Loops /\ c = IteratorOf(Parent(c))
<1>1. c # 1 /\ Parent(c) \in Node
  BY ProgramFacts
<1>2. Placement(prog, c)
  BY ProgramsAssumption DEF WellFormed, Node
<1>3. Kind(Parent(c)) \in Loops
  BY <1>1, <1>2 DEF Placement, Loops, Kind, Parent
<1>4. PICK n \in Node : n = Parent(c)
  BY <1>1
<1>5. PICK i \in 1 .. Len(Children(n)) : Child(n, i) = c
  BY <1>1, <1>4, TreeFacts
<1>6. Len(Children(n)) = 2
  BY <1>3, <1>4, LoopShape
<1>7. i \in {1, 2}
  BY <1>5, <1>6
<1>8. c \in {IteratorOf(n), LoopBody(n)}
  BY <1>5, <1>7 DEF IteratorOf, LoopBody
<1> QED BY <1>1, <1>3, <1>4, <1>8, LoopShape

LEMMA HandlerOf ==
  ASSUME prog \in Programs, NEW c \in Node \ {1}
  PROVE  /\ Handler(c) \in Node /\ Handler(c) \in Path(c) /\ Kind(Handler(c)) # "iterator_definition"
         /\ \A m \in Path(c) : m = c \/ m \in Path(Handler(c)) \/ Kind(m) = "iterator_definition"
<1>1. Parent(c) \in Node /\ Kind(1) = "root"
  BY ProgramFacts
<1>2. CASE Kind(Parent(c)) # "iterator_definition"
  BY <1>1, <1>2, PathFacts, ParentOnPath DEF Handler
<1>3. CASE Kind(Parent(c)) = "iterator_definition"
  <2>1. Parent(c) \in Node \ {1} /\ Handler(c) = Parent(Parent(c))
    BY <1>1, <1>3 DEF Handler
  <2>2. Handler(c) \in Node /\ Handler(c) \in Path(Parent(c)) /\ Path(Parent(c)) \subseteq Path(c)
    BY <2>1, PathFacts
  <2>3. Kind(Handler(c)) # "iterator_definition"
    <3>1. Kind(Parent(Parent(c))) \in Loops
      BY <1>3, <2>1, IteratorShape
    <3> QED BY <2>1, <3>1 DEF Loops
  <2> QED BY <1>3, <2>1, <2>2, <2>3, ParentOnPath
<1> QED BY <1>2, <1>3

LEMMA OperandFacts ==
  ASSUME prog \in Programs, NEW n \in Node, Kind(n) \in Visiting, NEW i \in Steps(n)
  PROVE  /\ Operand(n, i) \in Node \ {1} /\ Handler(Operand(n, i)) = n
         /\ Kind(Operand(n, i)) # "iterator_definition"
         /\ \A j \in Steps(n) : Operand(n, j) = Operand(n, i) => j = i
<1>1. CASE Kind(n) \in Loops
  <2>1. Steps(n) = {1, 2} /\ Kind(n) \notin Callables
    <3>1. Len(Children(n)) = 2 /\ Kind(n) \notin Callables
      BY <1>1, LoopShape DEF Loops, Callables
    <3>2. 1 .. 2 = {1, 2}
      OBVIOUS
    <3> QED BY <3>1, <3>2 DEF Steps
  <2>2. PICK c \in Node \ {1} : c = Child(IteratorOf(n), 1) /\ Parent(c) = IteratorOf(n)
    BY <1>1, LoopShape
  <2>3. PICK it \in Node \ {1} : it = IteratorOf(n)
    BY <1>1, LoopShape
  <2>4. /\ Kind(it) = "iterator_definition" /\ Parent(it) = n /\ Kind(n) # "iterator_definition"
        /\ LoopBody(n) \in Node \ {1} /\ Parent(LoopBody(n)) = n /\ Kind(LoopBody(n)) = "function_body"
    BY <1>1, <2>3, LoopShape DEF Loops
  <2>5. Kind(c) # "iterator_definition"
    <3>1. Kind(c) = "iterator_definition" => Kind(it) \in Loops
      BY <2>2, <2>3, IteratorShape
    <3> QED BY <2>4, <3>1 DEF Loops
  <2>6. \A k \in {1, 2} : Operand(n, k) = IF k = 1 THEN c ELSE LoopBody(n)
    BY <1>1, <2>1, <2>2 DEF Operand
  <2>7. Handler(c) = n /\ Handler(LoopBody(n)) = n /\ c # LoopBody(n)
    BY <2>2, <2>3, <2>4 DEF Handler
  <2> QED BY <2>1, <2>2, <2>4, <2>5, <2>6, <2>7
<1>2. CASE Kind(n) \in Callables
  <2>1. Len(Children(n)) \in 1 .. Len(Children(n))
    BY <1>2, ShapeFacts, ProgramFacts
  <2>2. LastChild(n) \in Node \ {1} /\ Parent(LastChild(n)) = n
    BY <2>1, TreeFacts DEF LastChild
  <2>3. Kind(n) # "iterator_definition" /\ Kind(n) \notin Loops /\ Steps(n) = {1}
    BY <1>2 DEF Callables, Loops, Steps
  <2>4. Kind(LastChild(n)) = "iterator_definition" => Kind(Parent(LastChild(n))) \in Loops
    BY <2>2, IteratorShape
  <2> QED BY <1>2, <2>2, <2>3, <2>4 DEF Operand, Handler
<1>3. CASE Kind(n) \notin Loops \cup Callables
  <2>1. i \in 1 .. Len(Children(n)) /\ Operand(n, i) = Child(n, i)
    BY <1>3 DEF Steps, Operand
  <2>2. Kind(n) # "iterator_definition"
    BY DEF Visiting, Constructs, Plain, Operators, Statements, Callables, Loops
  <2>3. \A j \in Steps(n) : j \in 1 .. Len(Children(n)) /\ Operand(n, j) = Child(n, j)
    BY <1>3 DEF Steps, Operand
  <2>4. Child(n, i) \in Node \ {1} /\ Parent(Child(n, i)) = n
    BY <2>1, TreeFacts
  <2>5. Kind(Child(n, i)) = "iterator_definition" => Kind(Parent(Child(n, i))) \in Loops
    BY <2>4, IteratorShape
  <2> QED BY <1>3, <2>1, <2>2, <2>3, <2>4, <2>5, TreeFacts DEF Handler
<1> QED BY <1>1, <1>2, <1>3

\* The path to an operand is the path to its handler, the operand, and an iterator perhaps.
LEMMA OperandPath ==
  ASSUME prog \in Programs, NEW c \in Node \ {1}
  PROVE  /\ c \in Path(c) /\ Path(Handler(c)) \subseteq Path(c) /\ c \notin Path(Handler(c)) /\ Handler(c) < c
         /\ Handler(c) \in Path(Handler(c)) /\ Path(c) \subseteq Node
         /\ \A m \in Path(Handler(c)) : m <= Handler(c)
         /\ \A m \in Path(c) : m <= c
<1>1. /\ Len(prog) \in Nat /\ Node = 1 .. Len(prog) /\ Kind(1) = "root"
      /\ \A n \in Node : prog[n].last \in n .. Len(prog)
      /\ \A n \in Node \ {1} : Parent(n) \in 1 .. (n - 1)
  BY TreeOrder, ProgramFacts
<1>2. Handler(c) \in Node /\ Handler(c) \in Path(c) /\ Handler(c) < c
  <2>1. Parent(c) \in Node /\ Parent(c) < c
    BY <1>1
  <2>2. Kind(Parent(c)) = "iterator_definition" => Parent(Parent(c)) < Parent(c) /\ Parent(Parent(c)) \in Nat
    BY <1>1, <2>1
  <2> QED BY <1>1, <2>1, <2>2, HandlerOf DEF Handler
<1>3. \A m, n \in Node : m \in Path(n) => m <= n
  BY <1>1 DEF Path
<1> QED BY <1>1, <1>2, <1>3, PathFacts

LEMMA SameOperands ==
  ASSUME prog' = prog
  PROVE  /\ \A n : /\ Handler(n)' = Handler(n) /\ Steps(n)' = Steps(n) /\ IteratorOf(n)' = IteratorOf(n)
                   /\ LoopBody(n)' = LoopBody(n) /\ LastChild(n)' = LastChild(n)
         /\ \A n, i : Operand(n, i)' = Operand(n, i)
         /\ NestedFunctions' = NestedFunctions /\ TopExpressions' = TopExpressions
         /\ BlockNames' = BlockNames /\ Block' = Block
<1>1. /\ Node' = Node
      /\ \A n : Kind(n)' = Kind(n) /\ Parent(n)' = Parent(n) /\ Children(n)' = Children(n)
      /\ \A n, i : Child(n, i)' = Child(n, i)
  BY SameTree
<1>2. \A n : Handler(n)' = Handler(n) /\ IteratorOf(n)' = IteratorOf(n) /\ LoopBody(n)' = LoopBody(n)
             /\ LastChild(n)' = LastChild(n) /\ Steps(n)' = Steps(n)
  BY <1>1 DEF Handler, IteratorOf, LoopBody, LastChild, Steps, Children, Child
<1>3. \A n, i : Operand(n, i)' = Operand(n, i)
  BY <1>1, <1>2 DEF Operand
<1>4. /\ NestedFunctions' = NestedFunctions /\ TopExpressions' = TopExpressions
      /\ BlockNames' = BlockNames /\ Block' = Block
  BY <1>1 DEF NestedFunctions, TopExpressions, BlockNames, Block
<1> QED BY <1>2, <1>3, <1>4

-----------------------------------------------------------------------------
(* How the walk moves                                                      *)

\* A handler calls accept on the ith of its nodes, or returns.
Descend(i) ==
  /\ Kind(gcur) \in Visiting /\ i \in Steps(gcur) /\ step[gcur] < i
  /\ gcur' = Operand(gcur, i) /\ step' = [step EXCEPT ![gcur] = i]
Ascend == gcur # 1 /\ gcur' = Handler(gcur) /\ UNCHANGED step

\* The handlers in progress are those above the node the walk is at.
LEMMA InProgress ==
  ASSUME prog \in Programs, WalkInv, NEW n \in Path(gcur), n # gcur, Kind(n) # "iterator_definition"
  PROVE  /\ n \in Node /\ Kind(n) \in Visiting /\ step[n] # 0 /\ step[n] \in Steps(n)
         /\ Operand(n, step[n]) \in Path(gcur)
<1>1. n \in Node
  BY PathFacts DEF WalkInv
<1> QED BY <1>1 DEF WalkInv, WalkIsDown, StepsAreTaken

LEMMA StepsBefore ==
  ASSUME NEW n, NEW i \in Steps(n), prog \in Programs, n \in Node
  PROVE  i \in Nat /\ i > 0 /\ \A k \in 1 .. i : k \in Steps(n)
<1>1. Len(Children(n)) \in Nat
  BY ProgramFacts
<1> QED BY <1>1 DEF Steps

\* What a handler accepts next has not been visited.
LEMMA OperandIsNew ==
  ASSUME prog \in Programs, WalkInv, NEW i, Descend(i)
  PROVE  /\ gcur' \in Node \ {1} /\ Handler(gcur') = gcur /\ step[gcur'] = 0
         /\ gcur' # gcur /\ Kind(gcur') # "iterator_definition"
<1>1. /\ gcur \in Node /\ Kind(gcur) \in Visiting /\ i \in Steps(gcur) /\ gcur' = Operand(gcur, i)
      /\ step[gcur] < i /\ step \in [Node -> Nat]
  BY DEF WalkInv, Descend
<1>2. PICK c \in Node \ {1} : c = gcur'
  BY <1>1, OperandFacts
<1>3. Handler(c) = gcur /\ \A j \in Steps(gcur) : Operand(gcur, j) = c => j = i
  BY <1>1, <1>2, OperandFacts
<1>4. step[c] = 0
  <2> SUFFICES ASSUME step[c] # 0 PROVE FALSE
    OBVIOUS
  <2>1. PICK k \in 1 .. step[gcur] : c = Operand(gcur, k)
    BY <1>2, <1>3 DEF WalkInv, WalkIsDown, Visited
  <2>2. k \in 1 .. i /\ k # i
    BY <1>1, StepsBefore
  <2>3. k \in Steps(gcur)
    BY <1>1, <2>2, StepsBefore
  <2> QED BY <1>3, <2>1, <2>2, <2>3
<1>5. c # gcur
  BY <1>2, <1>3, OperandPath
<1>6. Kind(c) # "iterator_definition"
  BY <1>1, <1>2, OperandFacts
<1> QED BY <1>2, <1>3, <1>4, <1>5, <1>6

\* The path after accept: what is new on it has done nothing yet.
LEMMA PathBelow ==
  ASSUME prog \in Programs, WalkInv, NEW i, Descend(i), prog' = prog
  PROVE  \A n \in Path(gcur') : n \in Path(gcur) \/ n = gcur' \/ Kind(n) = "iterator_definition"
BY OperandIsNew, HandlerOf

LEMMA WalkDescends ==
  ASSUME prog \in Programs, WalkInv, NEW i, Descend(i), prog' = prog
  PROVE  WalkInv'
<1>1. /\ gcur \in Node /\ Kind(gcur) \in Visiting /\ i \in Steps(gcur) /\ gcur' = Operand(gcur, i)
      /\ step[gcur] < i /\ step \in [Node -> Nat] /\ step' = [step EXCEPT ![gcur] = i]
  BY DEF WalkInv, Descend
<1>2. PICK c \in Node \ {1} : c = gcur'
  BY OperandIsNew
<1>3. Handler(c) = gcur /\ c # gcur /\ i \in Nat /\ i > 0
  BY <1>1, <1>2, OperandIsNew, StepsBefore
<1>4. step' \in [Node -> Nat] /\ \A n \in Node : step'[n] = IF n = gcur THEN i ELSE step[n]
  BY <1>1, <1>3
<1>5. /\ Node' = Node /\ Path(gcur)' = Path(c)
      /\ \A n : Kind(n)' = Kind(n) /\ Steps(n)' = Steps(n) /\ Handler(n)' = Handler(n)
      /\ \A n, k : Operand(n, k)' = Operand(n, k)
  <2>1. Path(gcur)' = Path(c)
    BY <1>2 DEF Path
  <2> QED BY <2>1, SameTree, SameOperands
<1>6. StepsAreTaken'
  BY <1>1, <1>4, <1>5 DEF WalkInv, StepsAreTaken
<1>7. ASSUME NEW m \in Node \ {1}, step'[m] # 0 \/ m = c
      PROVE  \E k \in 1 .. step'[Handler(m)] : m = Operand(Handler(m), k)
  <2>1. Handler(m) \in Node
    BY HandlerOf
  <2>2. CASE m = c
    BY <1>1, <1>2, <1>3, <1>4, <2>2
  <2>3. CASE m # c
    <3>1. step[m] # 0 \/ m = gcur
      BY <1>4, <1>7, <2>3
    <3>2. PICK k \in 1 .. step[Handler(m)] : m = Operand(Handler(m), k)
      BY <3>1 DEF WalkInv, WalkIsDown, Visited
    <3>3. step[Handler(m)] <= step'[Handler(m)] /\ step[Handler(m)] \in Nat /\ step'[Handler(m)] \in Nat
      BY <1>1, <1>3, <1>4, <2>1
    <3>4. k \in 1 .. step'[Handler(m)]
      BY <3>3
    <3> QED BY <3>2, <3>4
  <2> QED BY <2>2, <2>3
<1>8. ASSUME NEW n \in Path(c) \ {c}, Kind(n) # "iterator_definition"
      PROVE  step'[n] # 0 /\ Operand(n, step'[n]) \in Path(c)
  <2>1. n \in Path(gcur) /\ n \in Node
    BY <1>2, <1>3, <1>8, HandlerOf, PathFacts
  <2>2. CASE n = gcur
    BY <1>1, <1>2, <1>3, <1>4, <2>1, <2>2, PathFacts
  <2>3. CASE n # gcur
    <3>1. step[n] # 0 /\ Operand(n, step[n]) \in Path(gcur)
      BY <1>8, <2>1, <2>3, InProgress
    <3>2. Path(gcur) \subseteq Path(c)
      BY <1>2, <1>3, OperandPath
    <3> QED BY <1>4, <2>1, <2>3, <3>1, <3>2
  <2> QED BY <2>2, <2>3
<1>9. WalkIsDown'
  BY <1>2, <1>5, <1>7, <1>8 DEF WalkIsDown, Visited
<1> QED BY <1>2, <1>4, <1>5, <1>6, <1>9 DEF WalkInv

LEMMA WalkAscends ==
  ASSUME prog \in Programs, WalkInv, Ascend, prog' = prog
  PROVE  WalkInv' /\ gcur' \in Path(gcur) /\ Path(gcur') \subseteq Path(gcur) /\ gcur \notin Path(gcur')
<1>1. gcur \in Node \ {1} /\ step \in [Node -> Nat] /\ step' = step
  BY DEF WalkInv, Ascend
<1>2. PICK n \in Node : n = gcur' /\ n = Handler(gcur)
  BY <1>1, HandlerOf DEF Ascend
<1>3. n \in Path(gcur) /\ Path(n) \subseteq Path(gcur) /\ gcur \notin Path(n) /\ n # gcur
  BY <1>1, <1>2, HandlerOf, OperandPath
<1>4. /\ Node' = Node /\ Path(gcur)' = Path(n)
      /\ \A m : Kind(m)' = Kind(m) /\ Steps(m)' = Steps(m) /\ Handler(m)' = Handler(m)
      /\ \A m, k : Operand(m, k)' = Operand(m, k)
  <2>1. Path(gcur)' = Path(n)
    BY <1>2 DEF Path
  <2> QED BY <2>1, SameTree, SameOperands
<1>5. StepsAreTaken'
  BY <1>1, <1>4 DEF WalkInv, StepsAreTaken
<1>6. step[n] # 0
  <2>1. Kind(n) # "iterator_definition"
    BY <1>1, <1>2, HandlerOf
  <2> QED BY <1>3, <2>1, InProgress
<1>7. ASSUME NEW m \in Node \ {1}, step'[m] # 0 \/ m = n
      PROVE  \E k \in 1 .. step'[Handler(m)] : m = Operand(Handler(m), k)
  BY <1>1, <1>6, <1>7 DEF WalkInv, WalkIsDown, Visited
<1>8. ASSUME NEW x \in Path(n) \ {n}, Kind(x) # "iterator_definition"
      PROVE  step'[x] # 0 /\ Operand(x, step'[x]) \in Path(n)
  <2>1. x \in Path(gcur) /\ x # gcur
    BY <1>3
  <2>2. /\ x \in Node /\ Kind(x) \in Visiting /\ step[x] # 0 /\ step[x] \in Steps(x)
        /\ Operand(x, step[x]) \in Path(gcur)
    BY <1>8, <2>1, InProgress
  <2>3. Handler(Operand(x, step[x])) = x /\ Kind(Operand(x, step[x])) # "iterator_definition"
    BY <2>2, OperandFacts
  <2>4. Operand(x, step[x]) # gcur
    BY <1>2, <2>3
  <2> QED BY <1>1, <1>2, <2>2, <2>3, <2>4, HandlerOf
<1>9. WalkIsDown'
  BY <1>2, <1>4, <1>7, <1>8 DEF WalkIsDown, Visited
<1> QED BY <1>1, <1>2, <1>3, <1>4, <1>5, <1>9 DEF WalkInv

LEMMA WalkStays ==
  ASSUME WalkInv, UNCHANGED <<prog, gcur, step>>
  PROVE  WalkInv'
<1>1. /\ Node' = Node /\ Path(gcur)' = Path(gcur)
      /\ \A m : Kind(m)' = Kind(m) /\ Steps(m)' = Steps(m) /\ Handler(m)' = Handler(m)
      /\ \A m, k : Operand(m, k)' = Operand(m, k)
  <2>1. Path(gcur)' = Path(gcur)
    BY DEF Path
  <2> QED BY <2>1, SameTree, SameOperands
<1>2. gcur' = gcur /\ step' = step
  OBVIOUS
<1> QED BY <1>1, <1>2 DEF WalkInv, StepsAreTaken, WalkIsDown, Visited

-----------------------------------------------------------------------------
(* What the actions do to the blocks                                       *)

\* Nothing happens to the code; a node is accepted or given a value meanwhile.
Quietly == UNCHANGED <<ip, blocks, phi, keptBlock>>
Passes(i) ==
  /\ Descend(i) /\ Quietly /\ Kind(gcur) \notin Callables
  /\ Kind(gcur) \in Constructs \cup {"variable_definition"} => i = 1
  /\ Kind(gcur) \in Constructs => ip # NoBlock
  /\ Kind(gcur) = "variable_definition" => ~IsGlobal(gcur)
Returns ==
  /\ Ascend /\ Quietly /\ Kind(gcur) \notin Callables \cup Loops
  /\ Kind(gcur) = "if_expr" => <<"null", gcur>> \in faults'

FunctionOpens ==
  /\ Kind(gcur) \in Callables /\ step[gcur] = 0 /\ Descend(1)
  /\ blocks' = Onto([b \in {Entry(gcur)} |-> NewBlock(gcur)], blocks)
  /\ keptBlock' = [keptBlock EXCEPT ![gcur] = IF Kind(gcur) = "lambda" THEN ip ELSE @]
  /\ ip' = Entry(gcur) /\ UNCHANGED phi
FunctionCloses ==
  /\ Kind(gcur) \in Callables /\ step[gcur] = 1 /\ Ascend
  /\ Kind(gcur) = "lambda" => keptBlock[gcur] # NoBlock
  /\ blocks' = Ending(ip, {})
  /\ ip' = (IF Kind(gcur) = "lambda" THEN keptBlock[gcur] ELSE ip) /\ UNCHANGED <<phi, keptBlock>>

ThenBegins ==
  /\ Kind(gcur) = "if_expr" /\ step[gcur] = 1 /\ Descend(2)
  /\ blocks' = Onto([b \in {IfBlock("then"), IfBlock("else"), IfBlock("cont")} |-> NewBlock(CurrentFunction)],
                    Ending(ip, {IfBlock("then"), IfBlock("else")}))
  /\ ip' = IfBlock("then") /\ UNCHANGED <<phi, keptBlock>>
ElseBegins ==
  /\ Kind(gcur) = "if_expr" /\ step[gcur] = 2 /\ Descend(3)
  /\ blocks' = Ending(ip, {IfBlock("cont")})
  /\ keptBlock' = [keptBlock EXCEPT ![gcur] = ip]
  /\ ip' = IfBlock("else") /\ UNCHANGED phi
ElseFails ==
  /\ Kind(gcur) = "if_expr" /\ step[gcur] = 2 /\ Ascend /\ <<"null", gcur>> \in faults'
  /\ blocks' = Ending(ip, {IfBlock("cont")})
  /\ ip' = IfBlock("else") /\ UNCHANGED <<phi, keptBlock>>
BranchesMerge ==
  /\ Kind(gcur) = "if_expr" /\ step[gcur] = 3 /\ Ascend
  /\ blocks' = Ending(ip, {IfBlock("cont")})
  /\ phi' = [phi EXCEPT ![gcur] = {keptBlock[gcur], ip}]
  /\ ip' = IfBlock("cont") /\ UNCHANGED keptBlock

IterationBegins ==
  /\ Kind(gcur) \in Loops /\ step[gcur] = 1 /\ Descend(2)
  /\ blocks' = Onto([b \in {LoopBlock(l) : l \in {"check", "loop", "update", "loopend"}} |->
                       IF b # LoopBlock("check") THEN NewBlock(CurrentFunction)
                       ELSE [fn |-> CurrentFunction, to |-> {LoopBlock("loop"), LoopBlock("loopend")}, done |-> TRUE]],
                    Ending(ip, {LoopBlock("check")}))
  /\ ip' = LoopBlock("loop") /\ UNCHANGED <<phi, keptBlock>>
LoopCloses ==
  /\ Kind(gcur) \in Loops /\ step[gcur] = 2 /\ Ascend
  /\ blocks' = [Ending(ip, {LoopBlock("update")}) EXCEPT ![LoopBlock("update")].done = TRUE,
                                                        ![LoopBlock("update")].to = {LoopBlock("check")}]
  /\ ip' = LoopBlock("loopend") /\ UNCHANGED <<phi, keptBlock>>

Stays == UNCHANGED <<gcur, step>> /\ Quietly /\ (result' \in {"ok", "failed"} => gcur = 1)
Turns ==
  \/ (\E i : Passes(i)) \/ Returns \/ FunctionOpens \/ FunctionCloses \/ ThenBegins \/ ElseBegins
  \/ ElseFails \/ BranchesMerge \/ IterationBegins \/ LoopCloses
Moves == result = "generating" /\ faults \subseteq faults' /\ (Stays \/ (Turns /\ UNCHANGED result))

LEMMA DieMoves ==
  ASSUME result = "generating", Die
  PROVE  Moves
BY DEF Die, Moves, Stays, Quietly, code, kept

LEMMA FinishMoves ==
  ASSUME prog \in Programs, WalkInv, result = "generating", NEW o, Finish(o),
         Kind(gcur) \notin Callables \cup Loops \cup {"if_expr", "root"}
  PROVE  Moves
<1>1. CASE Die
  BY <1>1, DieMoves
<1>2. CASE Give(o.v, o.wrong) /\ UNCHANGED <<code, kept>>
  <2>1. gcur # 1
    BY ProgramFacts DEF WalkInv
  <2>2. Returns /\ faults \subseteq faults' /\ UNCHANGED result
    BY <1>2, <2>1 DEF Give, Returns, Ascend, Quietly, code, kept
  <2> QED BY <2>2 DEF Moves, Turns
<1> QED BY <1>1, <1>2 DEF Finish

LEMMA VisitOperandMoves ==
  ASSUME prog \in Programs, WalkInv, VisitOperand
  PROVE  Moves
<1>1. /\ result = "generating" /\ Kind(gcur) \in Plain /\ Upcoming(gcur) # {}
      /\ gcur \in Node /\ UNCHANGED <<faults, result>> /\ Quietly
  BY DEF VisitOperand, WalkInv, Visit, code, kept, Quietly
<1>2. PICK i : i = Above(Upcoming(gcur))
  OBVIOUS
<1>3. gcur' = Child(gcur, i) /\ step' = [step EXCEPT ![gcur] = i]
  BY <1>2 DEF VisitOperand, Visit
<1>4. Kind(gcur) \notin Callables \cup Loops \cup {"if_expr", "variable_definition"} /\ Kind(gcur) \in Visiting
  BY <1>1 DEF Plain, Operators, Statements, Callables, Loops, Visiting
<1>5. DOMAIN Children(gcur) = 1 .. Len(Children(gcur)) /\ Steps(gcur) = 1 .. Len(Children(gcur))
  <2>1. prog \in Seq(NodeRecord) /\ prog[gcur] \in NodeRecord
    BY <1>1, ProgramsAssumption DEF WellFormed, Node
  <2> QED BY <1>4, <2>1 DEF NodeRecord, Children, Steps
<1>6. i \in Upcoming(gcur)
  <2>1. Upcoming(gcur) \in SUBSET Nat
    BY <1>5 DEF Upcoming
  <2> QED BY <1>1, <1>2, <2>1, AbovePicks
<1>7. i \in Steps(gcur) /\ step[gcur] < i
  <2>1. i \in Steps(gcur) /\ i > step[gcur]
    BY <1>5, <1>6 DEF Upcoming
  <2>2. i \in Nat /\ step[gcur] \in Nat
    BY <1>1, <1>5, <2>1 DEF WalkInv
  <2> QED BY <2>1, <2>2
<1>8. Operand(gcur, i) = Child(gcur, i)
  BY <1>4 DEF Operand
<1>9. Passes(i)
  BY <1>1, <1>3, <1>4, <1>7, <1>8 DEF Passes, Descend, Constructs
<1> QED BY <1>1, <1>9 DEF Moves, Turns

LEMMA EmitMoves ==
  ASSUME prog \in Programs, WalkInv,
         \/ EmitLeaf \/ EmitOperator \/ EmitList \/ EmitSet \/ EmitCall
         \/ EmitBody \/ EmitNothing \/ EmitRoot
  PROVE  Moves
<1> DEFINE Kinds_ == {"literal", "variable", "binary_op", "unary_op", "list_op", "list", "set_expression",
                      "function_call", "function_body", "when_loop", "infinite_loop"}
<1>1. CASE EmitRoot
  <2>1. gcur = 1
    BY <1>1, ProgramFacts DEF EmitRoot, Emitting, WalkInv
  <2> QED BY <1>1, <2>1 DEF EmitRoot, Emitting, Moves, Stays, Quietly, code, kept
<1>2. CASE ~EmitRoot
  <2>1. result = "generating" /\ Kind(gcur) \in Kinds_ /\ \E o : Finish(o)
    BY <1>2 DEF EmitLeaf, EmitOperator, EmitList, EmitSet, EmitCall, EmitBody, EmitNothing, Emitting, Generating
  <2>2. Kind(gcur) \notin Callables \cup Loops \cup {"if_expr", "root"}
    BY <2>1 DEF Callables, Loops
  <2> QED BY <2>1, <2>2, FinishMoves
<1> QED BY <1>1, <1>2

LEMMA VariableMoves ==
  ASSUME prog \in Programs, WalkInv, EmitExtern \/ DeclareGlobal \/ OpenVariable \/ EmitVariable
  PROVE  Moves
<1>1. /\ result = "generating" /\ Kind(gcur) \in {"extern_function", "variable_definition"}
      /\ gcur \in Node /\ gcur # 1
  BY ProgramFacts DEF EmitExtern, DeclareGlobal, OpenVariable, EmitVariable, Generating, WalkInv
<1>2. Kind(gcur) \notin Callables \cup Loops \cup {"if_expr"}
  BY <1>1 DEF Callables, Loops
<1>3. ASSUME NEW v, NEW wrong, Give(v, wrong), Quietly
      PROVE  Moves
  <2>1. Returns /\ faults \subseteq faults' /\ UNCHANGED result
    BY <1>1, <1>2, <1>3 DEF Give, Returns, Ascend
  <2> QED BY <1>1, <2>1 DEF Moves, Turns
<1>4. CASE OpenVariable /\ ~Die
  <2>1. /\ Kind(gcur) = "variable_definition" /\ step[gcur] = 0 /\ ~IsGlobal(gcur)
        /\ gcur' = Child(gcur, 1) /\ step' = [step EXCEPT ![gcur] = 1] /\ Quietly
        /\ UNCHANGED <<faults, result>>
    BY <1>4 DEF OpenVariable, Generating, Visit, Quietly, code, kept
  <2>2. 1 \in Steps(gcur) /\ Operand(gcur, 1) = Child(gcur, 1)
    BY <1>1, <1>2, <2>1, ShapeFacts DEF Steps, Operand
  <2>3. Passes(1)
    BY <1>2, <2>1, <2>2 DEF Passes, Descend, Visiting, Constructs
  <2> QED BY <1>1, <2>1, <2>3 DEF Moves, Turns
<1>5. CASE EmitExtern /\ ~Die
  BY <1>3, <1>5 DEF EmitExtern, Quietly, kept
<1>6. CASE DeclareGlobal
  BY <1>3, <1>6 DEF DeclareGlobal, Quietly, kept
<1>7. CASE EmitVariable /\ ~Die
  BY <1>3, <1>7 DEF EmitVariable, Quietly, kept, code
<1>8. CASE Die
  BY <1>1, <1>8, DieMoves
<1> QED BY <1>4, <1>5, <1>6, <1>7, <1>8

LEMMA FunctionMoves ==
  ASSUME prog \in Programs, WalkInv, OpenFunction \/ CloseFunction
  PROVE  Moves
<1>1. /\ result = "generating" /\ Kind(gcur) \in Callables /\ gcur \in Node /\ gcur # 1
  BY ProgramFacts DEF OpenFunction, CloseFunction, Generating, WalkInv, Callables
<1>2. CASE OpenFunction /\ ~Die
  <2>1. 1 \in Steps(gcur) /\ Operand(gcur, 1) = LastChild(gcur)
    BY <1>1 DEF Steps, Operand
  <2>2. FunctionOpens /\ UNCHANGED <<faults, result>>
    BY <1>1, <1>2, <2>1 DEF OpenFunction, Generating, Visit, FunctionOpens, Descend, Visiting, Constructs
  <2> QED BY <1>1, <2>2 DEF Moves, Turns
<1>3. CASE CloseFunction /\ ~Die
  <2>1. FunctionCloses /\ faults \subseteq faults' /\ UNCHANGED result
    BY <1>1, <1>3 DEF CloseFunction, Generating, Give, FunctionCloses, Ascend, kept
  <2> QED BY <1>1, <2>1 DEF Moves, Turns
<1> QED BY <1>1, <1>2, <1>3, DieMoves

LEMMA IfMoves ==
  ASSUME prog \in Programs, WalkInv, OpenIf \/ BeginThen \/ BeginElse \/ MergeBranches
  PROVE  Moves
<1>1. /\ result = "generating" /\ Kind(gcur) = "if_expr" /\ gcur \in Node /\ gcur # 1
  BY ProgramFacts DEF OpenIf, BeginThen, BeginElse, MergeBranches, Generating, WalkInv
<1>2. /\ Kind(gcur) \notin Callables \cup Loops /\ Kind(gcur) \in Visiting
      /\ 1 \in Steps(gcur) /\ 2 \in Steps(gcur) /\ 3 \in Steps(gcur)
      /\ Operand(gcur, 1) = Child(gcur, 1) /\ Operand(gcur, 2) = Child(gcur, 2) /\ Operand(gcur, 3) = Child(gcur, 3)
  <2>1. Kind(gcur) \notin Callables \cup Loops /\ Kind(gcur) \in Visiting
    BY <1>1 DEF Callables, Loops, Visiting, Constructs
  <2>2. Len(Children(gcur)) = 3
    BY <1>1, ShapeFacts
  <2>3. 1 \in 1 .. 3 /\ 2 \in 1 .. 3 /\ 3 \in 1 .. 3
    OBVIOUS
  <2> QED BY <2>1, <2>2, <2>3 DEF Steps, Operand
<1>3. CASE LeaveIfUnfinished
  <2>1. <<"null", gcur>> \in faults' /\ faults \subseteq faults' /\ Ascend /\ Quietly /\ UNCHANGED result
    BY <1>1, <1>3 DEF LeaveIfUnfinished, Give, Unless, Ascend, Quietly, code, kept
  <2> QED BY <1>1, <1>2, <2>1 DEF Returns, Moves, Turns
<1>4. CASE OpenIf /\ ~Die
  <2>1. /\ step[gcur] = 0 /\ ip # NoBlock /\ Quietly /\ UNCHANGED <<faults, result>>
        /\ gcur' = Child(gcur, 1) /\ step' = [step EXCEPT ![gcur] = 1]
    BY <1>4 DEF OpenIf, Generating, Visit, Quietly, code, kept
  <2>2. Passes(1)
    BY <1>1, <1>2, <2>1 DEF Passes, Descend
  <2> QED BY <1>1, <2>1, <2>2 DEF Moves, Turns
<1>5. CASE BeginThen /\ ~Die
  <2>1. ThenBegins /\ faults \subseteq faults' /\ UNCHANGED result
    BY <1>1, <1>2, <1>5 DEF BeginThen, Generating, ThenBegins, Descend, kept
  <2> QED BY <1>1, <2>1 DEF Moves, Turns
<1>6. CASE BeginElse /\ ~Die /\ ~LeaveIfUnfinished
  <2>1. CASE Converts(Child(gcur, 3), Id(type[gcur]))
    <3>1. ElseBegins /\ UNCHANGED <<faults, result>>
      BY <1>1, <1>2, <1>6, <2>1 DEF BeginElse, Generating, ElseBlock, Visit, ElseBegins, Descend
    <3> QED BY <1>1, <3>1 DEF Moves, Turns
  <2>2. CASE ~Converts(Child(gcur, 3), Id(type[gcur]))
    <3>1. ElseFails /\ faults \subseteq faults' /\ UNCHANGED result
      BY <1>1, <1>6, <2>2 DEF BeginElse, Generating, ElseBlock, Give, Unless, ElseFails, Ascend
    <3> QED BY <1>1, <3>1 DEF Moves, Turns
  <2> QED BY <2>1, <2>2
<1>7. CASE MergeBranches /\ ~Die /\ ~LeaveIfUnfinished
  <2>1. BranchesMerge /\ faults \subseteq faults' /\ UNCHANGED result
    BY <1>1, <1>2, <1>7 DEF MergeBranches, Generating, Give, BranchesMerge, Ascend, kept
  <2> QED BY <1>1, <2>1 DEF Moves, Turns
<1> QED BY <1>1, <1>3, <1>4, <1>5, <1>6, <1>7, DieMoves

LEMMA LoopMoves ==
  ASSUME prog \in Programs, WalkInv, OpenLoop \/ BeginIteration \/ CloseLoop
  PROVE  Moves
<1>1. /\ result = "generating" /\ Kind(gcur) \in Loops /\ gcur \in Node /\ gcur # 1
  BY ProgramFacts DEF OpenLoop, BeginIteration, CloseLoop, Generating, WalkInv, Loops
<1>2. /\ Kind(gcur) \notin Callables \cup {"variable_definition"} /\ Kind(gcur) \in Visiting
      /\ Operand(gcur, 1) = Child(IteratorOf(gcur), 1) /\ Operand(gcur, 2) = LoopBody(gcur)
  BY <1>1 DEF Callables, Loops, Visiting, Constructs, Operand
<1>3. 1 \in Steps(gcur) /\ 2 \in Steps(gcur)
  <2>1. Len(Children(gcur)) = 2
    BY <1>1, LoopShape
  <2> QED BY <1>2, <2>1 DEF Steps
<1>4. CASE OpenLoop /\ ~Die
  <2>1. /\ step[gcur] = 0 /\ ip # NoBlock /\ Quietly /\ UNCHANGED <<faults, result>>
        /\ gcur' = Child(IteratorOf(gcur), 1) /\ step' = [step EXCEPT ![gcur] = 1]
    BY <1>4 DEF OpenLoop, Generating, Visit, Quietly, code
  <2>2. Passes(1)
    BY <1>2, <1>3, <2>1 DEF Passes, Descend
  <2> QED BY <1>1, <2>1, <2>2 DEF Moves, Turns
<1>5. CASE BeginIteration /\ ~Die
  <2>1. IterationBegins /\ faults \subseteq faults' /\ UNCHANGED result
    BY <1>1, <1>2, <1>3, <1>5 DEF BeginIteration, Generating, IterationBegins, Descend, kept
  <2> QED BY <1>1, <2>1 DEF Moves, Turns
<1>6. CASE CloseLoop /\ ~Die
  <2>1. LoopCloses /\ faults \subseteq faults' /\ UNCHANGED result
    BY <1>1, <1>6 DEF CloseLoop, Generating, Give, LoopCloses, Ascend, kept
  <2> QED BY <1>1, <2>1 DEF Moves, Turns
<1> QED BY <1>1, <1>4, <1>5, <1>6, DieMoves

LEMMA GenerateMoves ==
  ASSUME prog \in Programs, WalkInv, Generate
  PROVE  Moves
<1>1. CASE VisitOperand
  BY <1>1, VisitOperandMoves
<1>2. CASE \/ EmitLeaf \/ EmitOperator \/ EmitList \/ EmitSet \/ EmitCall
           \/ EmitBody \/ EmitNothing \/ EmitRoot
  BY <1>2, EmitMoves
<1>3. CASE EmitExtern \/ DeclareGlobal \/ OpenVariable \/ EmitVariable
  BY <1>3, VariableMoves
<1>4. CASE OpenFunction \/ CloseFunction
  BY <1>4, FunctionMoves
<1>5. CASE OpenIf \/ BeginThen \/ BeginElse \/ MergeBranches
  BY <1>5, IfMoves
<1>6. CASE OpenLoop \/ BeginIteration \/ CloseLoop
  BY <1>6, LoopMoves
<1> QED BY <1>1, <1>2, <1>3, <1>4, <1>5, <1>6 DEF Generate

-----------------------------------------------------------------------------
(* The blocks after a turn                                                 *)

LEMMA EndingFacts ==
  ASSUME BlocksAreTheirs, ip # NoBlock, NEW targets \in SUBSET BlockNames
  PROVE  /\ ip \in DOMAIN blocks /\ blocks[ip].fn \in Node /\ CurrentFunction = blocks[ip].fn
         /\ DOMAIN Ending(ip, targets) = DOMAIN blocks
         /\ \A b \in DOMAIN blocks :
              /\ Ending(ip, targets)[b] \in Block
              /\ Ending(ip, targets)[b].fn = blocks[b].fn
              /\ Ending(ip, targets)[b].to = blocks[b].to \cup (IF b = ip THEN targets ELSE {})
              /\ Ending(ip, targets)[b].done = (b = ip \/ blocks[b].done)
<1>1. ip \in DOMAIN blocks /\ \A b \in DOMAIN blocks : blocks[b] \in Block
  BY DEF BlocksAreTheirs
<1>2. blocks[ip].fn \in Node /\ CurrentFunction = blocks[ip].fn
  BY <1>1 DEF Block, CurrentFunction
<1>3. DOMAIN Ending(ip, targets) = DOMAIN blocks
  BY DEF Ending
<1>4. ASSUME NEW b \in DOMAIN blocks
      PROVE  /\ Ending(ip, targets)[b] \in Block
             /\ Ending(ip, targets)[b].fn = blocks[b].fn
             /\ Ending(ip, targets)[b].to = blocks[b].to \cup (IF b = ip THEN targets ELSE {})
             /\ Ending(ip, targets)[b].done = (b = ip \/ blocks[b].done)
  <2>1. blocks[b] \in Block
    BY <1>1
  <2>2. CASE b = ip
    <3>1. Ending(ip, targets)[b] = [[blocks[b] EXCEPT !.done = TRUE] EXCEPT !.to = @ \cup targets]
      BY <1>1, <2>1, <2>2 DEF Ending, Block
    <3>2. blocks[b].fn \in Node /\ blocks[b].to \cup targets \in SUBSET BlockNames
      BY <2>1 DEF Block
    <3>3. Ending(ip, targets)[b] = [fn |-> blocks[b].fn, to |-> blocks[b].to \cup targets, done |-> TRUE]
      BY <2>1, <3>1 DEF Block
    <3>4. Ending(ip, targets)[b] \in Block
      BY <3>2, <3>3 DEF Block
    <3>5. Ending(ip, targets)[b].fn = blocks[b].fn /\ Ending(ip, targets)[b].to = blocks[b].to \cup targets
      BY <3>3
    <3>6. Ending(ip, targets)[b].done = TRUE
      BY <3>3
    <3> QED BY <2>2, <3>4, <3>5, <3>6
  <2>3. CASE b # ip
    <3>1. Ending(ip, targets)[b] = blocks[b]
      BY <1>1, <2>3 DEF Ending
    <3>2. blocks[b].to = blocks[b].to \cup {}
      OBVIOUS
    <3>3. blocks[b].done \in BOOLEAN
      BY <2>1 DEF Block
    <3> QED BY <2>1, <2>3, <3>1, <3>2, <3>3
  <2> QED BY <2>2, <2>3
<1> QED BY <1>1, <1>2, <1>3, <1>4

LEMMA NewBlockFacts ==
  ASSUME NEW f \in Node
  PROVE  NewBlock(f) \in Block /\ NewBlock(f).fn = f /\ NewBlock(f).to = {} /\ NewBlock(f).done = FALSE
BY DEF NewBlock, Block

\* What a node's handler has made depends on its step.
LEMMA SameLabels ==
  ASSUME prog' = prog, NEW n, step'[n] = step[n]
  PROVE  /\ LabelsOf(n)' = LabelsOf(n) /\ Forks(n)' = Forks(n) /\ Iterates(n)' = Iterates(n)
         /\ Defines(n)' = Defines(n) /\ Open(n)' = Open(n) /\ After(n)' = After(n)
<1>1. Kind(n)' = Kind(n)
  BY SameTree
<1> QED BY <1>1 DEF LabelsOf, Forks, Iterates, Defines, Open, After

\* A turn leaves the blocks that are there in their functions, and their branches.
Keeps(new) ==
  /\ DOMAIN blocks' = DOMAIN blocks \cup new /\ new \cap DOMAIN blocks = {}
  /\ \A b \in DOMAIN blocks' : blocks'[b] \in Block
  /\ \A b \in DOMAIN blocks :
       /\ blocks'[b].fn = blocks[b].fn /\ blocks[b].to \subseteq blocks'[b].to
       /\ blocks[b].done => blocks'[b].done

LEMMA FunctionOpensBlocks ==
  ASSUME prog \in Programs, WalkInv, BlocksAreTheirs, FunctionOpens
  PROVE  /\ Keeps({Entry(gcur)}) /\ blocks'[Entry(gcur)] = NewBlock(gcur)
         /\ \A b \in DOMAIN blocks : blocks'[b] = blocks[b]
<1> DEFINE new == [b \in {Entry(gcur)} |-> NewBlock(gcur)]
<1>1. gcur \in Node /\ blocks' = Onto(new, blocks) /\ step[gcur] = 0
  BY DEF WalkInv, FunctionOpens
<1>2. Entry(gcur) \notin DOMAIN blocks
  <2>1. LabelsOf(gcur) = {} /\ "entry" \in Labels
    BY <1>1 DEF LabelsOf, Forks, Iterates, Defines, Labels
  <2> QED BY <1>1, <2>1 DEF BlocksAreTheirs, Entry
<1>3. DOMAIN new = {Entry(gcur)} /\ new[Entry(gcur)] = NewBlock(gcur)
  OBVIOUS
<1>4. /\ DOMAIN blocks' = {Entry(gcur)} \cup DOMAIN blocks /\ blocks'[Entry(gcur)] = NewBlock(gcur)
      /\ \A b \in DOMAIN blocks : blocks'[b] = blocks[b]
  <2> HIDE DEF new
  <2> QED BY <1>1, <1>2, <1>3 DEF Onto
<1>5. \A b \in DOMAIN blocks : blocks[b] \in Block
  BY DEF BlocksAreTheirs
<1>6. NewBlock(gcur) \in Block
  BY <1>1, NewBlockFacts
<1> QED BY <1>2, <1>4, <1>5, <1>6 DEF Keeps

LEMMA FunctionClosesBlocks ==
  ASSUME prog \in Programs, WalkInv, BlocksAreTheirs, FunctionCloses
  PROVE  /\ Keeps({}) /\ ip \in DOMAIN blocks
         /\ \A b \in DOMAIN blocks : blocks'[b].to = blocks[b].to /\ blocks'[b].done = (b = ip \/ blocks[b].done)
<1>1. gcur \in Node /\ blocks' = Ending(ip, {}) /\ Kind(gcur) \in Callables /\ step[gcur] = 1
  BY DEF WalkInv, FunctionCloses
<1>2. ip # NoBlock
  BY <1>1 DEF BlocksAreTheirs, Constructs
<1>3. PICK targets \in SUBSET BlockNames : targets = {}
  OBVIOUS
<1>4. /\ ip \in DOMAIN blocks /\ DOMAIN Ending(ip, targets) = DOMAIN blocks
      /\ \A b \in DOMAIN blocks :
           /\ Ending(ip, targets)[b] \in Block /\ Ending(ip, targets)[b].fn = blocks[b].fn
           /\ Ending(ip, targets)[b].to = blocks[b].to \cup (IF b = ip THEN targets ELSE {})
           /\ Ending(ip, targets)[b].done = (b = ip \/ blocks[b].done)
  BY <1>2, EndingFacts
<1>5. /\ ip \in DOMAIN blocks /\ DOMAIN blocks' = DOMAIN blocks
      /\ \A b \in DOMAIN blocks :
           /\ blocks'[b] \in Block /\ blocks'[b].fn = blocks[b].fn /\ blocks'[b].to = blocks[b].to
           /\ blocks'[b].done = (b = ip \/ blocks[b].done)
  BY <1>1, <1>3, <1>4
<1> QED BY <1>5 DEF Keeps

LEMMA IfPlaces ==
  ASSUME BlocksAreTheirs, WalkInv, Kind(gcur) = "if_expr", step[gcur] # 0
  PROVE  /\ gcur \in Node /\ ip # NoBlock
         /\ {IfBlock("then"), IfBlock("else"), IfBlock("cont")} \subseteq BlockNames
<1>1. gcur \in Node /\ {"then", "else", "cont"} \subseteq Labels
  BY DEF WalkInv, Labels
<1>2. ip # NoBlock
  BY <1>1 DEF BlocksAreTheirs, Constructs
<1> QED BY <1>1, <1>2 DEF IfBlock, BlockNames

LEMMA ThenBeginsBlocks ==
  ASSUME prog \in Programs, WalkInv, BlocksAreTheirs, ThenBegins
  PROVE  /\ Keeps({IfBlock("then"), IfBlock("else"), IfBlock("cont")}) /\ ip \in DOMAIN blocks
         /\ CurrentFunction = blocks[ip].fn /\ CurrentFunction \in Node
         /\ \A b \in {IfBlock("then"), IfBlock("else"), IfBlock("cont")} : blocks'[b] = NewBlock(CurrentFunction)
         /\ \A b \in DOMAIN blocks :
              /\ blocks'[b].to = blocks[b].to \cup (IF b = ip THEN {IfBlock("then"), IfBlock("else")} ELSE {})
              /\ blocks'[b].done = (b = ip \/ blocks[b].done)
<1> DEFINE made == {IfBlock("then"), IfBlock("else"), IfBlock("cont")}
           new == [b \in made |-> NewBlock(CurrentFunction)]
           old == Ending(ip, {IfBlock("then"), IfBlock("else")})
<1>1. gcur \in Node /\ blocks' = Onto(new, old) /\ Kind(gcur) = "if_expr" /\ step[gcur] = 1
  BY DEF WalkInv, ThenBegins
<1>2. ip # NoBlock /\ made \subseteq BlockNames
  BY <1>1, IfPlaces
<1>3. \A b \in made : b \notin DOMAIN blocks
  <2>1. LabelsOf(gcur) = {} /\ {"then", "else", "cont"} \subseteq Labels
    BY <1>1 DEF LabelsOf, Forks, Iterates, Defines, Labels, Loops, Callables
  <2> QED BY <1>1, <2>1 DEF BlocksAreTheirs, IfBlock
<1>4. /\ ip \in DOMAIN blocks /\ CurrentFunction \in Node /\ CurrentFunction = blocks[ip].fn
      /\ DOMAIN old = DOMAIN blocks
      /\ \A b \in DOMAIN blocks :
           /\ old[b] \in Block /\ old[b].fn = blocks[b].fn
           /\ old[b].to = blocks[b].to \cup (IF b = ip THEN {IfBlock("then"), IfBlock("else")} ELSE {})
           /\ old[b].done = (b = ip \/ blocks[b].done)
  <2>1. {IfBlock("then"), IfBlock("else")} \in SUBSET BlockNames
    BY <1>2
  <2> QED BY <1>2, <2>1, EndingFacts
<1>5. DOMAIN new = made /\ \A b \in made : new[b] = NewBlock(CurrentFunction)
  OBVIOUS
<1>6. /\ DOMAIN blocks' = made \cup DOMAIN blocks /\ \A b \in made : blocks'[b] = NewBlock(CurrentFunction)
      /\ \A b \in DOMAIN blocks : blocks'[b] = old[b]
  <2> HIDE DEF new, old, made
  <2> QED BY <1>1, <1>3, <1>4, <1>5 DEF Onto
<1>7. NewBlock(CurrentFunction) \in Block
  BY <1>4, NewBlockFacts
<1> HIDE DEF new, old
<1>8. Keeps(made)
  BY <1>3, <1>4, <1>6, <1>7 DEF Keeps
<1> QED BY <1>4, <1>6, <1>8

LEMMA BranchEndsBlocks ==
  ASSUME prog \in Programs, WalkInv, BlocksAreTheirs, ElseBegins \/ ElseFails \/ BranchesMerge
  PROVE  /\ Keeps({}) /\ ip \in DOMAIN blocks
         /\ \A b \in DOMAIN blocks :
              /\ blocks'[b].to = blocks[b].to \cup (IF b = ip THEN {IfBlock("cont")} ELSE {})
              /\ blocks'[b].done = (b = ip \/ blocks[b].done)
<1>1. blocks' = Ending(ip, {IfBlock("cont")}) /\ Kind(gcur) = "if_expr" /\ step[gcur] # 0
  BY DEF WalkInv, ElseBegins, ElseFails, BranchesMerge
<1>2. ip # NoBlock /\ {IfBlock("cont")} \in SUBSET BlockNames
  BY <1>1, IfPlaces
<1>3. /\ ip \in DOMAIN blocks /\ DOMAIN blocks' = DOMAIN blocks
      /\ \A b \in DOMAIN blocks :
           /\ blocks'[b] \in Block /\ blocks'[b].fn = blocks[b].fn
           /\ blocks'[b].to = blocks[b].to \cup (IF b = ip THEN {IfBlock("cont")} ELSE {})
           /\ blocks'[b].done = (b = ip \/ blocks[b].done)
  BY <1>1, <1>2, EndingFacts
<1> QED BY <1>3 DEF Keeps

LEMMA LoopPlaces ==
  ASSUME BlocksAreTheirs, WalkInv, Kind(gcur) \in Loops, step[gcur] # 0
  PROVE  /\ gcur \in Node /\ ip # NoBlock
         /\ {LoopBlock("check"), LoopBlock("loop"), LoopBlock("update"), LoopBlock("loopend")} \subseteq BlockNames
<1>1. gcur \in Node /\ {"check", "loop", "update", "loopend"} \subseteq Labels
  BY DEF WalkInv, Labels
<1>2. ip # NoBlock
  BY <1>1 DEF BlocksAreTheirs, Constructs
<1> QED BY <1>1, <1>2 DEF LoopBlock, BlockNames

LEMMA IterationBeginsBlocks ==
  ASSUME prog \in Programs, WalkInv, BlocksAreTheirs, IterationBegins
  PROVE  /\ Keeps({LoopBlock("check"), LoopBlock("loop"), LoopBlock("update"), LoopBlock("loopend")})
         /\ ip \in DOMAIN blocks /\ CurrentFunction = blocks[ip].fn /\ CurrentFunction \in Node
         /\ \A b \in {LoopBlock("loop"), LoopBlock("update"), LoopBlock("loopend")} :
              blocks'[b] = NewBlock(CurrentFunction)
         /\ blocks'[LoopBlock("check")] =
              [fn |-> CurrentFunction, to |-> {LoopBlock("loop"), LoopBlock("loopend")}, done |-> TRUE]
         /\ \A b \in DOMAIN blocks :
              /\ blocks'[b].to = blocks[b].to \cup (IF b = ip THEN {LoopBlock("check")} ELSE {})
              /\ blocks'[b].done = (b = ip \/ blocks[b].done)
<1> DEFINE made == {LoopBlock(l) : l \in {"check", "loop", "update", "loopend"}}
           check == [fn |-> CurrentFunction, to |-> {LoopBlock("loop"), LoopBlock("loopend")}, done |-> TRUE]
           new == [b \in made |-> IF b # LoopBlock("check") THEN NewBlock(CurrentFunction) ELSE check]
           old == Ending(ip, {LoopBlock("check")})
<1>1. gcur \in Node /\ blocks' = Onto(new, old) /\ Kind(gcur) \in Loops /\ step[gcur] = 1
  BY DEF WalkInv, IterationBegins
<1>2. ip # NoBlock /\ made \subseteq BlockNames
      /\ made = {LoopBlock("check"), LoopBlock("loop"), LoopBlock("update"), LoopBlock("loopend")}
      /\ \A b \in {LoopBlock("loop"), LoopBlock("update"), LoopBlock("loopend")} : b # LoopBlock("check")
  BY <1>1, LoopPlaces DEF LoopBlock
<1>3. \A b \in made : b \notin DOMAIN blocks
  <2>1. LabelsOf(gcur) = {} /\ {"check", "loop", "update", "loopend"} \subseteq Labels
    BY <1>1 DEF LabelsOf, Forks, Iterates, Defines, Labels, Loops, Callables
  <2> QED BY <1>1, <2>1 DEF BlocksAreTheirs, LoopBlock
<1>4. /\ ip \in DOMAIN blocks /\ CurrentFunction \in Node /\ CurrentFunction = blocks[ip].fn
      /\ DOMAIN old = DOMAIN blocks
      /\ \A b \in DOMAIN blocks :
           /\ old[b] \in Block /\ old[b].fn = blocks[b].fn
           /\ old[b].to = blocks[b].to \cup (IF b = ip THEN {LoopBlock("check")} ELSE {})
           /\ old[b].done = (b = ip \/ blocks[b].done)
  <2>1. {LoopBlock("check")} \in SUBSET BlockNames
    BY <1>2
  <2> QED BY <1>2, <2>1, EndingFacts
<1>5. DOMAIN new = made /\ \A b \in made : new[b] = IF b # LoopBlock("check") THEN NewBlock(CurrentFunction) ELSE check
  OBVIOUS
<1>6. /\ DOMAIN blocks' = made \cup DOMAIN blocks
      /\ \A b \in made : blocks'[b] = IF b # LoopBlock("check") THEN NewBlock(CurrentFunction) ELSE check
      /\ \A b \in DOMAIN blocks : blocks'[b] = old[b]
  <2> HIDE DEF new, old, made, check
  <2> QED BY <1>1, <1>3, <1>4, <1>5 DEF Onto
<1>7. NewBlock(CurrentFunction) \in Block
  BY <1>4, NewBlockFacts
<1>8. check \in Block
  <2>1. {LoopBlock("loop"), LoopBlock("loopend")} \in SUBSET BlockNames
    BY <1>2
  <2> QED BY <1>4, <2>1 DEF Block
<1>9. Keeps(made)
  <2> HIDE DEF new, old, made, check
  <2> QED BY <1>3, <1>4, <1>6, <1>7, <1>8 DEF Keeps
<1>10. /\ \A b \in {LoopBlock("loop"), LoopBlock("update"), LoopBlock("loopend")} :
            blocks'[b] = NewBlock(CurrentFunction)
       /\ blocks'[LoopBlock("check")] = check
  <2> HIDE DEF new, old, made, check
  <2> QED BY <1>2, <1>6
<1> QED BY <1>2, <1>4, <1>6, <1>9, <1>10

LEMMA LoopClosesBlocks ==
  ASSUME prog \in Programs, WalkInv, BlocksAreTheirs, LoopsAreSteered, LoopCloses
  PROVE  /\ Keeps({}) /\ ip \in DOMAIN blocks /\ LoopBlock("update") \in DOMAIN blocks /\ ip # LoopBlock("update")
         /\ \A b \in DOMAIN blocks :
              /\ blocks'[b].to = IF b = ip THEN blocks[b].to \cup {LoopBlock("update")}
                                 ELSE IF b = LoopBlock("update") THEN {LoopBlock("check")} ELSE blocks[b].to
              /\ blocks'[b].done = (b \in {ip, LoopBlock("update")} \/ blocks[b].done)
<1> DEFINE old == Ending(ip, {LoopBlock("update")})
           update == LoopBlock("update")
<1>1. /\ gcur \in Node /\ Kind(gcur) \in Loops /\ step[gcur] = 2
      /\ blocks' = [old EXCEPT ![update].done = TRUE, ![update].to = {LoopBlock("check")}]
  BY DEF WalkInv, LoopCloses
<1>2. /\ ip # NoBlock /\ update \in BlockNames /\ LoopBlock("check") \in BlockNames
  BY <1>1, LoopPlaces
<1>3. /\ ip \in DOMAIN blocks /\ DOMAIN old = DOMAIN blocks
      /\ \A b \in DOMAIN blocks :
           /\ old[b] \in Block /\ old[b].fn = blocks[b].fn
           /\ old[b].to = blocks[b].to \cup (IF b = ip THEN {update} ELSE {})
           /\ old[b].done = (b = ip \/ blocks[b].done)
  <2>1. {update} \in SUBSET BlockNames
    BY <1>2
  <2> QED BY <1>2, <2>1, EndingFacts
<1>4. ip # update
  <2>1. update[2] = "update"
    BY DEF LoopBlock
  <2> QED BY <2>1 DEF LoopsAreSteered, Steering
<1>5. update \in DOMAIN blocks /\ blocks[update].to \subseteq {LoopBlock("check")}
  <2>1. Iterates(gcur) /\ ~Forks(gcur) /\ update = <<gcur, "update">>
    BY <1>1 DEF Iterates, Forks, Loops, LoopBlock
  <2>2. "update" \in LabelsOf(gcur) /\ "update" \in Labels
    BY <2>1 DEF LabelsOf, Labels
  <2> QED BY <1>1, <2>1, <2>2 DEF BlocksAreTheirs, LoopsAreSteered, LoopBlock
<1> HIDE DEF old, update
<1>6. blocks'[update] = [[old[update] EXCEPT !.done = TRUE] EXCEPT !.to = {LoopBlock("check")}]
  <2>1. old[update] \in Block
    BY <1>3, <1>5
  <2> QED BY <1>1, <1>3, <1>5, <2>1 DEF Block
<1>7. DOMAIN blocks' = DOMAIN blocks /\ \A b \in DOMAIN blocks : b # update => blocks'[b] = old[b]
  BY <1>1, <1>3
<1>8. blocks'[update] = [fn |-> blocks[update].fn, to |-> {LoopBlock("check")}, done |-> TRUE]
  <2>1. old[update] \in Block /\ old[update].fn = blocks[update].fn
    BY <1>3, <1>5
  <2> QED BY <1>6, <2>1 DEF Block
<1>9. blocks'[update] \in Block
  <2>1. blocks[update].fn \in Node
    BY <1>3, <1>5 DEF Block
  <2>2. {LoopBlock("check")} \in SUBSET BlockNames
    BY <1>2
  <2> QED BY <1>8, <2>1, <2>2 DEF Block
<1>10. ASSUME NEW b \in DOMAIN blocks
       PROVE  /\ blocks'[b] \in Block /\ blocks'[b].fn = blocks[b].fn
              /\ blocks'[b].to = IF b = ip THEN blocks[b].to \cup {update}
                                 ELSE IF b = update THEN {LoopBlock("check")} ELSE blocks[b].to
              /\ blocks'[b].done = (b \in {ip, update} \/ blocks[b].done)
  <2>1. CASE b = update
    <3>1. blocks'[b].fn = blocks[b].fn /\ blocks'[b].to = {LoopBlock("check")} /\ blocks'[b] \in Block
      BY <1>8, <1>9, <2>1
    <3>2. blocks'[b].done = TRUE
      BY <1>8, <2>1
    <3> QED BY <1>4, <2>1, <3>1, <3>2
  <2>2. CASE b # update
    <3>1. /\ blocks'[b] = old[b] /\ old[b] \in Block /\ old[b].fn = blocks[b].fn
          /\ old[b].to = blocks[b].to \cup (IF b = ip THEN {update} ELSE {})
          /\ old[b].done = (b = ip \/ blocks[b].done)
      BY <1>3, <1>7, <2>2
    <3> QED BY <2>2, <3>1
  <2> QED BY <2>1, <2>2
<1>11. Keeps({})
  BY <1>5, <1>7, <1>10, <1>4 DEF Keeps
<1> QED BY <1>3, <1>4, <1>5, <1>10, <1>11 DEF update

-----------------------------------------------------------------------------
(* What a turn keeps                                                       *)

LEMMA TurnsMove ==
  ASSUME prog \in Programs, WalkInv, Turns
  PROVE  (\E i : Descend(i)) \/ Ascend
BY DEF Turns, Passes, Returns, FunctionOpens, FunctionCloses, ThenBegins, ElseBegins, ElseFails, BranchesMerge,
       IterationBegins, LoopCloses

\* Only the handler of the node the walk is at takes a step; what comes onto the path has
\* taken none; and nothing leaves the path but the node the walk returns from.
LEMMA TurnFacts ==
  ASSUME prog \in Programs, WalkInv, Turns, prog' = prog
  PROVE  /\ WalkInv' /\ gcur \in Node /\ gcur' \in Node /\ Path(gcur') \subseteq Node /\ step' \in [Node -> Nat]
         /\ \A n \in Node \ {gcur} : step'[n] = step[n]
         /\ \A n \in Path(gcur') : n \in Path(gcur) \/ (step'[n] = 0 /\ step[n] = 0)
         /\ \A n \in Path(gcur) : n \in Path(gcur') \/ n = gcur \/ Kind(n) = "iterator_definition"
         /\ \A n \in Path(gcur') : n # gcur' => gcur' > n
         /\ (\E i : Descend(i)) => Path(gcur) \subseteq Path(gcur')
         /\ Ascend => Path(gcur') \subseteq Path(gcur) /\ gcur \notin Path(gcur') /\ step' = step
<1>1. gcur \in Node /\ step \in [Node -> Nat]
  BY DEF WalkInv
<1>2. CASE \E i : Descend(i)
  <2>1. PICK i : Descend(i)
    BY <1>2
  <2>2. WalkInv'
    BY <2>1, WalkDescends
  <2>3. /\ gcur' \in Node \ {1} /\ Handler(gcur') = gcur /\ step[gcur'] = 0 /\ gcur' # gcur
        /\ Kind(gcur') # "iterator_definition"
    BY <2>1, OperandIsNew
  <2>4. PICK c \in Node \ {1} : c = gcur'
    BY <2>3
  <2>5. /\ Path(gcur) \subseteq Path(c) /\ Path(c) \subseteq Node /\ \A n \in Path(c) : n <= c
    BY <2>3, <2>4, OperandPath
  <2>6. \A n \in Path(c) : n \in Path(gcur) \/ n = c \/ Kind(n) = "iterator_definition"
    BY <2>1, <2>4, PathBelow
  <2>7. \A n \in Node \ {gcur} : step'[n] = step[n]
    BY <1>1, <2>1 DEF Descend
  <2>8. \A n \in Node : Kind(n) = "iterator_definition" => step[n] = 0 /\ n # gcur
    BY <1>1, <2>1 DEF WalkInv, StepsAreTaken, Descend, Visiting, Plain, Operators, Statements,
                      Constructs, Callables, Loops
  <2>9. gcur \notin Path(c) \/ gcur \in Path(gcur)
    BY <1>1, PathFacts
  <2>10. ~Ascend
    <3> SUFFICES ASSUME Ascend PROVE FALSE
      OBVIOUS
    <3>1. gcur < c
      BY <2>3, <2>4, OperandPath
    <3>2. gcur \in Node \ {1} /\ c = Handler(gcur)
      BY <1>1, <2>4 DEF Ascend
    <3>3. c < gcur
      BY <3>2, OperandPath
    <3>4. Len(prog) \in Nat /\ Node = 1 .. Len(prog)
      BY ProgramFacts
    <3> QED BY <1>1, <3>1, <3>3, <3>4
  <2>11. \A n \in Path(c) : n # c => c > n
    <3>1. Len(prog) \in Nat /\ Node = 1 .. Len(prog)
      BY ProgramFacts
    <3> QED BY <2>5, <3>1
  <2>12. step' \in [Node -> Nat]
    <3>1. Node' = Node
      BY SameTree
    <3> QED BY <2>2, <3>1 DEF WalkInv
  <2> QED BY <1>1, <2>2, <2>3, <2>4, <2>5, <2>6, <2>7, <2>8, <2>9, <2>10, <2>11, <2>12
<1>3. CASE Ascend
  <2>1. /\ WalkInv' /\ gcur' \in Path(gcur) /\ Path(gcur') \subseteq Path(gcur) /\ gcur \notin Path(gcur')
    BY <1>3, WalkAscends
  <2>2. gcur \in Node \ {1} /\ gcur' = Handler(gcur) /\ step' = step
    BY <1>1, <1>3 DEF Ascend
  <2>3. PICK n \in Node : n = gcur' /\ n = Handler(gcur)
    BY <2>2, HandlerOf
  <2>4. \A m \in Path(n) : m <= n
    BY <2>2, <2>3, OperandPath
  <2>5. \A m \in Path(gcur) : m \in Path(n) \/ m = gcur \/ Kind(m) = "iterator_definition"
    BY <2>2, <2>3, HandlerOf
  <2>6. Path(gcur) \subseteq Node
    BY <1>1, PathFacts
  <2>7. \A m \in Path(n) : m # n => n > m
    <3>1. Len(prog) \in Nat /\ Node = 1 .. Len(prog)
      BY ProgramFacts
    <3> QED BY <2>1, <2>3, <2>4, <2>6, <3>1
  <2>8. ~(\E i : Descend(i))
    <3> SUFFICES ASSUME NEW i, Descend(i) PROVE FALSE
      OBVIOUS
    <3>1. gcur' \in Node \ {1} /\ Handler(gcur') = gcur
      BY OperandIsNew
    <3>2. n \in Node \ {1} /\ Handler(n) = gcur
      BY <2>3, <3>1
    <3>3. gcur < n /\ n < gcur
      BY <2>2, <2>3, <3>2, OperandPath
    <3>4. Len(prog) \in Nat /\ Node = 1 .. Len(prog)
      BY ProgramFacts
    <3> QED BY <1>1, <3>3, <3>4
  <2> QED BY <1>1, <2>1, <2>2, <2>3, <2>5, <2>6, <2>7, <2>8
<1> QED BY <1>2, <1>3, TurnsMove

\* The blocks a turn makes are those of the handler that takes it.
Creates == FunctionOpens \/ ThenBegins \/ IterationBegins
NewLabels ==
  IF Kind(gcur) \in Callables THEN {"entry"}
  ELSE IF Kind(gcur) = "if_expr" THEN {"then", "else", "cont"} ELSE {"check", "loop", "update", "loopend"}
MadeBlocks == {<<gcur, l>> : l \in NewLabels}

LEMMA LabelsAfter ==
  ASSUME prog \in Programs, WalkInv, Turns, prog' = prog, NEW n \in Node
  PROVE  /\ After(n)' = After(n)
         /\ n # gcur \/ ~Creates =>
              /\ LabelsOf(n)' = LabelsOf(n) /\ Open(n)' = Open(n) /\ Forks(n)' = Forks(n)
              /\ Iterates(n)' = Iterates(n) /\ Defines(n)' = Defines(n)
         /\ n = gcur /\ Creates => LabelsOf(n) = {} /\ LabelsOf(n)' = NewLabels /\ NewLabels \subseteq Labels
         /\ n = gcur /\ FunctionOpens => NewLabels = {"entry"} /\ ~Open(n)'
         /\ n = gcur /\ ThenBegins => NewLabels = {"then", "else", "cont"} /\ After(n) = IfBlock("cont")
         /\ n = gcur /\ IterationBegins =>
              NewLabels = {"check", "loop", "update", "loopend"} /\ After(n) = LoopBlock("loopend")
<1>1. step' \in [Node -> Nat] /\ step \in [Node -> Nat] /\ (n # gcur => step'[n] = step[n])
  BY TurnFacts DEF WalkInv
<1>2. Kind(n)' = Kind(n) /\ NewLabels \subseteq Labels
  BY SameTree DEF NewLabels, Labels
<1>3. After(n)' = After(n)
  BY <1>2 DEF After
<1>4. \A i : Descend(i) /\ n = gcur => step'[n] = i
  BY <1>1 DEF Descend
<1>5. CASE n = gcur /\ FunctionOpens
  <2>1. step[n] = 0 /\ step'[n] = 1 /\ Kind(n) \in Callables
    BY <1>4, <1>5 DEF FunctionOpens
  <2>2. LabelsOf(n) = {} /\ LabelsOf(n)' = {"entry"} /\ ~Open(n)'
    BY <1>2, <2>1 DEF LabelsOf, Forks, Iterates, Defines, Open, Callables, Loops
  <2>3. ~ThenBegins /\ ~IterationBegins /\ NewLabels = {"entry"}
    BY <1>5, <2>1 DEF ThenBegins, IterationBegins, Callables, Loops, NewLabels
  <2> QED BY <1>2, <1>3, <1>5, <2>2, <2>3 DEF Creates
<1>6. CASE n = gcur /\ ThenBegins
  <2>1. step[n] = 1 /\ step'[n] = 2 /\ Kind(n) = "if_expr"
    BY <1>4, <1>6 DEF ThenBegins
  <2>2. LabelsOf(n) = {} /\ LabelsOf(n)' = {"then", "else", "cont"} /\ After(n) = IfBlock("cont")
    BY <1>2, <1>6, <2>1 DEF LabelsOf, Forks, Iterates, Defines, Callables, Loops, After, IfBlock
  <2>3. ~FunctionOpens /\ ~IterationBegins /\ NewLabels = {"then", "else", "cont"}
    BY <1>6, <2>1 DEF FunctionOpens, IterationBegins, Callables, Loops, NewLabels
  <2> QED BY <1>2, <1>3, <1>6, <2>2, <2>3 DEF Creates
<1>7. CASE n = gcur /\ IterationBegins
  <2>1. step[n] = 1 /\ step'[n] = 2 /\ Kind(n) \in Loops
    BY <1>4, <1>7 DEF IterationBegins
  <2>2. /\ LabelsOf(n) = {} /\ LabelsOf(n)' = {"check", "loop", "update", "loopend"}
        /\ After(n) = LoopBlock("loopend")
    BY <1>2, <1>7, <2>1 DEF LabelsOf, Forks, Iterates, Defines, Callables, Loops, After, LoopBlock
  <2>3. ~FunctionOpens /\ ~ThenBegins /\ NewLabels = {"check", "loop", "update", "loopend"}
    BY <1>7, <2>1 DEF FunctionOpens, ThenBegins, Callables, Loops, NewLabels
  <2> QED BY <1>2, <1>3, <1>7, <2>2, <2>3 DEF Creates
<1>8. CASE n # gcur \/ ~Creates
  <2>1. CASE step'[n] = step[n]
    BY <1>3, <1>8, <2>1, SameLabels DEF Creates
  <2>2. CASE n = gcur /\ \E i : Passes(i)
    <3>1. PICK i : Passes(i)
      BY <2>2
    <3>2. /\ step'[n] = i /\ step[n] < i /\ Kind(n) \notin Callables
          /\ Kind(n) \in Constructs => i = 1 /\ step[n] = 0
      BY <1>1, <1>4, <2>2, <3>1 DEF Passes, Descend
    <3>3. /\ LabelsOf(n)' = LabelsOf(n) /\ Open(n)' = Open(n) /\ Forks(n)' = Forks(n)
          /\ Iterates(n)' = Iterates(n) /\ Defines(n)' = Defines(n)
      BY <1>1, <1>2, <3>2 DEF LabelsOf, Forks, Iterates, Defines, Open, Constructs
    <3> QED BY <1>3, <1>8, <2>2, <3>3 DEF Creates
  <2>3. CASE n = gcur /\ ElseBegins
    <3>1. step[n] = 2 /\ step'[n] = 3 /\ Kind(n) = "if_expr" /\ Kind(n) \notin Loops \cup Callables
      BY <1>4, <2>3 DEF ElseBegins, Loops, Callables
    <3>2. /\ LabelsOf(n)' = LabelsOf(n) /\ Open(n)' = Open(n) /\ Forks(n)' = Forks(n)
          /\ Iterates(n)' = Iterates(n) /\ Defines(n)' = Defines(n)
      BY <1>2, <3>1 DEF LabelsOf, Forks, Iterates, Defines, Open
    <3> QED BY <1>3, <1>8, <2>3, <3>2 DEF Creates
  <2>4. CASE Ascend
    BY <2>1, <2>4 DEF Ascend
  <2> QED BY <1>1, <1>8, <2>1, <2>2, <2>3, <2>4
         DEF Turns, Creates, Returns, FunctionCloses, ElseFails, BranchesMerge, LoopCloses
<1> QED BY <1>5, <1>6, <1>7, <1>8 DEF Creates

\* Where the insertion point is after a turn.
LEMMA PlaceAfter ==
  ASSUME prog \in Programs, WalkInv, BlocksAreTheirs, KeptAreTheirs, LoopsAreSteered, Turns, prog' = prog
  PROVE  /\ Creates => Keeps(MadeBlocks)
         /\ ~Creates => Keeps({})
         /\ ip' \in DOMAIN blocks' \cup {NoBlock} /\ ip'[2] \notin Steering
         /\ step'[gcur] # 0 /\ Kind(gcur) \in Constructs => ip' # NoBlock
         /\ ip # NoBlock => ip' # NoBlock
<1>1. /\ gcur \in Node /\ ip \in DOMAIN blocks \cup {NoBlock} /\ ip[2] \notin Steering /\ NoBlock[2] = "none"
      /\ \A n \in Node, l \in Labels : <<n, l>> \in DOMAIN blocks <=> l \in LabelsOf(n)
  BY DEF WalkInv, BlocksAreTheirs, LoopsAreSteered, NoBlock
<1>2. \A n \in Node, l \in Labels : <<n, l>> # NoBlock
  BY DEF NoBlock, Labels
<1>3. CASE FunctionOpens
  <2>1. Keeps({Entry(gcur)}) /\ ip' = Entry(gcur) /\ NewLabels = {"entry"} /\ Creates
    <3>1. NewLabels = {"entry"}
      BY <1>1, <1>3, LabelsAfter
    <3> QED BY <1>3, <3>1, FunctionOpensBlocks DEF FunctionOpens, Creates
  <2>2. MadeBlocks = {Entry(gcur)}
    BY <2>1 DEF MadeBlocks, Entry
  <2>3. Entry(gcur) # NoBlock /\ Entry(gcur)[2] \notin Steering
    BY <1>1, <1>2 DEF Entry, Labels, Steering
  <2> QED BY <2>1, <2>2, <2>3 DEF Keeps
<1>4. CASE ThenBegins
  <2>1. /\ Keeps({IfBlock("then"), IfBlock("else"), IfBlock("cont")}) /\ ip' = IfBlock("then") /\ Creates
        /\ NewLabels = {"then", "else", "cont"}
    <3>1. NewLabels = {"then", "else", "cont"}
      BY <1>1, <1>4, LabelsAfter
    <3> QED BY <1>4, <3>1, ThenBeginsBlocks DEF ThenBegins, Creates
  <2>2. MadeBlocks = {IfBlock("then"), IfBlock("else"), IfBlock("cont")}
    BY <2>1 DEF MadeBlocks, IfBlock
  <2>3. IfBlock("then") # NoBlock /\ IfBlock("then")[2] \notin Steering
    BY <1>1, <1>2 DEF IfBlock, Labels, Steering
  <2> QED BY <2>1, <2>2, <2>3 DEF Keeps
<1>5. CASE IterationBegins
  <2>1. /\ Keeps({LoopBlock("check"), LoopBlock("loop"), LoopBlock("update"), LoopBlock("loopend")})
        /\ ip' = LoopBlock("loop") /\ Creates /\ NewLabels = {"check", "loop", "update", "loopend"}
    <3>1. NewLabels = {"check", "loop", "update", "loopend"}
      BY <1>1, <1>5, LabelsAfter
    <3> QED BY <1>5, <3>1, IterationBeginsBlocks DEF IterationBegins, Creates
  <2>2. MadeBlocks = {LoopBlock("check"), LoopBlock("loop"), LoopBlock("update"), LoopBlock("loopend")}
    BY <2>1 DEF MadeBlocks, LoopBlock
  <2>3. LoopBlock("loop") # NoBlock /\ LoopBlock("loop")[2] \notin Steering
    BY <1>1, <1>2 DEF LoopBlock, Labels, Steering
  <2> QED BY <2>1, <2>2, <2>3 DEF Keeps
<1>6. CASE ~Creates
  <2>1. CASE (\E i : Passes(i)) \/ Returns
    <3>1. ip' = ip /\ blocks' = blocks
      BY <2>1 DEF Passes, Returns, Quietly
    <3>2. Keeps({})
      BY <3>1 DEF Keeps, BlocksAreTheirs
    <3>3. step'[gcur] # 0 /\ Kind(gcur) \in Constructs => ip # NoBlock
      <4>1. CASE \E i : Passes(i)
        BY <4>1 DEF Passes
      <4>2. CASE Returns
        BY <1>1, <4>2 DEF Returns, Ascend, BlocksAreTheirs
      <4> QED BY <2>1, <4>1, <4>2
    <3> QED BY <1>1, <1>6, <3>1, <3>2, <3>3
  <2>2. CASE FunctionCloses
    <3>1. /\ Keeps({}) /\ ip \in DOMAIN blocks
          /\ ip' = IF Kind(gcur) = "lambda" THEN keptBlock[gcur] ELSE ip
          /\ Kind(gcur) = "lambda" => keptBlock[gcur] # NoBlock
      BY <2>2, FunctionClosesBlocks DEF FunctionCloses
    <3>2. keptBlock[gcur] \in DOMAIN blocks \cup {NoBlock} /\ keptBlock[gcur][2] \notin Steering
      BY <1>1 DEF KeptAreTheirs, LoopsAreSteered
    <3>3. DOMAIN blocks' = DOMAIN blocks /\ NoBlock \notin DOMAIN blocks
      BY <1>2, <3>1 DEF Keeps, BlocksAreTheirs, BlockNames
    <3> QED BY <1>1, <1>6, <3>1, <3>2, <3>3
  <2>3. CASE ElseBegins \/ ElseFails \/ BranchesMerge
    <3>1. Keeps({}) /\ ip' \in {IfBlock("else"), IfBlock("cont")} /\ step[gcur] \in {2, 3} /\ Kind(gcur) = "if_expr"
      BY <2>3, BranchEndsBlocks DEF ElseBegins, ElseFails, BranchesMerge
    <3>2. LabelsOf(gcur) = {"then", "else", "cont"}
      BY <3>1 DEF LabelsOf, Forks
    <3>3. {IfBlock("else"), IfBlock("cont")} \subseteq DOMAIN blocks
      BY <1>1, <3>2 DEF IfBlock, Labels
    <3>4. ip'[2] \notin Steering /\ ip' # NoBlock
      BY <1>1, <1>2, <3>1 DEF IfBlock, Labels, Steering
    <3> QED BY <1>6, <3>1, <3>3, <3>4 DEF Keeps
  <2>4. CASE LoopCloses
    <3>1. Keeps({}) /\ ip' = LoopBlock("loopend") /\ step[gcur] = 2 /\ Kind(gcur) \in Loops
      BY <2>4, LoopClosesBlocks DEF LoopCloses
    <3>2. LabelsOf(gcur) = {"check", "loop", "update", "loopend"}
      BY <3>1 DEF LabelsOf, Forks, Iterates, Loops
    <3>3. LoopBlock("loopend") \in DOMAIN blocks
      BY <1>1, <3>2 DEF LoopBlock, Labels
    <3>4. ip'[2] \notin Steering /\ ip' # NoBlock
      BY <1>1, <1>2, <3>1 DEF LoopBlock, Labels, Steering
    <3> QED BY <1>6, <3>1, <3>3, <3>4 DEF Keeps
  <2> QED BY <1>6, <2>1, <2>2, <2>3, <2>4 DEF Turns, Creates
<1> QED BY <1>3, <1>4, <1>5, <1>6 DEF Creates

\* A block that is there stays, in its function.
LEMMA FunctionStays ==
  ASSUME NEW new, Keeps(new), NEW b \in DOMAIN blocks \cup {NoBlock}, NoBlock \notin DOMAIN blocks'
  PROVE  b \in DOMAIN blocks' \cup {NoBlock} /\ FunctionAt(b)' = FunctionAt(b)
<1>1. CASE b = NoBlock
  BY <1>1 DEF FunctionAt
<1>2. CASE b # NoBlock
  BY <1>2 DEF FunctionAt, Keeps
<1> QED BY <1>1, <1>2

LEMMA TheirsAfter ==
  ASSUME prog \in Programs, WalkInv, BlocksAreTheirs, KeptAreTheirs, LoopsAreSteered, Turns, prog' = prog
  PROVE  BlocksAreTheirs'
<1>1. gcur \in Node /\ Node' = Node /\ BlockNames' = BlockNames /\ Block' = Block /\ step \in [Node -> Nat]
      /\ \A n : Kind(n)' = Kind(n)
  BY SameTree, SameOperands DEF WalkInv
<1>2. PICK new : /\ Keeps(new) /\ new \subseteq BlockNames
                 /\ new = IF Creates THEN MadeBlocks ELSE {}
  <2>1. CASE Creates
    <3>1. MadeBlocks \subseteq BlockNames
      BY <1>1, <2>1, LabelsAfter DEF MadeBlocks, BlockNames
    <3> QED BY <2>1, <3>1, PlaceAfter
  <2>2. CASE ~Creates
    BY <2>2, PlaceAfter
  <2> QED BY <2>1, <2>2
<1>3. DOMAIN blocks' \subseteq BlockNames /\ \A b \in DOMAIN blocks' : blocks'[b] \in Block
  BY <1>2 DEF Keeps, BlocksAreTheirs
<1>4. ASSUME NEW n \in Node, NEW l \in Labels
      PROVE  <<n, l>> \in DOMAIN blocks' <=> l \in LabelsOf(n)'
  <2>1. <<n, l>> \in DOMAIN blocks <=> l \in LabelsOf(n)
    BY DEF BlocksAreTheirs
  <2>2. <<n, l>> \in DOMAIN blocks' <=> l \in LabelsOf(n) \/ <<n, l>> \in new
    BY <1>2, <2>1 DEF Keeps
  <2>3. CASE n # gcur
    BY <1>2, <2>2, <2>3, LabelsAfter DEF MadeBlocks
  <2>4. CASE n = gcur /\ Creates
    BY <1>2, <2>2, <2>4, LabelsAfter DEF MadeBlocks
  <2>5. CASE n = gcur /\ ~Creates
    BY <1>2, <2>2, <2>5, LabelsAfter
  <2> QED BY <2>3, <2>4, <2>5
<1>5. ASSUME NEW n \in Node, Open(n)', NEW l \in LabelsOf(n)'
      PROVE  blocks'[<<n, l>>].fn = blocks'[After(n)].fn
  <2>1. CASE Open(n) /\ l \in LabelsOf(n)
    <3>1. blocks[<<n, l>>].fn = blocks[After(n)].fn
      BY <2>1 DEF BlocksAreTheirs, FunctionAfter
    <3>2. <<n, l>> \in DOMAIN blocks /\ After(n) \in DOMAIN blocks
      <4>1. l \in Labels /\ After(n)[2] \in LabelsOf(n) /\ After(n)[2] \in Labels /\ After(n) = <<n, After(n)[2]>>
        BY <2>1 DEF LabelsOf, Labels, After, Open, Forks, Iterates, Loops
      <4> QED BY <2>1, <4>1 DEF BlocksAreTheirs
    <3> QED BY <1>2, <3>1, <3>2 DEF Keeps
  <2>2. CASE ~(Open(n) /\ l \in LabelsOf(n))
    <3>1. n = gcur /\ Creates
      BY <1>5, <2>2, LabelsAfter
    <3>2. CASE ThenBegins
      <4>1. /\ l \in {"then", "else", "cont"} /\ After(n) = IfBlock("cont")
        BY <1>5, <3>1, <3>2, LabelsAfter
      <4>2. <<n, l>> \in {IfBlock("then"), IfBlock("else"), IfBlock("cont")}
        BY <3>1, <4>1 DEF IfBlock
      <4> QED BY <3>2, <4>1, <4>2, ThenBeginsBlocks
    <3>3. CASE IterationBegins
      <4>1. /\ l \in {"check", "loop", "update", "loopend"} /\ After(n) = LoopBlock("loopend")
        BY <1>5, <3>1, <3>3, LabelsAfter
      <4>2. \A k \in {"loop", "update", "loopend"} : blocks'[LoopBlock(k)].fn = CurrentFunction
        <5>1. \A b \in {LoopBlock("loop"), LoopBlock("update"), LoopBlock("loopend")} :
                blocks'[b] = NewBlock(CurrentFunction)
          BY <3>3, IterationBeginsBlocks
        <5> QED BY <5>1 DEF NewBlock
      <4>3. blocks'[LoopBlock("check")].fn = CurrentFunction
        BY <3>3, IterationBeginsBlocks
      <4>4. <<n, l>> = LoopBlock(l)
        BY <3>1 DEF LoopBlock
      <4> QED BY <4>1, <4>2, <4>3, <4>4
    <3>4. CASE FunctionOpens
      BY <1>5, <3>1, <3>4, LabelsAfter
    <3> QED BY <3>1, <3>2, <3>3, <3>4 DEF Creates
  <2> QED BY <2>1, <2>2
<1>6. ip' \in DOMAIN blocks' \cup {NoBlock}
  BY PlaceAfter
<1>7. ASSUME NEW n \in Node, step'[n] # 0, Kind(n) \in Constructs
      PROVE  ip' # NoBlock
  <2>1. CASE n = gcur
    BY <1>7, <2>1, PlaceAfter
  <2>2. CASE n # gcur
    BY <1>7, <2>2, PlaceAfter, TurnFacts DEF BlocksAreTheirs
  <2> QED BY <2>1, <2>2
<1>8. \A n \in Node : FunctionAfter(n)' = blocks'[After(n)].fn
  <2>1. \A n \in Node : After(n)' = After(n)
    BY LabelsAfter
  <2> QED BY <2>1 DEF FunctionAfter
<1> QED BY <1>1, <1>3, <1>4, <1>5, <1>6, <1>7, <1>8 DEF BlocksAreTheirs, NoBlock

LEMMA OpenFacts ==
  ASSUME BlocksAreTheirs, NEW n \in Node, Open(n)
  PROVE  /\ After(n) \in DOMAIN blocks /\ Kind(n) \in Constructs /\ step[n] # 0 /\ ip # NoBlock
         /\ \A l \in LabelsOf(n) : <<n, l>> \in DOMAIN blocks /\ blocks[<<n, l>>].fn = FunctionAfter(n)
<1>1. Kind(n) \in Constructs /\ step[n] # 0
  <2>1. CASE Forks(n)
    <3>1. Kind(n) = "if_expr" /\ step[n] >= 2
      BY <2>1 DEF Forks
    <3>2. step[n] # 0
      BY <3>1
    <3> QED BY <3>1, <3>2 DEF Constructs
  <2>2. CASE Iterates(n)
    BY <2>2 DEF Iterates, Constructs
  <2> QED BY <2>1, <2>2 DEF Open
<1>2. LabelsOf(n) \subseteq Labels
  BY DEF LabelsOf, Labels
<1>3. After(n) = <<n, After(n)[2]>> /\ After(n)[2] \in LabelsOf(n)
  BY DEF After, LabelsOf, Open, Forks, Iterates, Loops
<1> QED BY <1>1, <1>2, <1>3 DEF BlocksAreTheirs

LEMMA KeptAfter ==
  ASSUME prog \in Programs, WalkInv, BlocksAreTheirs, KeptAreTheirs, LoopsAreSteered, Turns, prog' = prog
  PROVE  KeptAreTheirs'
<1>1. /\ gcur \in Node /\ Node' = Node /\ step \in [Node -> Nat] /\ \A n : Kind(n)' = Kind(n)
      /\ NoBlock' = NoBlock /\ DOMAIN blocks \subseteq DOMAIN blocks' /\ ip \in DOMAIN blocks \cup {NoBlock}
      /\ \A n \in Node \ {gcur} : step'[n] = step[n]
  BY SameTree, PlaceAfter, TurnFacts DEF WalkInv, NoBlock, Keeps, BlocksAreTheirs
<1>2. /\ keptBlock \in [Node -> DOMAIN blocks \cup {NoBlock}]
      /\ \A n \in Node : keptBlock[n] # NoBlock =>
           (Kind(n) = "lambda" /\ step[n] = 1) \/ (Kind(n) = "if_expr" /\ step[n] = 3)
      /\ \A n \in Node : Kind(n) = "if_expr" /\ step[n] = 3 => keptBlock[n] # NoBlock
  BY DEF KeptAreTheirs
<1>3. \A i : Descend(i) => step'[gcur] = i /\ step[gcur] < i
  BY <1>1 DEF Descend
<1>4. ASSUME keptBlock' = keptBlock,
             step'[gcur] = step[gcur] \/ (keptBlock[gcur] = NoBlock /\ (Kind(gcur) = "if_expr" => step'[gcur] # 3))
      PROVE  KeptAreTheirs'
  <2>1. \A n \in Node : keptBlock[n] # NoBlock =>
           (Kind(n) = "lambda" /\ step'[n] = 1) \/ (Kind(n) = "if_expr" /\ step'[n] = 3)
    BY <1>1, <1>2, <1>4
  <2>2. \A n \in Node : Kind(n) = "if_expr" /\ step'[n] = 3 => keptBlock[n] # NoBlock
    BY <1>1, <1>2, <1>4
  <2>3. keptBlock \in [Node -> DOMAIN blocks' \cup {NoBlock}]
    BY <1>1, <1>2
  <2> QED BY <1>1, <1>4, <2>1, <2>2, <2>3 DEF KeptAreTheirs
<1>5. CASE \E i : Passes(i)
  <2>1. PICK i : Passes(i)
    BY <1>5
  <2>2. keptBlock' = keptBlock /\ step'[gcur] = i /\ step[gcur] < i /\ Kind(gcur) \notin Callables
        /\ (Kind(gcur) = "if_expr" => i = 1)
    BY <1>3, <2>1 DEF Passes, Quietly, Constructs
  <2>3. keptBlock[gcur] = NoBlock
    BY <1>1, <1>2, <2>2 DEF Callables
  <2> QED BY <1>4, <2>2, <2>3
<1>6. CASE Returns \/ FunctionCloses \/ ElseFails \/ BranchesMerge \/ LoopCloses
  BY <1>4, <1>6 DEF Returns, FunctionCloses, ElseFails, BranchesMerge, LoopCloses, Ascend, Quietly
<1>7. CASE ThenBegins \/ IterationBegins
  <2>1. keptBlock' = keptBlock /\ step'[gcur] = 2 /\ step[gcur] = 1 /\ Kind(gcur) \notin Callables
    BY <1>3, <1>7 DEF ThenBegins, IterationBegins, Callables, Loops
  <2>2. keptBlock[gcur] = NoBlock
    BY <1>1, <1>2, <2>1 DEF Callables
  <2> QED BY <1>4, <2>1, <2>2
<1>8. CASE FunctionOpens
  <2>1. /\ keptBlock' = [keptBlock EXCEPT ![gcur] = IF Kind(gcur) = "lambda" THEN ip ELSE @]
        /\ step'[gcur] = 1 /\ step[gcur] = 0 /\ Kind(gcur) \in Callables
    BY <1>3, <1>8 DEF FunctionOpens
  <2>2. keptBlock[gcur] = NoBlock
    BY <1>1, <1>2, <2>1 DEF Callables
  <2>3. /\ keptBlock' \in [Node -> DOMAIN blocks' \cup {NoBlock}]
        /\ \A n \in Node : keptBlock'[n] = IF n = gcur /\ Kind(n) = "lambda" THEN ip ELSE keptBlock[n]
    BY <1>1, <1>2, <2>1
  <2>4. Kind(gcur) # "if_expr"
    BY <2>1 DEF Callables
  <2> QED BY <1>1, <1>2, <2>1, <2>2, <2>3, <2>4 DEF KeptAreTheirs
<1>9. CASE ElseBegins
  <2>1. /\ keptBlock' = [keptBlock EXCEPT ![gcur] = ip] /\ step'[gcur] = 3 /\ Kind(gcur) = "if_expr" /\ step[gcur] = 2
    BY <1>3, <1>9 DEF ElseBegins
  <2>2. ip # NoBlock
    BY <1>1, <2>1 DEF BlocksAreTheirs, Constructs
  <2>3. /\ keptBlock' \in [Node -> DOMAIN blocks' \cup {NoBlock}]
        /\ \A n \in Node : keptBlock'[n] = IF n = gcur THEN ip ELSE keptBlock[n]
    BY <1>1, <1>2, <2>1
  <2> QED BY <1>1, <1>2, <2>1, <2>2, <2>3 DEF KeptAreTheirs
<1> QED BY <1>5, <1>6, <1>7, <1>8, <1>9 DEF Turns

\* The branches a turn adds.
LEMMA TargetsAfter ==
  ASSUME prog \in Programs, WalkInv, BlocksAreTheirs, LoopsAreSteered, Turns, prog' = prog,
         NEW b \in DOMAIN blocks', NEW t \in blocks'[b].to
  PROVE  \/ b \in DOMAIN blocks /\ t \in blocks[b].to
         \/ b = ip /\ ip \in DOMAIN blocks /\ t = IfBlock("cont") /\ (ElseBegins \/ ElseFails \/ BranchesMerge)
         \/ b = ip /\ ip \in DOMAIN blocks /\ t \in {IfBlock("then"), IfBlock("else")} /\ ThenBegins
         \/ b = ip /\ ip \in DOMAIN blocks /\ t = LoopBlock("check") /\ IterationBegins
         \/ b = LoopBlock("check") /\ t \in {LoopBlock("loop"), LoopBlock("loopend")} /\ IterationBegins
         \/ b = ip /\ ip \in DOMAIN blocks /\ t = LoopBlock("update") /\ LoopCloses
         \/ b = LoopBlock("update") /\ t = LoopBlock("check") /\ LoopCloses
<1>1. CASE (\E i : Passes(i)) \/ Returns
  BY <1>1 DEF Passes, Returns, Quietly
<1>2. CASE FunctionOpens
  <2>1. blocks'[Entry(gcur)].to = {}
    BY <1>2, FunctionOpensBlocks DEF NewBlock
  <2> QED BY <1>2, <2>1, FunctionOpensBlocks DEF Keeps
<1>3. CASE FunctionCloses
  BY <1>3, FunctionClosesBlocks DEF Keeps
<1>4. CASE ThenBegins
  <2>1. \A a \in {IfBlock("then"), IfBlock("else"), IfBlock("cont")} : blocks'[a].to = {}
    BY <1>4, ThenBeginsBlocks DEF NewBlock
  <2> QED BY <1>4, <2>1, ThenBeginsBlocks DEF Keeps
<1>5. CASE ElseBegins \/ ElseFails \/ BranchesMerge
  BY <1>5, BranchEndsBlocks DEF Keeps
<1>6. CASE IterationBegins
  <2>1. \A a \in {LoopBlock("loop"), LoopBlock("update"), LoopBlock("loopend")} : blocks'[a].to = {}
    BY <1>6, IterationBeginsBlocks DEF NewBlock
  <2>2. blocks'[LoopBlock("check")].to = {LoopBlock("loop"), LoopBlock("loopend")}
    BY <1>6, IterationBeginsBlocks
  <2> QED BY <1>6, <2>1, <2>2, IterationBeginsBlocks DEF Keeps
<1>7. CASE LoopCloses
  <2>1. b \in DOMAIN blocks /\ ip \in DOMAIN blocks
    BY <1>7, LoopClosesBlocks DEF Keeps
  <2>2. blocks'[b].to = IF b = ip THEN blocks[b].to \cup {LoopBlock("update")}
                        ELSE IF b = LoopBlock("update") THEN {LoopBlock("check")} ELSE blocks[b].to
    BY <1>7, <2>1, LoopClosesBlocks
  <2> QED BY <1>7, <2>1, <2>2
<1> QED BY <1>1, <1>2, <1>3, <1>4, <1>5, <1>6, <1>7 DEF Turns

LEMMA SteeredAfter ==
  ASSUME prog \in Programs, WalkInv, BlocksAreTheirs, KeptAreTheirs, LoopsAreSteered, Turns, prog' = prog
  PROVE  LoopsAreSteered'
<1>1. /\ gcur \in Node /\ Node' = Node /\ ip[2] \notin Steering /\ ip'[2] \notin Steering
      /\ keptBlock \in [Node -> DOMAIN blocks \cup {NoBlock}]
      /\ \A n \in Node : keptBlock[n][2] \notin Steering
  BY SameTree, PlaceAfter DEF WalkInv, LoopsAreSteered, KeptAreTheirs
<1>2. \A n \in Node : keptBlock'[n] \in {keptBlock[n], ip}
  BY <1>1 DEF Turns, Passes, Returns, Quietly, FunctionOpens, FunctionCloses, ThenBegins, ElseBegins,
              ElseFails, BranchesMerge, IterationBegins, LoopCloses
<1>3. ASSUME NEW n \in Node, Iterates(n)'
      PROVE  blocks'[<<n, "update">>].to \subseteq {<<n, "check">>}
  <2> SUFFICES ASSUME NEW t \in blocks'[<<n, "update">>].to PROVE t = <<n, "check">>
    OBVIOUS
  <2>1. <<n, "update">> \in DOMAIN blocks' /\ <<n, "update">> # ip
    <3>1. "update" \in LabelsOf(n)' /\ "update" \in Labels
      BY <1>3 DEF LabelsOf, Iterates, Forks, Loops, Labels
    <3>2. BlocksAreTheirs'
      BY TheirsAfter
    <3>3. <<n, "update">>[2] \in Steering
      BY DEF Steering
    <3> QED BY <1>1, <3>1, <3>2, <3>3 DEF BlocksAreTheirs
  <2>2. CASE <<n, "update">> \in DOMAIN blocks /\ t \in blocks[<<n, "update">>].to
    <3>1. "update" \in LabelsOf(n)
      BY <2>2 DEF BlocksAreTheirs, Labels
    <3>2. Iterates(n)
      BY <3>1 DEF LabelsOf
    <3> QED BY <2>2, <3>2 DEF LoopsAreSteered
  <2>3. CASE ~(<<n, "update">> \in DOMAIN blocks /\ t \in blocks[<<n, "update">>].to)
    <3>1. \/ <<n, "update">> = LoopBlock("check")
          \/ <<n, "update">> = LoopBlock("update") /\ t = LoopBlock("check")
      BY <2>1, <2>3, TargetsAfter
    <3> QED BY <3>1 DEF LoopBlock
  <2> QED BY <2>2, <2>3
<1> QED BY <1>1, <1>2, <1>3 DEF LoopsAreSteered, Steering

-----------------------------------------------------------------------------
(* Functions give the insertion point back                                 *)

LEMMA BarrierStays ==
  ASSUME prog \in Programs, WalkInv, Turns, prog' = prog, NEW k \in Node
  PROVE  /\ Barrier(k) => Barrier(k)'
         /\ k # gcur \/ ~Creates => Barrier(k)' = Barrier(k)
         /\ k = gcur /\ Creates => ~Barrier(k)
         /\ k = gcur /\ FunctionOpens => Barrier(k)'
         /\ k = gcur /\ ThenBegins => ~Barrier(k)'
<1>1. NestedFunctions' = NestedFunctions /\ Kind(k)' = Kind(k)
  BY SameTree, SameOperands
<1>2. CASE k # gcur \/ ~Creates
  BY <1>1, <1>2, LabelsAfter DEF Barrier, Creates
<1>3. CASE k = gcur /\ Creates
  <2>1. LabelsOf(k) = {}
    BY <1>3, LabelsAfter
  <2>2. ~Barrier(k)
    BY <2>1 DEF LabelsOf, Barrier, Forks, Iterates, Defines, Callables, Loops
  <2>3. LabelsOf(k)' = NewLabels
    BY <1>3, LabelsAfter
  <2>4. CASE FunctionOpens
    <3>1. Defines(k)'
      BY <1>1, <1>3, <2>3, <2>4, LabelsAfter DEF LabelsOf
    <3>2. ~ThenBegins
      BY <2>4 DEF ThenBegins, FunctionOpens, Callables
    <3> QED BY <1>3, <2>2, <2>4, <3>1, <3>2 DEF Barrier
  <2>5. CASE ThenBegins
    <3>1. Kind(k) = "if_expr" /\ ~FunctionOpens
      BY <1>3, <2>5 DEF ThenBegins, FunctionOpens, Callables
    <3>2. ~Barrier(k)'
      BY <1>1, <3>1 DEF Barrier, Defines, Iterates, Callables, Loops
    <3> QED BY <1>3, <2>2, <2>5, <3>1, <3>2
  <2>6. CASE ~FunctionOpens /\ ~ThenBegins
    BY <1>3, <2>2, <2>6
  <2> QED BY <2>4, <2>5, <2>6
<1> QED BY <1>2, <1>3

\* A function in a function is behind a barrier: what it stands in is a function, or a
\* loop in a program with functions in functions.
LEMMA FunctionsAreFenced ==
  ASSUME prog \in Programs, WalkInv, gcur # 1, Kind(gcur) = "function_definition",
         NEW m \in Path(Handler(gcur)), Open(m)
  PROVE  \E k \in Path(Handler(gcur)) : m <= k /\ Barrier(k)
<1>1. gcur \in Node \ {1}
  BY DEF WalkInv
<1>2. PICK c \in Node \ {1} : c = gcur
  BY <1>1
<1>3. Placement(prog, c) /\ Kind(c) = "function_definition"
  BY <1>2, ProgramsAssumption DEF WellFormed, Node
<1>4. PICK n \in Node : n = Parent(c) /\ Kind(n) \in {"root", "function_body"}
  BY <1>2, <1>3, ProgramFacts DEF Placement, FunctionKinds, Kind, Parent
<1>5. Handler(c) = n /\ n \in Path(c) /\ Path(n) \subseteq Path(c) /\ n # c
  <2>1. Handler(c) = n
    BY <1>4 DEF Handler
  <2> QED BY <2>1, HandlerOf, OperandPath
<1>6. m \in Path(n) /\ m \in Node
  BY <1>2, <1>4, <1>5, PathFacts
<1>7. Kind(m) \in Loops \cup {"if_expr"}
  BY DEF Open, Forks, Iterates
<1>8. n # 1
  <2>1. Path(1) = {1} /\ Kind(1) = "root"
    BY ProgramFacts DEF Path
  <2> QED BY <1>6, <1>7, <2>1 DEF Loops
<1>9. Kind(n) = "function_body" /\ n \in Node \ {1}
  BY <1>4, <1>8, ProgramFacts
<1>10. PICK a \in Node : a = Parent(n) /\ Kind(a) \in Callables \cup BodyLoops
  <2>1. Placement(prog, n)
    BY <1>9, ProgramsAssumption DEF WellFormed, Node
  <2> QED BY <1>9, <2>1, ProgramFacts DEF Placement, Kind, Parent
<1>11. Handler(n) = a /\ Kind(a) # "iterator_definition"
  BY <1>10 DEF Handler, Callables, BodyLoops
<1>12. a \in Path(n) /\ a \in Path(c) /\ a # c
  <2>1. a \in Path(n) /\ a < n /\ n < c
    BY <1>2, <1>5, <1>9, <1>11, HandlerOf, OperandPath
  <2>2. Len(prog) \in Nat /\ Node = 1 .. Len(prog)
    BY ProgramFacts
  <2> QED BY <1>5, <2>1, <2>2
<1>13. /\ Kind(a) \in Visiting /\ step[a] # 0 /\ step[a] \in Steps(a) /\ Operand(a, step[a]) \in Path(c)
  BY <1>2, <1>11, <1>12, InProgress
<1>14. m <= a
  <2>1. m # n
    BY <1>7, <1>9 DEF Loops
  <2>2. m \in Path(a)
    BY <1>6, <1>9, <1>10, <2>1, ParentOnPath
  <2>3. \A x \in Path(a) : x <= a
    <3>1. Len(prog) \in Nat /\ Node = 1 .. Len(prog)
      BY ProgramFacts
    <3> QED BY <3>1 DEF Path
  <2> QED BY <2>2, <2>3
<1>15. Barrier(a)
  <2>1. CASE Kind(a) \in Callables
    <3>1. step[a] = 1
      BY <1>13, <2>1 DEF Steps
    <3> QED BY <2>1, <3>1 DEF Barrier, Defines
  <2>2. CASE Kind(a) \in Loops
    <3>1. PICK it \in Node \ {1} : it = IteratorOf(a) /\ Parent(it) = a /\ Kind(it) = "iterator_definition"
      BY <2>2, LoopShape
    <3>2. step[a] = 2
      <4> SUFFICES ASSUME step[a] # 2 PROVE FALSE
        OBVIOUS
      <4>1. step[a] = 1
        <5>1. Len(Children(a)) = 2 /\ Kind(a) \notin Callables
          BY <2>2, LoopShape DEF Loops, Callables
        <5> QED BY <1>13, <5>1 DEF Steps
      <4>2. PICK l \in Node \ {1} : l = Child(it, 1) /\ Parent(l) = it
        BY <2>2, <3>1, LoopShape
      <4>3. Operand(a, 1) = l /\ l \in Path(c)
        <5>1. Kind(a) \notin Callables
          BY <2>2 DEF Loops, Callables
        <5>2. Operand(a, 1) = l
          BY <2>2, <3>1, <4>2, <5>1 DEF Operand
        <5> QED BY <1>13, <4>1, <5>2
      <4>4. it \in Path(c)
        <5>1. it \in Path(it) /\ Path(it) \subseteq Path(l) /\ Path(l) \subseteq Path(c)
          BY <3>1, <4>2, <4>3, PathFacts
        <5> QED BY <5>1
      <4>5. it = n
        BY <1>5, <1>9, <1>10, <3>1, <4>4, SiblingsApart
      <4> QED BY <1>9, <3>1, <4>5
    <3>3. c \in NestedFunctions
      BY <1>2, <1>3, <1>4, <1>8 DEF NestedFunctions
    <3> QED BY <2>2, <3>2, <3>3 DEF Barrier, Iterates
  <2>3. CASE Kind(a) \notin Callables \cup Loops
    BY <1>10, <1>13, <2>3 DEF BodyLoops, Visiting, Constructs, Plain, Operators, Statements, Callables, Loops
  <2> QED BY <2>1, <2>2, <2>3
<1> QED BY <1>2, <1>5, <1>12, <1>14, <1>15

\* The function of a place is what it was, and the fences stand.
LEMMA ReturnFacts ==
  ASSUME PhiInductive, Turns, prog' = prog
  PROVE  /\ gcur \in Node /\ gcur' \in Node /\ Node' = Node /\ Path(gcur') \subseteq Node /\ Path(gcur) \subseteq Node
         /\ BlocksAreTheirs' /\ NoBlock \notin DOMAIN blocks'
         /\ \A b \in DOMAIN blocks \cup {NoBlock} : FunctionAt(b)' = FunctionAt(b)
         /\ \A m \in Path(gcur') : Open(m)' => m \in Path(gcur)
         /\ \A m \in Node : Open(m) => FunctionAfter(m)' = FunctionAfter(m)
         /\ \A m \in Node : Barrier(m) => Barrier(m)'
<1>1. gcur \in Node /\ gcur' \in Node /\ Node' = Node /\ Path(gcur') \subseteq Node /\ Path(gcur) \subseteq Node
  BY TurnFacts, SameTree, PathFacts DEF PhiInductive
<1>2. BlocksAreTheirs'
  BY TheirsAfter DEF PhiInductive
<1>3. NoBlock \notin DOMAIN blocks' /\ NoBlock \notin DOMAIN blocks
  BY <1>2 DEF BlocksAreTheirs, BlockNames, Labels, NoBlock, PhiInductive
<1>4. \A b \in DOMAIN blocks \cup {NoBlock} : FunctionAt(b)' = FunctionAt(b)
  <2>1. PICK new : Keeps(new)
    BY PlaceAfter DEF PhiInductive
  <2> QED BY <1>3, <2>1, FunctionStays
<1>5. ASSUME NEW m \in Path(gcur'), Open(m)'
      PROVE  m \in Path(gcur)
  <2>1. step'[m] # 0
    <3>1. Forks(m)' => step'[m] # 0
      BY DEF Forks
    <3>2. Iterates(m)' => step'[m] # 0
      BY DEF Iterates
    <3> QED BY <1>5, <3>1, <3>2 DEF Open
  <2> QED BY <1>5, <2>1, TurnFacts DEF PhiInductive
<1>6. ASSUME NEW m \in Node, Open(m)
      PROVE  FunctionAfter(m)' = FunctionAfter(m)
  <2>1. After(m) \in DOMAIN blocks /\ After(m)' = After(m)
    BY <1>6, OpenFacts, LabelsAfter DEF PhiInductive
  <2>2. FunctionAt(After(m)) = blocks[After(m)].fn
    BY <1>3, <2>1 DEF FunctionAt
  <2>3. PICK a \in DOMAIN blocks : a = After(m)
    BY <2>1
  <2>4. blocks'[a].fn = blocks[a].fn
    <3>1. NoBlock' = NoBlock /\ FunctionAt(a)' = FunctionAt(a) /\ a # NoBlock
      BY <1>3, <1>4 DEF NoBlock
    <3> QED BY <3>1 DEF FunctionAt
  <2> QED BY <2>1, <2>3, <2>4 DEF FunctionAfter
<1>7. \A m \in Node : Barrier(m) => Barrier(m)'
  BY BarrierStays DEF PhiInductive
<1> QED BY <1>1, <1>2, <1>3, <1>4, <1>5, <1>6, <1>7

\* The places of a handler's blocks are in the function it goes on in.
LEMMA PlaceOfHandler ==
  ASSUME BlocksAreTheirs, NEW n \in Node, Open(n), NEW l \in LabelsOf(n)
  PROVE  <<n, l>> \in DOMAIN blocks /\ <<n, l>> # NoBlock /\ FunctionAt(<<n, l>>) = FunctionAfter(n)
<1>1. <<n, l>> \in DOMAIN blocks /\ blocks[<<n, l>>].fn = FunctionAfter(n)
  BY OpenFacts
<1>2. <<n, l>> # NoBlock
  BY <1>1 DEF BlocksAreTheirs, BlockNames, Labels, NoBlock
<1> QED BY <1>1, <1>2 DEF FunctionAt

\* What opens goes on in the function it is in.
LEMMA OpensHere ==
  ASSUME PhiInductive, ThenBegins \/ IterationBegins, prog' = prog, NEW n \in Node, n = gcur
  PROVE  FunctionAfter(n)' = FunctionAt(ip) /\ FunctionAt(ip)' = FunctionAt(ip) /\ ip # NoBlock
<1>1. Turns
  BY DEF Turns
<1>2. n = gcur
  OBVIOUS
<1>3. ip \in DOMAIN blocks /\ ip # NoBlock /\ FunctionAt(ip) = blocks[ip].fn
  <2>1. ip \in DOMAIN blocks
    BY ThenBeginsBlocks, IterationBeginsBlocks DEF PhiInductive
  <2> QED BY <2>1 DEF FunctionAt, PhiInductive, BlocksAreTheirs, BlockNames, Labels, NoBlock
<1>4. PICK p : p = ip'
  OBVIOUS
<1>5. blocks'[p].fn = FunctionAt(ip) /\ p # NoBlock
  <2>1. CASE ThenBegins
    <3>1. p = IfBlock("then") /\ blocks'[p] = NewBlock(CurrentFunction) /\ CurrentFunction = blocks[ip].fn
      BY <1>4, <2>1, ThenBeginsBlocks DEF ThenBegins, PhiInductive
    <3> QED BY <1>3, <3>1 DEF NewBlock, IfBlock, NoBlock
  <2>2. CASE IterationBegins
    <3>1. p = LoopBlock("loop") /\ blocks'[p] = NewBlock(CurrentFunction) /\ CurrentFunction = blocks[ip].fn
      BY <1>4, <2>2, IterationBeginsBlocks DEF IterationBegins, PhiInductive
    <3> QED BY <1>3, <3>1 DEF NewBlock, LoopBlock, NoBlock
  <2> QED BY <2>1, <2>2
<1>6. blocks'[After(n)].fn = FunctionAt(ip) /\ After(n)' = After(n)
  <2>1. CASE ThenBegins
    <3>1. After(n) = IfBlock("cont") /\ After(n)' = After(n)
      BY <1>1, <1>2, <2>1, LabelsAfter DEF PhiInductive
    <3>2. blocks'[IfBlock("cont")] = NewBlock(CurrentFunction) /\ CurrentFunction = blocks[ip].fn
      BY <2>1, ThenBeginsBlocks DEF PhiInductive
    <3> QED BY <1>3, <3>1, <3>2 DEF NewBlock
  <2>2. CASE IterationBegins
    <3>1. After(n) = LoopBlock("loopend") /\ After(n)' = After(n)
      BY <1>1, <1>2, <2>2, LabelsAfter DEF PhiInductive
    <3>2. blocks'[LoopBlock("loopend")] = NewBlock(CurrentFunction) /\ CurrentFunction = blocks[ip].fn
      BY <2>2, IterationBeginsBlocks DEF PhiInductive
    <3> QED BY <1>3, <3>1, <3>2 DEF NewBlock
  <2> QED BY <2>1, <2>2
<1>7. FunctionAfter(n)' = FunctionAt(ip)
  BY <1>6 DEF FunctionAfter
<1>8. FunctionAt(ip)' = FunctionAt(ip)
  <2>1. NoBlock' = NoBlock
    BY DEF NoBlock
  <2> QED BY <1>4, <1>5, <2>1 DEF FunctionAt
<1> QED BY <1>3, <1>7, <1>8

LEMMA ReturnAfter ==
  ASSUME PhiInductive, Turns, prog' = prog
  PROVE  FunctionsReturn'
<1>1. PICK c \in Node : c = gcur'
  BY ReturnFacts
<1>2. PICK g \in Node : g = gcur
  BY ReturnFacts
<1>3. /\ Path(c) \subseteq Node /\ Path(g) \subseteq Node
      /\ \A b \in DOMAIN blocks \cup {NoBlock} : FunctionAt(b)' = FunctionAt(b)
      /\ \A m \in Path(c) : Open(m)' => m \in Path(g)
      /\ \A m \in Node : Open(m) => FunctionAfter(m)' = FunctionAfter(m)
      /\ \A m \in Node : Barrier(m) => Barrier(m)'
      /\ ip \in DOMAIN blocks \cup {NoBlock} /\ Len(prog) \in Nat /\ Node = 1 .. Len(prog)
  BY <1>1, <1>2, ReturnFacts, ProgramFacts DEF PhiInductive, BlocksAreTheirs
<1>4. \A n : Path(n)' = Path(n) /\ Kind(n)' = Kind(n)
  BY SameTree DEF Path
<1>5. \A m, x \in Path(g) : Open(m) /\ m < x /\ ClearAbove(m, x) =>
         /\ Kind(x) = "lambda" /\ step[x] = 1 => FunctionAt(keptBlock[x]) = FunctionAfter(m)
         /\ Open(x) => FunctionAfter(x) = FunctionAfter(m)
  BY <1>2 DEF PhiInductive, FunctionsReturn
<1>6. \A m \in Path(g) : Open(m) /\ ClearTo(m, g) => FunctionAt(ip) = FunctionAfter(m)
  BY <1>2 DEF PhiInductive, FunctionsReturn
<1>7. \A n \in Path(g) : n # g => n < g
  <2>1. \A n \in Path(g) : n <= g
    BY <1>3 DEF Path
  <2> QED BY <1>3, <2>1
<1>8. g \in Path(g) /\ c \in Path(c)
  BY PathFacts DEF PhiInductive
<1>9. ASSUME NEW n \in Node, Open(n), NEW p, p = ip', \E l \in LabelsOf(n) : p = <<n, l>>
      PROVE  FunctionAt(ip)' = FunctionAfter(n)
  <2>1. p \in DOMAIN blocks /\ FunctionAt(p) = FunctionAfter(n)
    BY <1>9, PlaceOfHandler DEF PhiInductive
  <2>2. FunctionAt(p)' = FunctionAt(p)
    BY <1>3, <2>1
  <2>3. FunctionAt(ip)' = FunctionAt(p)'
    BY <1>9 DEF FunctionAt
  <2> QED BY <2>1, <2>2, <2>3
<1>10. ASSUME NEW p \in DOMAIN blocks \cup {NoBlock}, p = ip'
       PROVE  FunctionAt(ip)' = FunctionAt(p)
  <2>1. FunctionAt(p)' = FunctionAt(p)
    BY <1>3
  <2>2. FunctionAt(ip)' = FunctionAt(p)'
    BY <1>10 DEF FunctionAt
  <2> QED BY <2>1, <2>2
\* An if or a loop that has just opened.
<1>11. ASSUME Open(g)', ~Open(g), g \in Path(c)
       PROVE  /\ FunctionAt(ip)' = FunctionAfter(g)' /\ FunctionAfter(g)' = FunctionAt(ip) /\ ~Barrier(g)
  <2>1. ThenBegins \/ IterationBegins
    <3>1. Creates /\ ~FunctionOpens
      BY <1>2, <1>11, LabelsAfter DEF PhiInductive
    <3> QED BY <3>1 DEF Creates
  <2>2. FunctionAfter(g)' = FunctionAt(ip) /\ FunctionAt(ip)' = FunctionAt(ip)
    BY <1>2, <2>1, OpensHere
  <2>3. ~Barrier(g)
    BY <1>2, <2>1, BarrierStays DEF PhiInductive, Creates
  <2> QED BY <2>2, <2>3
<1>12. ASSUME NEW x \in Path(c), step'[x] # 0
       PROVE  x \in Path(g)
  BY <1>1, <1>2, <1>12, TurnFacts DEF PhiInductive
<1>13. ASSUME NEW m \in Path(c), Open(m)', ~Open(m)
       PROVE  m = g
  BY <1>2, <1>3, <1>13, LabelsAfter DEF PhiInductive
\* A fence that stands now may not have stood before, never the other way round.
<1>14. ASSUME NEW m, NEW x \in Path(c), \A k \in Path(x) : m <= k /\ k # x => ~Barrier(k)'
       PROVE  ClearAbove(m, x)
  <2>1. Path(x) \subseteq Node
    BY <1>3, PathFacts DEF PhiInductive
  <2> QED BY <1>3, <1>14, <2>1 DEF ClearAbove
<1>15. ASSUME NEW m \in Path(c), Open(m)', \A k \in Path(c) : m <= k => ~Barrier(k)'
       PROVE  FunctionAt(ip)' = FunctionAfter(m)'
  <2>1. CASE ~Open(m)
    BY <1>11, <1>13, <1>15, <2>1
  <2>2. CASE Open(m)
    <3>1. m \in Path(g) /\ m \in Node /\ FunctionAfter(m)' = FunctionAfter(m)
      BY <1>3, <1>15, <2>2
    <3>2. \A k \in Path(c) : m <= k => ~Barrier(k)
      BY <1>3, <1>15
    <3>3. \A k \in Path(g) : k \in Path(c) \/ k = g \/ ~Barrier(k)
      <4>1. \A k \in Path(g) : k \in Path(c) \/ k = g \/ Kind(k) = "iterator_definition"
        BY <1>1, <1>2, TurnFacts DEF PhiInductive
      <4> QED BY <4>1 DEF Barrier, Defines, Iterates, Callables, Loops
    <3>4. ClearAbove(m, g)
      BY <3>2, <3>3 DEF ClearAbove
    <3>5. ~Barrier(g) => FunctionAt(ip) = FunctionAfter(m)
      BY <1>6, <2>2, <3>1, <3>4 DEF ClearAbove, ClearTo
    <3>6. Open(g) => FunctionAfter(g) = FunctionAfter(m)
      <4>1. m = g \/ m < g
        BY <1>7, <3>1
      <4> QED BY <1>5, <1>8, <2>2, <3>1, <3>4, <4>1
    <3>7. CASE ip' = ip /\ ~Barrier(g)
      BY <1>3, <1>10, <3>1, <3>5, <3>7
    <3>8. CASE \E p : p = ip' /\ Open(g) /\ \E l \in LabelsOf(g) : p = <<g, l>>
      BY <1>9, <3>1, <3>6, <3>8
    <3>9. CASE \E i : Passes(i)
      <4>1. ip' = ip /\ Kind(g) \notin Callables
        BY <1>2, <3>9 DEF Passes, Quietly
      <4>2. ~Iterates(g)
        <5>1. PICK i : Passes(i)
          BY <3>9
        <5>2. step[g] < i /\ (Kind(g) \in Loops => i = 1)
          BY <1>2, <5>1 DEF Passes, Descend, Constructs
        <5> QED BY <5>2 DEF Iterates
      <4> QED BY <3>7, <4>1, <4>2 DEF Barrier, Defines
    <3>10. CASE Returns
      BY <1>2, <3>7, <3>10 DEF Returns, Quietly, Barrier, Defines, Iterates
    <3>11. CASE FunctionOpens
      <4>1. g \in Path(c) /\ Barrier(g)'
        <5>1. Path(gcur) \subseteq Path(gcur')
          BY <3>11, TurnFacts DEF FunctionOpens, PhiInductive
        <5> QED BY <1>1, <1>2, <1>8, <3>11, <5>1, BarrierStays DEF PhiInductive
      <4>2. m <= g
        BY <1>3, <1>7, <3>1
      <4> QED BY <1>15, <4>1, <4>2
    <3>12. CASE FunctionCloses
      <4>1. gcur' = Handler(gcur) /\ gcur # 1 /\ Kind(g) \in Callables /\ step[g] = 1
            /\ ip' = (IF Kind(g) = "lambda" THEN keptBlock[g] ELSE ip) /\ keptBlock[g] \in DOMAIN blocks \cup {NoBlock}
        BY <1>2, <3>12 DEF FunctionCloses, Ascend, PhiInductive, KeptAreTheirs
      <4>2. CASE Kind(g) = "lambda"
        <5>1. m # g
          BY <2>2, <4>1 DEF Open, Forks, Iterates, Callables, Loops
        <5>2. FunctionAt(keptBlock[g]) = FunctionAfter(m)
          BY <1>5, <1>7, <1>8, <2>2, <3>1, <3>4, <4>1, <4>2, <5>1
        <5> QED BY <1>10, <3>1, <4>1, <4>2, <5>2
      <4>3. CASE Kind(g) = "function_definition"
        <5>1. \E k \in Path(Handler(gcur)) : m <= k /\ Barrier(k)
          BY <1>1, <1>2, <1>15, <2>2, <4>1, <4>3, FunctionsAreFenced DEF PhiInductive
        <5> QED BY <1>1, <3>2, <4>1, <5>1
      <4> QED BY <4>1, <4>2, <4>3 DEF Callables
    <3>13. CASE ThenBegins \/ IterationBegins
      <4>1. FunctionAt(ip)' = FunctionAt(ip)
        BY <1>2, <3>13, OpensHere
      <4>2. ~Barrier(g)
        BY <1>2, <3>13, BarrierStays DEF PhiInductive, Creates
      <4> QED BY <3>1, <3>5, <4>1, <4>2
    <3>14. CASE ElseBegins \/ ElseFails \/ BranchesMerge
      <4>1. Forks(g) /\ LabelsOf(g) = {"then", "else", "cont"} /\ ip' \in {<<g, "else">>, <<g, "cont">>}
        BY <1>2, <3>14 DEF ElseBegins, ElseFails, BranchesMerge, Forks, LabelsOf, IfBlock
      <4> QED BY <3>8, <4>1 DEF Open
    <3>15. CASE LoopCloses
      <4>1. Iterates(g) /\ ~Forks(g) /\ ip' = <<g, "loopend">>
        BY <1>2, <3>15 DEF LoopCloses, Iterates, Forks, LoopBlock, Loops
      <4>2. LabelsOf(g) = {"check", "loop", "update", "loopend"}
        BY <4>1 DEF LabelsOf
      <4> QED BY <3>8, <4>1, <4>2 DEF Open
    <3> QED BY <3>9, <3>10, <3>11, <3>12, <3>13, <3>14, <3>15 DEF Turns
  <2> QED BY <2>1, <2>2
<1>16. ASSUME NEW m \in Path(c), Open(m)', NEW x \in Path(c), m < x,
              \A k \in Path(x) : m <= k /\ k # x => ~Barrier(k)'
       PROVE  /\ Kind(x) = "lambda" /\ step'[x] = 1 => FunctionAt(keptBlock[x])' = FunctionAfter(m)'
              /\ Open(x)' => FunctionAfter(x)' = FunctionAfter(m)'
  <2>1. m \in Path(g) /\ x \in Node /\ m \in Node
    BY <1>3, <1>16
  <2>2. CASE step'[x] = 0
    BY <2>2 DEF Open, Forks, Iterates
  <2>3. CASE step'[x] # 0
    <3>1. x \in Path(g) /\ ClearAbove(m, x)
      BY <1>12, <1>14, <1>16, <2>3
    <3>2. Open(m)
      <4>1. m # g
        BY <1>3, <1>7, <1>16, <2>1, <3>1
      <4> QED BY <1>13, <1>16, <4>1
    <3>3. FunctionAfter(m)' = FunctionAfter(m)
      BY <1>3, <2>1, <3>2
    <3>4. x = g /\ ~Barrier(g) => FunctionAt(ip) = FunctionAfter(m)
      BY <1>6, <2>1, <3>1, <3>2 DEF ClearAbove, ClearTo
    <3>5. ASSUME Kind(x) = "lambda", step'[x] = 1
          PROVE  FunctionAt(keptBlock[x])' = FunctionAfter(m)'
      <4> PICK k : k = keptBlock'[x]
        OBVIOUS
      <4>1. k \in DOMAIN blocks \cup {NoBlock} /\ FunctionAt(k) = FunctionAfter(m)
        <5>1. CASE x # g \/ ~FunctionOpens
          <6>1. k = keptBlock[x] /\ step[x] = 1
            <7>1. CASE x # g
              <8>1. step'[x] = step[x]
                BY <1>2, <2>1, <7>1, TurnFacts DEF PhiInductive
              <8>2. keptBlock'[x] = keptBlock[x]
                BY <1>2, <2>1, <7>1 DEF Turns, Passes, Returns, Quietly, FunctionOpens, FunctionCloses, ThenBegins,
                   ElseBegins, ElseFails, BranchesMerge, IterationBegins, LoopCloses, PhiInductive, KeptAreTheirs
              <8> QED BY <3>5, <8>1, <8>2
            <7>2. CASE x = g /\ ~FunctionOpens
              <8>1. Kind(g) \in Callables /\ Kind(g) # "if_expr" /\ Kind(g) \notin Loops
                BY <3>5, <7>2 DEF Callables, Loops
              <8>2. FunctionCloses
                BY <1>2, <7>2, <8>1 DEF Turns, Passes, Returns, ThenBegins, ElseBegins, ElseFails, BranchesMerge,
                   IterationBegins, LoopCloses
              <8> QED BY <3>5, <8>2 DEF FunctionCloses, Ascend
            <7> QED BY <5>1, <7>1, <7>2
          <6> QED BY <1>5, <1>16, <2>1, <3>1, <3>2, <3>5, <6>1 DEF PhiInductive, KeptAreTheirs
        <5>2. CASE x = g /\ FunctionOpens
          <6>1. k = ip /\ ~Barrier(g)
            BY <1>2, <2>1, <3>5, <5>2, BarrierStays DEF FunctionOpens, PhiInductive, KeptAreTheirs, Creates
          <6> QED BY <1>3, <3>4, <5>2, <6>1
        <5> QED BY <5>1, <5>2
      <4>2. FunctionAt(keptBlock[x])' = FunctionAt(k)'
        BY DEF FunctionAt
      <4>3. FunctionAt(k)' = FunctionAt(k)
        BY <1>3, <4>1
      <4> QED BY <3>3, <4>1, <4>2, <4>3
    <3>6. ASSUME Open(x)'
          PROVE  FunctionAfter(x)' = FunctionAfter(m)'
      <4>1. CASE Open(x)
        BY <1>3, <1>5, <1>16, <2>1, <3>1, <3>2, <3>3, <4>1
      <4>2. CASE ~Open(x)
        BY <1>11, <1>13, <1>16, <3>3, <3>4, <3>6, <4>2
      <4> QED BY <4>1, <4>2
    <3> QED BY <3>5, <3>6
  <2> QED BY <2>2, <2>3
<1>17. Path(gcur)' = Path(c)
  BY <1>1 DEF Path
<1> QED BY <1>3, <1>4, <1>15, <1>16, <1>17 DEF FunctionsReturn, ClearTo, ClearAbove

-----------------------------------------------------------------------------
(* The code of a branch                                                    *)

\* The blocks of what is under a branch are the branch's.
LEMMA InTheBranch ==
  ASSUME prog \in Programs, WalkInv, NEW n \in Path(gcur), n # gcur, Kind(n) = "if_expr", NEW l \in Labels
  PROVE  <<gcur, l>> \in Zone(n, step[n])
<1>1. n \in Node /\ step[n] \in Steps(n) /\ Operand(n, step[n]) \in Path(gcur) /\ gcur \in Node
  BY InProgress DEF WalkInv
<1>2. Operand(n, step[n]) = Child(n, step[n])
  BY <1>1 DEF Operand, Callables, Loops
<1> QED BY <1>1, <1>2 DEF Zone, BlockNames

\* What the handlers keep after a turn: only the one that takes it has something new.
LEMMA KeptStays ==
  ASSUME prog \in Programs, WalkInv, BlocksAreTheirs, KeptAreTheirs, Turns, prog' = prog, NEW x \in Node
  PROVE  \/ x = gcur /\ FunctionOpens /\ (Kind(x) = "lambda" => keptBlock'[x] = ip)
         \/ x = gcur /\ ElseBegins /\ keptBlock'[x] = ip /\ step[x] = 2 /\ step'[x] = 3
         \/ /\ keptBlock'[x] = keptBlock[x]
            /\ Kind(x) = "lambda" /\ step'[x] = 1 => step[x] = 1
            /\ Kind(x) = "if_expr" /\ step'[x] = 3 => step[x] = 3
<1>1. /\ keptBlock \in [Node -> DOMAIN blocks \cup {NoBlock}] /\ step \in [Node -> Nat] /\ gcur \in Node
      /\ x # gcur => step'[x] = step[x]
  BY TurnFacts DEF KeptAreTheirs, WalkInv
<1>2. CASE x # gcur
  <2>1. keptBlock'[x] = keptBlock[x]
    BY <1>1, <1>2 DEF Turns, Passes, Returns, Quietly, FunctionOpens, FunctionCloses, ThenBegins,
       ElseBegins, ElseFails, BranchesMerge, IterationBegins, LoopCloses
  <2> QED BY <1>1, <1>2, <2>1
<1>3. CASE x = gcur
  <2>1. CASE FunctionOpens
    BY <1>1, <1>3, <2>1 DEF FunctionOpens
  <2>2. CASE ElseBegins
    BY <1>1, <1>3, <2>2 DEF ElseBegins, Descend
  <2>3. CASE ~FunctionOpens /\ ~ElseBegins
    <3>1. keptBlock' = keptBlock
      BY <2>3 DEF Turns, Passes, Returns, Quietly, FunctionCloses, ThenBegins, ElseFails, BranchesMerge,
         IterationBegins, LoopCloses
    <3>2. CASE Ascend
      BY <3>1, <3>2 DEF Ascend
    <3>3. CASE ~Ascend
      <4>1. PICK i : Passes(i) \/ (Descend(i) /\ i = 2 /\ Kind(x) \in Loops \cup {"if_expr"})
        BY <1>3, <2>3, <3>3 DEF Turns, Returns, FunctionCloses, ThenBegins, ElseFails, BranchesMerge, IterationBegins, LoopCloses
      <4>2. step'[x] = i
        BY <1>1, <1>3, <4>1 DEF Passes, Descend
      <4>3. Kind(x) # "lambda" /\ (Kind(x) = "if_expr" => i # 3)
        BY <1>3, <4>1 DEF Passes, Callables, Loops, Constructs
      <4> QED BY <3>1, <4>2, <4>3
    <3> QED BY <3>2, <3>3
  <2> QED BY <2>1, <2>2, <2>3
<1> QED BY <1>2, <1>3

LEMMA BranchesAfter ==
  ASSUME PhiInductive, Turns, prog' = prog
  PROVE  CodeIsInItsBranch'
<1>1. PICK c \in Node : c = gcur'
  BY ReturnFacts
<1>2. PICK g \in Node : g = gcur
  BY ReturnFacts
<1>3. /\ prog \in Programs /\ WalkInv /\ BlocksAreTheirs /\ KeptAreTheirs /\ CodeIsInItsBranch
      /\ Path(c) \subseteq Node /\ Path(g) \subseteq Node /\ Len(prog) \in Nat /\ Node = 1 .. Len(prog)
      /\ Node' = Node
  BY <1>1, <1>2, ReturnFacts, ProgramFacts DEF PhiInductive
<1>4. \A n : Path(n)' = Path(n) /\ Kind(n)' = Kind(n) /\ \A i : Zone(n, i)' = Zone(n, i)
  <2>1. BlockNames' = BlockNames /\ \A n : Path(n)' = Path(n) /\ Kind(n)' = Kind(n)
    BY SameTree, SameOperands DEF Path
  <2>2. \A n, i : Child(n, i)' = Child(n, i)
    BY SameTree
  <2> QED BY <2>1, <2>2 DEF Zone
<1>5. \A x \in Path(c) : step'[x] # 0 => x \in Path(g)
  BY <1>1, <1>2, <1>3, TurnFacts
<1>6. \A n \in Path(g) : n # g => n < g
  <2>1. \A n \in Path(g) : n <= g
    BY <1>3 DEF Path
  <2> QED BY <1>3, <2>1
<1>7. ASSUME NEW n \in Path(c), Forks(n)'
      PROVE  /\ ip' \in Zone(n, step'[n])
             /\ \A x \in Path(c) : n < x /\ Kind(x) = "lambda" /\ step'[x] = 1 => keptBlock'[x] \in Zone(n, step'[n])
  <2>1. Kind(n) = "if_expr" /\ n \in Node /\ step'[n] >= 2 /\ n \in Path(g)
    <3>1. Kind(n) = "if_expr" /\ step'[n] >= 2
      BY <1>4, <1>7 DEF Forks
    <3>2. step'[n] # 0
      BY <3>1
    <3> QED BY <1>3, <1>5, <3>1, <3>2
  <2>2. CASE n = g
    <3>1. \A x \in Path(c) : n < x => step'[x] = 0
      BY <1>3, <1>5, <1>6, <2>1, <2>2
    <3>2. ThenBegins \/ ElseBegins
      <4>1. ~Ascend
        BY <1>1, <1>2, <1>3, <1>7, <2>2, TurnFacts
      <4>2. ~\E i : Passes(i)
        <5> SUFFICES ASSUME NEW i, Passes(i) PROVE FALSE
          OBVIOUS
        <5>1. i = 1 /\ step'[g] = 1
          BY <1>2, <1>3, <2>1, <2>2 DEF Passes, Descend, Constructs, WalkInv
        <5> QED BY <2>1, <2>2, <5>1
      <4> QED BY <1>2, <2>1, <2>2, <4>1, <4>2
             DEF Turns, Returns, FunctionOpens, FunctionCloses, ElseFails, BranchesMerge, IterationBegins, LoopCloses, Callables, Loops
    <3>3. CASE ThenBegins
      <4>1. ip' = <<g, "then">> /\ step'[g] = 2
        BY <1>2, <1>3, <3>3 DEF ThenBegins, Descend, IfBlock, WalkInv
      <4> QED BY <2>2, <3>1, <4>1 DEF Zone
    <3>4. CASE ElseBegins
      <4>1. ip' = <<g, "else">> /\ step'[g] = 3
        BY <1>2, <1>3, <3>4 DEF ElseBegins, Descend, IfBlock, WalkInv
      <4> QED BY <2>2, <3>1, <4>1 DEF Zone
    <3> QED BY <3>2, <3>3, <3>4
  <2>3. CASE n # g
    <3>1. step'[n] = step[n] /\ Forks(n)
      BY <1>2, <1>3, <1>7, <2>1, <2>3, TurnFacts, LabelsAfter
    <3>2. /\ ip \in Zone(n, step[n])
          /\ \A x \in Path(g) : n < x /\ Kind(x) = "lambda" /\ step[x] = 1 => keptBlock[x] \in Zone(n, step[n])
      BY <1>2, <1>3, <2>1, <3>1 DEF CodeIsInItsBranch
    <3>3. \A l \in Labels : <<g, l>> \in Zone(n, step[n])
      BY <1>2, <1>3, <2>1, <2>3, InTheBranch
    <3>4. ip' \in Zone(n, step[n])
      <4>1. CASE (\E i : Passes(i)) \/ Returns
        BY <3>2, <4>1 DEF Passes, Returns, Quietly
      <4>2. CASE FunctionCloses
        <5>1. /\ Kind(g) \in Callables /\ step[g] = 1
              /\ ip' = (IF Kind(g) = "lambda" THEN keptBlock[g] ELSE ip)
          BY <1>2, <4>2 DEF FunctionCloses
        <5>2. g \in Path(g) /\ n < g
          BY <1>3, <1>6, <2>1, <2>3, PathFacts
        <5> QED BY <3>2, <5>1, <5>2
      <4>3. CASE FunctionOpens \/ ThenBegins \/ ElseBegins \/ ElseFails \/ BranchesMerge \/ IterationBegins \/ LoopCloses
        <5>1. \E l \in Labels : ip' = <<g, l>>
          BY <1>2, <4>3 DEF FunctionOpens, ThenBegins, ElseBegins, ElseFails, BranchesMerge, IterationBegins, LoopCloses,
             Entry, IfBlock, LoopBlock, Labels
        <5> QED BY <3>3, <5>1
      <4> QED BY <4>1, <4>2, <4>3 DEF Turns
    <3>5. ASSUME NEW x \in Path(c), n < x, Kind(x) = "lambda", step'[x] = 1
          PROVE  keptBlock'[x] \in Zone(n, step[n])
      <4>1. x \in Path(g) /\ x \in Node
        BY <1>3, <1>5, <3>5
      <4>2. keptBlock'[x] = ip \/ (keptBlock'[x] = keptBlock[x] /\ step[x] = 1)
        BY <1>3, <3>5, <4>1, KeptStays
      <4> QED BY <3>2, <3>5, <4>1, <4>2
    <3> QED BY <3>1, <3>4, <3>5
  <2> QED BY <2>2, <2>3
<1>8. ASSUME NEW n \in Node, Forks(n)', step'[n] = 3
      PROVE  keptBlock'[n] \in Zone(n, 2)
  <2>1. Kind(n) = "if_expr"
    BY <1>4, <1>8 DEF Forks
  <2>2. CASE n = gcur /\ ElseBegins /\ keptBlock'[n] = ip /\ step[n] = 2
    <3>1. Forks(n) /\ n \in Path(gcur)
      BY <1>2, <1>3, <2>1, <2>2, PathFacts DEF Forks
    <3> QED BY <1>3, <2>2, <3>1 DEF CodeIsInItsBranch
  <2>3. CASE keptBlock'[n] = keptBlock[n] /\ step[n] = 3
    <3>1. Forks(n)
      BY <2>1, <2>3 DEF Forks
    <3> QED BY <1>3, <2>3, <3>1 DEF CodeIsInItsBranch
  <2>4. ~FunctionOpens \/ n # gcur
    BY <2>1 DEF FunctionOpens, Callables
  <2> QED BY <1>3, <1>8, <2>1, <2>2, <2>3, <2>4, KeptStays
<1>9. Path(gcur)' = Path(c)
  BY <1>1 DEF Path
<1> QED BY <1>3, <1>4, <1>7, <1>8, <1>9 DEF CodeIsInItsBranch

-----------------------------------------------------------------------------
(* The phi of an if                                                        *)

\* The blocks of the two branches of an if are not the same.
LEMMA BranchesApart ==
  ASSUME prog \in Programs, NEW n \in Node, Kind(n) = "if_expr"
  PROVE  Zone(n, 2) \cap Zone(n, 3) = {}
<1>1. Len(Children(n)) = 3 /\ Len(prog) \in Nat /\ Node = 1 .. Len(prog)
  BY ShapeFacts, ProgramFacts
<1>2. PICK c \in Node \ {1}, d \in Node \ {1} : c = Child(n, 2) /\ d = Child(n, 3) /\ c # d /\ Parent(c) = n /\ Parent(d) = n
  <2>1. 2 \in 1 .. Len(Children(n)) /\ 3 \in 1 .. Len(Children(n))
    BY <1>1
  <2>2. Child(n, 2) = Child(n, 3) => 2 = 3
    BY <2>1, TreeFacts
  <2> QED BY <2>1, <2>2, TreeFacts
<1>3. c \notin Path(n) /\ d \notin Path(n)
  <2>1. n < c /\ n < d
    BY <1>2, TreeOrder
  <2>2. \A m \in Path(n) : m <= n
    BY <1>1 DEF Path
  <2> QED BY <1>1, <2>1, <2>2
<1>4. \A m \in Node : ~(c \in Path(m) /\ d \in Path(m))
  BY <1>2, SiblingsApart
<1> QED BY <1>2, <1>3, <1>4 DEF Zone, BlockNames

\* What branches to the end of an if: an action of its handler adds the insertion point.
LEMMA PredecessorsAfter ==
  ASSUME prog \in Programs, WalkInv, BlocksAreTheirs, KeptAreTheirs, LoopsAreSteered, Turns, prog' = prog, NEW n \in Node
  PROVE  Predecessors(n)' = Predecessors(n) \cup (IF n = gcur /\ (ElseBegins \/ ElseFails \/ BranchesMerge) THEN {ip} ELSE {})
<1>1. Predecessors(n)' = {b \in DOMAIN blocks' : <<n, "cont">> \in blocks'[b].to}
  BY DEF Predecessors
<1>2. ASSUME NEW b \in DOMAIN blocks', <<n, "cont">> \in blocks'[b].to
      PROVE  (b \in DOMAIN blocks /\ <<n, "cont">> \in blocks[b].to) \/ (b = ip /\ n = gcur /\ (ElseBegins \/ ElseFails \/ BranchesMerge))
  BY <1>2, TargetsAfter DEF IfBlock, LoopBlock
<1>3. ASSUME NEW b \in DOMAIN blocks, <<n, "cont">> \in blocks[b].to
      PROVE  b \in DOMAIN blocks' /\ <<n, "cont">> \in blocks'[b].to
  <2>1. b \in DOMAIN blocks'
    BY PlaceAfter DEF Keeps
  <2>2. CASE (\E i : Passes(i)) \/ Returns
    BY <1>3, <2>1, <2>2 DEF Passes, Returns, Quietly
  <2>3. CASE FunctionOpens
    BY <1>3, <2>1, <2>3, FunctionOpensBlocks
  <2>4. CASE FunctionCloses
    BY <1>3, <2>1, <2>4, FunctionClosesBlocks
  <2>5. CASE ThenBegins
    BY <1>3, <2>1, <2>5, ThenBeginsBlocks
  <2>6. CASE ElseBegins \/ ElseFails \/ BranchesMerge
    BY <1>3, <2>1, <2>6, BranchEndsBlocks
  <2>7. CASE IterationBegins
    BY <1>3, <2>1, <2>7, IterationBeginsBlocks
  <2>8. CASE LoopCloses
    <3>1. b # LoopBlock("update")
      <4>1. Iterates(gcur) /\ gcur \in Node
        BY <2>8 DEF LoopCloses, Iterates, WalkInv
      <4>2. blocks[<<gcur, "update">>].to \subseteq {<<gcur, "check">>}
        BY <4>1 DEF LoopsAreSteered
      <4> QED BY <1>3, <4>2 DEF LoopBlock
    <3> QED BY <1>3, <2>1, <2>8, <3>1, LoopClosesBlocks
  <2> QED BY <2>2, <2>3, <2>4, <2>5, <2>6, <2>7, <2>8 DEF Turns
<1>4. ASSUME n = gcur, ElseBegins \/ ElseFails \/ BranchesMerge
      PROVE  ip \in DOMAIN blocks' /\ <<n, "cont">> \in blocks'[ip].to
  BY <1>4, BranchEndsBlocks DEF Keeps, IfBlock
<1> QED BY <1>1, <1>2, <1>3, <1>4 DEF Predecessors

\* In the branch of an if the insertion point is in the function of the if.
LEMMA HereInTheIf ==
  ASSUME PhiInductive, Kind(gcur) = "if_expr", Open(gcur)
  PROVE  FunctionAt(ip) = FunctionAfter(gcur)
<1>1. gcur \in Path(gcur) /\ Path(gcur) \subseteq Node /\ Len(prog) \in Nat /\ Node = 1 .. Len(prog) /\ gcur \in Node
  BY PathFacts, ProgramFacts DEF PhiInductive, WalkInv
<1>2. \A k \in Path(gcur) : gcur <= k => k = gcur
  <2>1. \A k \in Path(gcur) : k <= gcur
    BY <1>1 DEF Path
  <2> QED BY <1>1, <2>1
<1>3. ~Barrier(gcur)
  BY DEF Barrier, Defines, Iterates, Callables, Loops
<1> QED BY <1>1, <1>2, <1>3 DEF PhiInductive, FunctionsReturn, ClearTo

LEMMA PhisAfter ==
  ASSUME PhiInductive, Turns, prog' = prog
  PROVE  PhisGrow'
<1>1. PICK c \in Node : c = gcur'
  BY ReturnFacts
<1>2. /\ prog \in Programs /\ WalkInv /\ BlocksAreTheirs /\ KeptAreTheirs /\ LoopsAreSteered /\ PhisGrow /\ CodeIsInItsBranch
      /\ Path(c) \subseteq Node /\ Node' = Node /\ gcur \in Node /\ DOMAIN blocks \subseteq DOMAIN blocks'
      /\ ip \in DOMAIN blocks \cup {NoBlock} /\ keptBlock \in [Node -> DOMAIN blocks \cup {NoBlock}]
      /\ phi \in [Node -> SUBSET DOMAIN blocks]
      /\ \A n : Kind(n)' = Kind(n)
  BY <1>1, ReturnFacts, SameTree, PlaceAfter DEF PhiInductive, BlocksAreTheirs, KeptAreTheirs, PhisGrow, Keeps
<1>3. ASSUME BranchesMerge
      PROVE  /\ ip \in DOMAIN blocks /\ keptBlock[gcur] \in DOMAIN blocks /\ ip # keptBlock[gcur] /\ Open(gcur)
             /\ phi' = [phi EXCEPT ![gcur] = {keptBlock[gcur], ip}] /\ Kind(gcur) = "if_expr" /\ step[gcur] = 3
             /\ phi[gcur] = {} /\ step' = step /\ gcur \notin Path(c) /\ keptBlock' = keptBlock
  <2>1. /\ Kind(gcur) = "if_expr" /\ step[gcur] = 3 /\ step' = step /\ keptBlock' = keptBlock
        /\ phi' = [phi EXCEPT ![gcur] = {keptBlock[gcur], ip}] /\ Ascend /\ gcur \in Path(gcur)
    BY <1>2, <1>3, PathFacts DEF BranchesMerge, Ascend
  <2>2. ip \in DOMAIN blocks
    BY <1>2, <1>3, BranchEndsBlocks
  <2>3. keptBlock[gcur] \in DOMAIN blocks
    BY <1>2, <2>1 DEF KeptAreTheirs
  <2>4. Forks(gcur) /\ Open(gcur)
    BY <2>1 DEF Forks, Open
  <2>5. ip \in Zone(gcur, 3) /\ keptBlock[gcur] \in Zone(gcur, 2)
    BY <1>2, <2>1, <2>4 DEF CodeIsInItsBranch
  <2>6. ip # keptBlock[gcur]
    BY <1>2, <2>1, <2>5, BranchesApart
  <2>7. phi[gcur] = {}
    BY <1>2, <2>1 DEF PhisGrow
  <2>8. gcur \notin Path(c)
    BY <1>1, <1>2, <2>1, TurnFacts
  <2> QED BY <2>1, <2>2, <2>3, <2>4, <2>6, <2>7, <2>8
<1>4. ASSUME ~BranchesMerge
      PROVE  phi' = phi
  BY <1>4 DEF Turns, Passes, Returns, Quietly, FunctionOpens, FunctionCloses, ThenBegins, ElseBegins,
              ElseFails, IterationBegins, LoopCloses
<1>5. phi' \in [Node -> SUBSET DOMAIN blocks']
  <2>1. phi \in [Node -> SUBSET DOMAIN blocks']
    BY <1>2
  <2>2. CASE BranchesMerge
    <3>1. {keptBlock[gcur], ip} \in SUBSET DOMAIN blocks' /\ phi' = [phi EXCEPT ![gcur] = {keptBlock[gcur], ip}]
      BY <1>2, <1>3, <2>2
    <3> QED BY <2>1, <3>1
  <2> QED BY <1>4, <2>1, <2>2
\* A phi that is there: its if is done.
<1>6. ASSUME NEW n \in Node, phi[n] # {}
      PROVE  Kind(n) = "if_expr" /\ step'[n] = 3 /\ n \notin Path(c) /\ phi'[n] = phi[n] /\ n # gcur
  <2>1. Kind(n) = "if_expr" /\ step[n] = 3 /\ n \notin Path(gcur)
    BY <1>2, <1>6 DEF PhisGrow
  <2>2. n # gcur
    BY <1>2, <2>1, PathFacts
  <2>3. step'[n] = step[n] /\ n \notin Path(c)
    BY <1>1, <1>2, <2>1, <2>2, TurnFacts
  <2>4. phi'[n] = phi[n]
    BY <1>2, <1>3, <1>4, <2>2
  <2> QED BY <2>1, <2>2, <2>3, <2>4
<1>7. ASSUME NEW n \in Node, phi'[n] # {}, phi[n] = {}
      PROVE  BranchesMerge /\ n = gcur /\ phi'[n] = {keptBlock[n], ip}
  BY <1>2, <1>3, <1>4, <1>7
<1>8. ASSUME NEW n \in Node, phi'[n] # {}
      PROVE  Kind(n) = "if_expr" /\ step'[n] = 3 /\ n \notin Path(c)
  BY <1>3, <1>6, <1>7, <1>8
<1>9. ASSUME NEW n \in Node, Kind(n) = "if_expr"
      PROVE  /\ step'[n] # 3 /\ (step'[n] = 2 => n \in Path(c)) => Predecessors(n)' = {}
             /\ step'[n] = 3 => FunctionAt(keptBlock[n])' = FunctionAfter(n)'
             /\ step'[n] = 3 /\ phi'[n] = {} => Predecessors(n)' = {keptBlock'[n]}
             /\ phi'[n] # {} => \E b \in DOMAIN blocks' :
                  /\ b # keptBlock'[n] /\ phi'[n] = {keptBlock'[n], b} /\ Predecessors(n)' = phi'[n]
                  /\ FunctionAt(b)' = FunctionAfter(n)'
  <2>1. Predecessors(n)' = Predecessors(n) \cup (IF n = gcur /\ (ElseBegins \/ ElseFails \/ BranchesMerge) THEN {ip} ELSE {})
    BY <1>2, PredecessorsAfter
  <2>2. /\ step[n] # 3 /\ (step[n] = 2 => n \in Path(gcur)) => Predecessors(n) = {}
        /\ step[n] = 3 => FunctionAt(keptBlock[n]) = FunctionAfter(n)
        /\ step[n] = 3 /\ phi[n] = {} => Predecessors(n) = {keptBlock[n]}
        /\ phi[n] # {} => \E b \in DOMAIN blocks :
             /\ b # keptBlock[n] /\ phi[n] = {keptBlock[n], b} /\ Predecessors(n) = phi[n]
             /\ FunctionAt(b) = FunctionAfter(n)
    BY <1>2, <1>9 DEF PhisGrow
  <2>3. \A b \in DOMAIN blocks \cup {NoBlock} : FunctionAt(b)' = FunctionAt(b)
    BY ReturnFacts
  <2>4. Open(n) => FunctionAfter(n)' = FunctionAfter(n)
    BY ReturnFacts
  <2>5. step[n] = 3 => Open(n)
    BY <1>9 DEF Open, Forks
  <2>6. ASSUME NEW k \in DOMAIN blocks \cup {NoBlock}, k = keptBlock'[n]
        PROVE  FunctionAt(keptBlock[n])' = FunctionAt(k)
    <3>1. FunctionAt(k)' = FunctionAt(k)
      BY <2>3
    <3>2. FunctionAt(keptBlock[n])' = FunctionAt(k)'
      BY <2>6 DEF FunctionAt
    <3> QED BY <3>1, <3>2
  <2>7. CASE n = gcur /\ ElseBegins
    <3>1. /\ keptBlock'[n] = ip /\ step[n] = 2 /\ step'[n] = 3 /\ phi'[n] = {} /\ phi' = phi
      <4>1. keptBlock' = [keptBlock EXCEPT ![gcur] = ip] /\ step[n] = 2 /\ step' = [step EXCEPT ![gcur] = 3] /\ phi' = phi
        BY <2>7 DEF ElseBegins, Descend
      <4>2. phi[n] = {}
        BY <1>6, <2>7
      <4> QED BY <1>2, <2>7, <4>1, <4>2 DEF WalkInv
    <3>2. Open(n) /\ FunctionAt(ip) = FunctionAfter(n)
      <4>1. Open(gcur)
        BY <1>9, <2>7, <3>1 DEF Open, Forks
      <4> QED BY <1>9, <2>7, <4>1, HereInTheIf
    <3>3. FunctionAt(keptBlock[n])' = FunctionAfter(n)'
      BY <1>2, <2>4, <2>6, <3>1, <3>2
    <3> QED BY <1>2, <2>1, <2>2, <2>7, <3>1, <3>3, PathFacts
  <2>8. CASE n = gcur /\ BranchesMerge
    <3>1. /\ ip \in DOMAIN blocks /\ keptBlock[n] \in DOMAIN blocks /\ ip # keptBlock[n] /\ Open(n)
          /\ phi'[n] = {keptBlock[n], ip} /\ step[n] = 3 /\ step'[n] = 3 /\ phi[n] = {} /\ keptBlock'[n] = keptBlock[n]
      BY <1>2, <1>3, <2>8
    <3>2. FunctionAt(ip) = FunctionAfter(n)
      BY <1>9, <2>8, <3>1, HereInTheIf
    <3>3. PICK b \in DOMAIN blocks : b = ip
      BY <3>1
    <3>4. FunctionAt(b)' = FunctionAfter(n)' /\ b \in DOMAIN blocks'
      BY <1>2, <2>3, <2>4, <3>1, <3>2, <3>3
    <3>5. Predecessors(n)' = {keptBlock[n], b}
      BY <2>1, <2>2, <2>8, <3>1, <3>3
    <3>6. FunctionAt(keptBlock[n])' = FunctionAfter(n)'
      BY <2>2, <2>4, <2>6, <3>1
    <3> QED BY <3>1, <3>3, <3>4, <3>5, <3>6
  <2>10. CASE n = gcur /\ ElseFails
    <3>1. step[n] = 2 /\ step'[n] = 2 /\ n \notin Path(c)
      BY <1>1, <1>2, <2>10, TurnFacts DEF ElseFails, Ascend
    <3>2. phi'[n] = {}
      BY <1>8, <3>1
    <3> QED BY <3>1, <3>2
  <2>9. CASE ~(n = gcur /\ (ElseBegins \/ ElseFails \/ BranchesMerge))
    <3>1. Predecessors(n)' = Predecessors(n) /\ phi'[n] = phi[n]
      BY <1>6, <1>7, <2>1, <2>9
    <3>2. step[n] = 3 <=> step'[n] = 3
      <4>1. step'[n] = 3 => step[n] = 3
        BY <1>2, <1>9, <2>9, KeptStays DEF FunctionOpens, Callables
      <4>2. step[n] = 3 => step'[n] = 3
        <5> SUFFICES ASSUME step[n] = 3, step'[n] # 3 PROVE FALSE
          OBVIOUS
        <5>1. n = gcur
          BY <1>2, TurnFacts
        <5>2. PICK i : Descend(i)
          BY <1>2, TurnsMove DEF Ascend
        <5>3. i \in 1 .. Len(Children(n)) /\ step[n] < i /\ Len(Children(n)) = 3
          BY <1>2, <1>9, <5>1, <5>2, ShapeFacts DEF Descend, Steps, Callables
        <5> QED BY <5>3
      <4> QED BY <4>1, <4>2
    <3>3. step[n] = 3 => keptBlock'[n] = keptBlock[n]
      BY <1>2, <1>9, <2>9, KeptStays DEF FunctionOpens, Callables
    <3>4. step[n] = 3 => FunctionAt(keptBlock[n])' = FunctionAfter(n)'
      <4> HAVE step[n] = 3
      <4>1. keptBlock[n] \in DOMAIN blocks \cup {NoBlock} /\ keptBlock[n] = keptBlock'[n]
        BY <1>2, <3>3
      <4>2. FunctionAt(keptBlock[n])' = FunctionAt(keptBlock[n])
        BY <2>6, <4>1
      <4> QED BY <2>2, <2>4, <2>5, <4>2
    <3>5. ASSUME phi[n] # {}
          PROVE  \E b \in DOMAIN blocks' :
                   /\ b # keptBlock'[n] /\ phi'[n] = {keptBlock'[n], b} /\ Predecessors(n)' = phi'[n]
                   /\ FunctionAt(b)' = FunctionAfter(n)'
      <4>1. PICK b \in DOMAIN blocks :
              /\ b # keptBlock[n] /\ phi[n] = {keptBlock[n], b} /\ Predecessors(n) = phi[n]
              /\ FunctionAt(b) = FunctionAfter(n)
        BY <2>2, <3>5
      <4>2. step[n] = 3
        BY <1>2, <3>5 DEF PhisGrow
      <4> QED BY <1>2, <2>3, <2>4, <2>5, <3>1, <3>3, <4>1, <4>2
    <3>6. step'[n] # 3 /\ (step'[n] = 2 => n \in Path(c)) => step[n] # 3 /\ (step[n] = 2 => n \in Path(gcur))
      <4> SUFFICES ASSUME step'[n] # 3, step'[n] = 2 => n \in Path(c), step[n] = 2 PROVE n \in Path(gcur)
        BY <3>2
      <4>1. CASE n # gcur
        BY <1>1, <1>2, <4>1, TurnFacts
      <4> QED BY <1>2, <4>1, PathFacts
    <3> QED BY <2>2, <3>1, <3>2, <3>3, <3>4, <3>5, <3>6
  <2> QED BY <2>7, <2>8, <2>9, <2>10
<1>10. Path(gcur)' = Path(c)
  BY <1>1 DEF Path
<1> QED BY <1>2, <1>5, <1>8, <1>9, <1>10 DEF PhisGrow

-----------------------------------------------------------------------------
(* The invariant of the compiler                                           *)

GeneratorInductive == ResultInductive /\ PhiInductive

LEMMA PhiInitially == CompilerInit => PhiInductive
<1> SUFFICES ASSUME CompilerInit PROVE PhiInductive
  OBVIOUS
<1>1. /\ prog \in Programs /\ gcur = 1 /\ step = [n \in Node |-> 0] /\ ip = NoBlock /\ blocks = <<>>
      /\ phi = [n \in Node |-> {}] /\ keptBlock = [n \in Node |-> NoBlock]
  BY DEF CompilerInit, Init
<1>2. 1 \in Node /\ Path(1) = {1}
  BY <1>1, ProgramFacts DEF Path
<1>3. DOMAIN blocks = {} /\ NoBlock[2] = "none" /\ \A n \in Node : step[n] = 0
  BY <1>1 DEF NoBlock
<1>4. \A n \in Node : ~Forks(n) /\ ~Iterates(n) /\ ~Defines(n) /\ LabelsOf(n) = {} /\ ~Open(n)
  BY <1>3 DEF Forks, Iterates, Defines, LabelsOf, Open
<1>5. WalkInv
  <2>1. step \in [Node -> Nat]
    BY <1>1
  <2> QED BY <1>1, <1>2, <1>3, <2>1 DEF WalkInv, StepsAreTaken, WalkIsDown
<1>6. BlocksAreTheirs
  BY <1>1, <1>3, <1>4 DEF BlocksAreTheirs
<1>7. KeptAreTheirs
  BY <1>1, <1>3 DEF KeptAreTheirs
<1>8. LoopsAreSteered
  BY <1>1, <1>3, <1>4 DEF LoopsAreSteered, Steering
<1>9. FunctionsReturn /\ CodeIsInItsBranch
  BY <1>1, <1>2, <1>4 DEF FunctionsReturn, CodeIsInItsBranch
<1>10. PhisGrow
  <2>1. phi \in [Node -> SUBSET DOMAIN blocks]
    BY <1>1, <1>3
  <2> QED BY <1>1, <1>3, <2>1 DEF PhisGrow, Predecessors
<1> QED BY <1>1, <1>5, <1>6, <1>7, <1>8, <1>9, <1>10 DEF PhiInductive

\* A step that takes nobody further and leaves the code alone.
LEMMA PhiStays ==
  ASSUME PhiInductive, UNCHANGED <<prog, gcur, step, ip, blocks, phi, keptBlock>>
  PROVE  PhiInductive'
<1>1. /\ prog' = prog /\ gcur' = gcur /\ step' = step /\ ip' = ip /\ blocks' = blocks /\ phi' = phi
      /\ keptBlock' = keptBlock
  OBVIOUS
<1>2. /\ Node' = Node /\ BlockNames' = BlockNames /\ Block' = Block /\ NestedFunctions' = NestedFunctions
      /\ \A n : Kind(n)' = Kind(n) /\ Path(n)' = Path(n) /\ \A i : Child(n, i)' = Child(n, i)
  BY SameTree, SameOperands DEF Path
<1>3. WalkInv'
  BY WalkStays DEF PhiInductive
<1>4. \A n : /\ LabelsOf(n)' = LabelsOf(n) /\ Forks(n)' = Forks(n) /\ Iterates(n)' = Iterates(n)
             /\ Defines(n)' = Defines(n) /\ Open(n)' = Open(n) /\ After(n)' = After(n)
  BY SameLabels
<1>5. /\ \A n : FunctionAfter(n)' = FunctionAfter(n) /\ Barrier(n)' = Barrier(n) /\ Predecessors(n)' = Predecessors(n)
      /\ \A b : FunctionAt(b)' = FunctionAt(b)
      /\ \A n, i : Zone(n, i)' = Zone(n, i)
  BY <1>1, <1>2, <1>4 DEF FunctionAfter, Barrier, Predecessors, FunctionAt, Zone, NoBlock
<1>6. /\ FunctionAt(ip)' = FunctionAt(ip) /\ Path(gcur)' = Path(gcur)
      /\ \A n : FunctionAt(keptBlock[n])' = FunctionAt(keptBlock[n])
  BY <1>1, <1>2 DEF FunctionAt, Path, NoBlock
<1>7. /\ \A m, x : ClearAbove(m, x)' = ClearAbove(m, x) /\ ClearTo(m, x)' = ClearTo(m, x)
      /\ \A m : ClearTo(m, gcur)' = ClearTo(m, gcur)
  BY <1>1, <1>2, <1>5, <1>6 DEF ClearAbove, ClearTo
<1>8. BlocksAreTheirs'
  BY <1>1, <1>2, <1>4, <1>5 DEF PhiInductive, BlocksAreTheirs, NoBlock
<1>9. KeptAreTheirs' /\ LoopsAreSteered'
  BY <1>1, <1>2, <1>4 DEF PhiInductive, KeptAreTheirs, LoopsAreSteered, NoBlock
<1>10. FunctionsReturn'
  BY <1>1, <1>2, <1>4, <1>5, <1>6, <1>7 DEF PhiInductive, FunctionsReturn
<1>11. CodeIsInItsBranch'
  BY <1>1, <1>2, <1>4, <1>5, <1>6 DEF PhiInductive, CodeIsInItsBranch
<1>12. PhisGrow'
  BY <1>1, <1>2, <1>5, <1>6 DEF PhiInductive, PhisGrow
<1> QED BY <1>1, <1>3, <1>8, <1>9, <1>10, <1>11, <1>12 DEF PhiInductive

LEMMA PhiPreserved ==
  ASSUME GeneratorInductive, [CompilerNext]_<<vars, gvars>>
  PROVE  PhiInductive' /\ prog' = prog
<1>1. CASE UNCHANGED <<vars, gvars>>
  BY <1>1, PhiStays DEF GeneratorInductive, vars, gvars, code, kept
<1>2. CASE Next /\ UNCHANGED gvars
  <2>1. prog' = prog
    BY <1>2, NextResults, OthersStay DEF GeneratorInductive
  <2> QED BY <1>2, <2>1, PhiStays DEF GeneratorInductive, gvars, code, kept
<1>3. CASE Generate /\ UNCHANGED vars
  <2>1. prog' = prog
    BY <1>3 DEF vars
  <2>2. Moves
    BY <1>3, GenerateMoves DEF GeneratorInductive, PhiInductive
  <2>3. CASE Stays
    BY <2>1, <2>3, PhiStays DEF GeneratorInductive, Stays, Quietly
  <2>4. CASE Turns
    <3>1. PhiInductive
      BY DEF GeneratorInductive
    <3>2. WalkInv' /\ BlocksAreTheirs' /\ KeptAreTheirs' /\ LoopsAreSteered'
      BY <2>1, <2>4, <3>1, TurnFacts, TheirsAfter, KeptAfter, SteeredAfter DEF PhiInductive
    <3>3. FunctionsReturn' /\ CodeIsInItsBranch' /\ PhisGrow'
      BY <2>1, <2>4, <3>1, ReturnAfter, BranchesAfter, PhisAfter
    <3> QED BY <2>1, <3>1, <3>2, <3>3 DEF PhiInductive
  <2> QED BY <2>1, <2>2, <2>3, <2>4 DEF Moves
<1> QED BY <1>1, <1>2, <1>3 DEF CompilerNext

LEMMA GeneratorPreserved ==
  GeneratorInductive /\ [CompilerNext]_<<vars, gvars>> => GeneratorInductive'
<1> SUFFICES ASSUME GeneratorInductive, [CompilerNext]_<<vars, gvars>> PROVE GeneratorInductive'
  OBVIOUS
<1>1. [Next]_vars
  BY DEF CompilerNext
<1> QED BY <1>1, PhiPreserved, ResultsPreserved DEF GeneratorInductive

LEMMA GeneratorIsInductive == CompilerSpec => []GeneratorInductive
<1>1. CompilerInit => GeneratorInductive
  BY PhiInitially, ResultsInitially DEF GeneratorInductive, CompilerInit
<1> QED BY <1>1, GeneratorPreserved, PTL DEF CompilerSpec

\* The phi of an if, which main writes out and reads again, names the two blocks that
\* branch to its end and no other, and they are in the function of that end: however ifs,
\* loops and lambdas in the branches have moved the insertion point, bb_then and bb_else
\* are the blocks the branches ended in.
THEOREM PhisNameTheirBranches == CompilerSpec => []PhisMatchPredecessors
<1>1. GeneratorInductive => PhisMatchPredecessors
  <2> SUFFICES ASSUME GeneratorInductive, NEW n \in Node, phi[n] # {}
               PROVE  /\ phi[n] = {b \in DOMAIN blocks : <<n, "cont">> \in blocks[b].to}
                      /\ Cardinality(phi[n]) = 2
                      /\ \A b \in phi[n] : blocks[b].fn = blocks[<<n, "cont">>].fn
    BY DEF PhisMatchPredecessors
  <2>1. /\ phi[n] \subseteq DOMAIN blocks /\ Kind(n) = "if_expr" /\ step[n] = 3
        /\ FunctionAt(keptBlock[n]) = FunctionAfter(n) /\ NoBlock \notin DOMAIN blocks
    BY DEF GeneratorInductive, PhiInductive, PhisGrow, BlocksAreTheirs, BlockNames, Labels, NoBlock
  <2>2. PICK b \in DOMAIN blocks :
          /\ b # keptBlock[n] /\ phi[n] = {keptBlock[n], b} /\ Predecessors(n) = phi[n]
          /\ FunctionAt(b) = FunctionAfter(n)
    BY <2>1 DEF GeneratorInductive, PhiInductive, PhisGrow
  <2>3. Cardinality(phi[n]) = 2
    <3>1. IsFiniteSet({b}) /\ Cardinality({b}) = 1
      BY FS_Singleton
    <3>2. PICK k : k = keptBlock[n]
      OBVIOUS
    <3>3. Cardinality({b} \cup {k}) = Cardinality({b}) + 1
      BY <2>2, <3>1, <3>2, FS_AddElement
    <3>4. phi[n] = {b} \cup {k}
      BY <2>2, <3>2
    <3> QED BY <3>1, <3>3, <3>4
  <2>4. \A a \in phi[n] : FunctionAt(a) = blocks[a].fn
    BY <2>1 DEF FunctionAt
  <2>5. FunctionAfter(n) = blocks[<<n, "cont">>].fn
    BY <2>1 DEF FunctionAfter, After
  <2> QED BY <2>1, <2>2, <2>3, <2>4, <2>5 DEF Predecessors
<1> QED BY <1>1, GeneratorIsInductive, PTL

-----------------------------------------------------------------------------
(* The graph is complete                                                   *)

\* A plain program stays so to the end: what is wrong is never put right.
LEMMA PlainTurns ==
  ASSUME prog \in Programs, WalkInv, Turns, prog' = prog, faults \subseteq faults', Plainly'
  PROVE  Plainly /\ NestedFunctions = {} /\ TopExpressions = {} /\ (Returns => Kind(gcur) # "if_expr") /\ ~ElseFails
<1>1. /\ NestedFunctions' = NestedFunctions /\ TopExpressions' = TopExpressions /\ Node' = Node
      /\ \A n : Kind(n)' = Kind(n)
  BY SameTree, SameOperands
<1>2. NestedFunctions = {} /\ TopExpressions = {} /\ \A n \in Node : Kind(n) = "if_expr" => <<"null", n>> \notin faults'
  BY <1>1 DEF Plainly, Unfinished
<1> QED BY <1>2 DEF Plainly, Unfinished, Returns, ElseFails, WalkInv

LEMMA TargetsStay ==
  ASSUME prog \in Programs, WalkInv, BlocksAreTheirs, LoopsAreSteered, Turns, NEW b \in DOMAIN blocks
  PROVE  b \in DOMAIN blocks' /\ blocks[b].to \subseteq blocks'[b].to
<1>1. CASE (\E i : Passes(i)) \/ Returns
  BY <1>1 DEF Passes, Returns, Quietly
<1>2. CASE FunctionOpens
  BY <1>2, FunctionOpensBlocks DEF Keeps
<1>3. CASE FunctionCloses
  BY <1>3, FunctionClosesBlocks DEF Keeps
<1>4. CASE ThenBegins
  BY <1>4, ThenBeginsBlocks DEF Keeps
<1>5. CASE ElseBegins \/ ElseFails \/ BranchesMerge
  BY <1>5, BranchEndsBlocks DEF Keeps
<1>6. CASE IterationBegins
  BY <1>6, IterationBeginsBlocks DEF Keeps
<1>7. CASE LoopCloses
  <2>1. blocks[LoopBlock("update")].to \subseteq {LoopBlock("check")}
    <3>1. Iterates(gcur) /\ gcur \in Node
      BY <1>7 DEF LoopCloses, Iterates, WalkInv
    <3> QED BY <3>1 DEF LoopsAreSteered, LoopBlock
  <2> QED BY <1>7, <2>1, LoopClosesBlocks DEF Keeps
<1> QED BY <1>1, <1>2, <1>3, <1>4, <1>5, <1>6, <1>7 DEF Turns

\* Without functions in functions the insertion point is where an if or a loop goes on.
LEMMA HereAgain ==
  ASSUME PhiInductive, NestedFunctions = {}, Open(gcur)
  PROVE  FunctionAt(ip) = FunctionAfter(gcur)
<1>1. gcur \in Path(gcur) /\ Path(gcur) \subseteq Node /\ Len(prog) \in Nat /\ Node = 1 .. Len(prog) /\ gcur \in Node
  BY PathFacts, ProgramFacts DEF PhiInductive, WalkInv
<1>2. \A k \in Path(gcur) : gcur <= k => k = gcur
  <2>1. \A k \in Path(gcur) : k <= gcur
    BY <1>1 DEF Path
  <2> QED BY <1>1, <2>1
<1>3. ~Barrier(gcur)
  BY DEF Open, Forks, Iterates, Barrier, Defines, Callables, Loops
<1> QED BY <1>1, <1>2, <1>3 DEF PhiInductive, FunctionsReturn, ClearTo

LEMMA BranchesStayAfter ==
  ASSUME PhiInductive, BranchesStay, Turns, prog' = prog, faults \subseteq faults'
  PROVE  BranchesStay'
<1> SUFFICES ASSUME Plainly', NEW b \in DOMAIN blocks', NEW t \in blocks'[b].to
             PROVE  t \in DOMAIN blocks' /\ blocks'[t].fn = blocks'[b].fn
  BY DEF BranchesStay
<1>1. /\ prog \in Programs /\ WalkInv /\ BlocksAreTheirs /\ KeptAreTheirs /\ LoopsAreSteered
      /\ Plainly /\ NestedFunctions = {} /\ gcur \in Node
  BY PlainTurns DEF PhiInductive, WalkInv
<1>2. NoBlock \notin DOMAIN blocks
  BY <1>1 DEF BlocksAreTheirs, BlockNames, Labels, NoBlock
<1>3. \A a \in DOMAIN blocks : a \in DOMAIN blocks' /\ blocks'[a].fn = blocks[a].fn
  <2>1. PICK new : Keeps(new)
    BY <1>1, PlaceAfter
  <2> QED BY <2>1 DEF Keeps
<1>4. CASE b \in DOMAIN blocks /\ t \in blocks[b].to
  <2>1. t \in DOMAIN blocks /\ blocks[t].fn = blocks[b].fn
    BY <1>1, <1>4 DEF BranchesStay
  <2> QED BY <1>3, <1>4, <2>1
\* From where the handler of an if or a loop leaves off to one of its own blocks.
<1>5. ASSUME Open(gcur), NEW l \in LabelsOf(gcur), t = <<gcur, l>>,
             (b = ip /\ ip \in DOMAIN blocks) \/ \E k \in LabelsOf(gcur) : b = <<gcur, k>>
      PROVE  t \in DOMAIN blocks' /\ blocks'[t].fn = blocks'[b].fn
  <2>1. t \in DOMAIN blocks /\ blocks[t].fn = FunctionAfter(gcur)
    BY <1>1, <1>5, OpenFacts
  <2>2. b \in DOMAIN blocks /\ blocks[b].fn = FunctionAfter(gcur)
    <3>1. CASE b = ip /\ ip \in DOMAIN blocks
      <4>1. FunctionAt(ip) = FunctionAfter(gcur)
        BY <1>1, <1>5, HereAgain
      <4> QED BY <1>2, <3>1, <4>1 DEF FunctionAt
    <3>2. CASE \E k \in LabelsOf(gcur) : b = <<gcur, k>>
      BY <1>1, <1>5, <3>2, OpenFacts
    <3> QED BY <1>5, <3>1, <3>2
  <2> QED BY <1>3, <2>1, <2>2
<1>6. CASE b = ip /\ ip \in DOMAIN blocks /\ t = IfBlock("cont") /\ (ElseBegins \/ ElseFails \/ BranchesMerge)
  <2>1. Open(gcur) /\ "cont" \in LabelsOf(gcur)
    BY <1>6 DEF ElseBegins, ElseFails, BranchesMerge, Open, Forks, LabelsOf
  <2> QED BY <1>5, <1>6, <2>1 DEF IfBlock
<1>7. CASE b = ip /\ ip \in DOMAIN blocks /\ t \in {IfBlock("then"), IfBlock("else")} /\ ThenBegins
  BY <1>1, <1>3, <1>7, ThenBeginsBlocks DEF Keeps, NewBlock
<1>8. CASE IterationBegins /\ t \in {LoopBlock("check"), LoopBlock("loop"), LoopBlock("loopend")}
           /\ b \in {ip, LoopBlock("check")}
  <2>1. /\ ip \in DOMAIN blocks /\ CurrentFunction = blocks[ip].fn
        /\ {LoopBlock("check"), LoopBlock("loop"), LoopBlock("loopend")} \subseteq DOMAIN blocks'
        /\ blocks'[LoopBlock("loop")] = NewBlock(CurrentFunction) /\ blocks'[LoopBlock("loopend")] = NewBlock(CurrentFunction)
        /\ blocks'[LoopBlock("check")].fn = CurrentFunction
    BY <1>1, <1>8, IterationBeginsBlocks DEF Keeps
  <2> QED BY <1>3, <1>8, <2>1 DEF NewBlock
<1>9. CASE LoopCloses /\ b \in {ip, LoopBlock("update")} /\ t \in {LoopBlock("update"), LoopBlock("check")}
  <2>1. Iterates(gcur) /\ ~Forks(gcur) /\ ip \in DOMAIN blocks
    BY <1>1, <1>9, LoopClosesBlocks DEF LoopCloses, Iterates, Forks, Loops
  <2>2. LabelsOf(gcur) = {"check", "loop", "update", "loopend"} /\ Open(gcur)
    BY <2>1 DEF LabelsOf, Open
  <2> QED BY <1>5, <1>9, <2>1, <2>2 DEF LoopBlock
<1> QED BY <1>1, <1>4, <1>6, <1>7, <1>8, <1>9, TargetsAfter

\* What leaves the path with something of its own to come is an if that merges, or a loop.
LEMMA WhatLeaves ==
  ASSUME prog \in Programs, WalkInv, Turns, prog' = prog, faults \subseteq faults', Plainly',
         NEW n \in Path(gcur), n \notin Path(gcur'), Kind(n) \in Constructs
  PROVE  n = gcur /\ (FunctionCloses \/ BranchesMerge \/ LoopCloses)
<1>1. n = gcur
  BY TurnFacts DEF Constructs, Callables, Loops
<1>2. Ascend
  BY TurnsMove, TurnFacts
<1>3. ~Returns /\ ~ElseFails
  BY <1>1, PlainTurns DEF Returns, Constructs
<1>4. ~\E i : Descend(i)
  BY <1>1, TurnFacts
<1> QED BY <1>1, <1>3, <1>4 DEF Turns, Passes, FunctionOpens, ThenBegins, ElseBegins, IterationBegins

LEMMA ReachedAfter ==
  ASSUME PhiInductive, BlocksAreReached, Turns, prog' = prog, faults \subseteq faults'
  PROVE  BlocksAreReached'
<1> SUFFICES ASSUME Plainly', NEW b \in DOMAIN blocks'
             PROVE  b[2] = "entry" \/ Pending(b)' \/ \E a \in DOMAIN blocks' : b \in blocks'[a].to
  BY DEF BlocksAreReached
<1>1. /\ prog \in Programs /\ WalkInv /\ BlocksAreTheirs /\ KeptAreTheirs /\ LoopsAreSteered
      /\ Plainly /\ NestedFunctions = {} /\ gcur \in Node /\ step \in [Node -> Nat]
  BY PlainTurns DEF PhiInductive, WalkInv
<1>2. PICK c \in Node : c = gcur'
  BY ReturnFacts
<1>3. Pending(b)' <=> b[1] \in Path(c) /\ ((b[2] = "cont" /\ step'[b[1]] = 2) \/ b[2] = "update")
  BY <1>2 DEF Pending, Path
<1>4. (\E i : Descend(i)) => gcur \in Path(c) /\ \A n \in Path(gcur) : n \in Path(c)
  BY <1>1, <1>2, TurnFacts, PathFacts
<1>5. CASE b \in DOMAIN blocks
  <2>1. CASE \E a \in DOMAIN blocks : b \in blocks[a].to
    BY <1>1, <2>1, TargetsStay
  <2>2. CASE Pending(b)
    <3>1. PICK n \in Path(gcur), l \in Labels : b = <<n, l>> /\ ((l = "cont" /\ step[n] = 2) \/ l = "update") /\ n \in Node
      <4>1. b \in BlockNames
        BY <1>1, <1>5 DEF BlocksAreTheirs
      <4> QED BY <2>2, <4>1 DEF Pending, BlockNames
    <3>2. l \in LabelsOf(n)
      BY <1>1, <1>5, <3>1 DEF BlocksAreTheirs
    <3>3. (l = "cont" /\ Kind(n) = "if_expr") \/ (l = "update" /\ Kind(n) \in Loops)
      BY <3>1, <3>2 DEF LabelsOf, Forks, Iterates
    <3>4. CASE n \in Path(c) /\ (l = "cont" => step'[n] = 2)
      BY <1>3, <3>1, <3>4
    <3>5. CASE n \notin Path(c)
      <4>1. n = gcur /\ (FunctionCloses \/ BranchesMerge \/ LoopCloses)
        BY <1>1, <1>2, <3>3, <3>5, WhatLeaves DEF Constructs
      <4>2. ~FunctionCloses
        BY <3>3, <4>1 DEF FunctionCloses, Callables, Loops
      <4>3. ~BranchesMerge
        <5>1. BranchesMerge => Kind(n) = "if_expr" /\ step[n] = 3
          BY <4>1 DEF BranchesMerge
        <5>2. Kind(n) = "if_expr" => step[n] = 2
          BY <3>1, <3>3 DEF Loops
        <5> QED BY <5>1, <5>2
      <4>4. LoopCloses /\ Kind(n) \in Loops
        BY <4>1, <4>2, <4>3 DEF LoopCloses
      <4>5. b = LoopBlock("update")
        BY <3>1, <3>3, <4>1, <4>4 DEF LoopBlock, Loops
      <4>6. ip \in DOMAIN blocks /\ blocks'[ip].to = blocks[ip].to \cup {LoopBlock("update")} /\ ip \in DOMAIN blocks'
        BY <1>1, <4>4, LoopClosesBlocks DEF Keeps
      <4> QED BY <4>5, <4>6
    <3>6. CASE n \in Path(c) /\ l = "cont" /\ step'[n] # 2
      <4>1. n = gcur /\ step[n] = 2 /\ Kind(n) = "if_expr"
        BY <1>1, <3>1, <3>3, <3>6, TurnFacts
      <4>2. PICK i : Descend(i)
        BY <1>1, <3>1, <3>6, <4>1, TurnsMove DEF Ascend
      <4>3. ~Passes(i) /\ \A j : ~Passes(j)
        BY <1>1, <4>1 DEF Passes, Descend, Constructs
      <4>4. ~Ascend
        BY <1>1, <4>1, <3>6 DEF Ascend
      <4>5. ElseBegins
        BY <4>1, <4>3, <4>4 DEF Turns, Returns, FunctionOpens, FunctionCloses, ThenBegins, ElseFails, BranchesMerge,
           IterationBegins, LoopCloses, Callables, Loops
      <4>6. ip \in DOMAIN blocks /\ blocks'[ip].to = blocks[ip].to \cup {IfBlock("cont")} /\ ip \in DOMAIN blocks'
        BY <1>1, <4>5, BranchEndsBlocks DEF Keeps
      <4> QED BY <3>1, <3>6, <4>1, <4>6 DEF IfBlock
    <3> QED BY <3>1, <3>4, <3>5, <3>6
  <2> QED BY <1>1, <1>5, <2>1, <2>2 DEF BlocksAreReached
<1>6. CASE b \notin DOMAIN blocks
  <2>1. Creates /\ b \in MadeBlocks
    BY <1>1, <1>6, PlaceAfter DEF Keeps
  <2>2. CASE FunctionOpens
    <3>1. NewLabels = {"entry"}
      BY <1>1, <2>2, LabelsAfter
    <3> QED BY <2>1, <3>1 DEF MadeBlocks
  <2>3. CASE ThenBegins
    <3>1. NewLabels = {"then", "else", "cont"}
      BY <1>1, <2>3, LabelsAfter
    <3>2. /\ ip \in DOMAIN blocks /\ ip \in DOMAIN blocks'
          /\ blocks'[ip].to = blocks[ip].to \cup {IfBlock("then"), IfBlock("else")}
      BY <1>1, <2>3, ThenBeginsBlocks DEF Keeps
    <3>3. step'[gcur] = 2 /\ gcur \in Path(c)
      BY <1>1, <1>4, <2>3 DEF ThenBegins, Descend
    <3> QED BY <1>3, <2>1, <3>1, <3>2, <3>3 DEF MadeBlocks, IfBlock
  <2>4. CASE IterationBegins
    <3>1. NewLabels = {"check", "loop", "update", "loopend"}
      BY <1>1, <2>4, LabelsAfter
    <3>2. /\ ip \in DOMAIN blocks /\ ip \in DOMAIN blocks' /\ LoopBlock("check") \in DOMAIN blocks'
          /\ blocks'[ip].to = blocks[ip].to \cup {LoopBlock("check")}
          /\ blocks'[LoopBlock("check")].to = {LoopBlock("loop"), LoopBlock("loopend")}
      BY <1>1, <2>4, IterationBeginsBlocks DEF Keeps
    <3>3. gcur \in Path(c)
      BY <1>4, <2>4 DEF IterationBegins
    <3> QED BY <1>3, <2>1, <3>1, <3>2, <3>3 DEF MadeBlocks, LoopBlock
  <2> QED BY <2>1, <2>2, <2>3, <2>4 DEF Creates
<1> QED BY <1>5, <1>6

LEMMA EndsStay ==
  ASSUME prog \in Programs, WalkInv, BlocksAreTheirs, LoopsAreSteered, Turns, NEW b \in DOMAIN blocks
  PROVE  /\ b \in DOMAIN blocks' /\ (blocks[b].done => blocks'[b].done)
         /\ b = ip => \/ blocks'[b].done
                      \/ (\E i : Passes(i)) \/ Returns \/ FunctionOpens
<1>1. CASE (\E i : Passes(i)) \/ Returns
  BY <1>1 DEF Passes, Returns, Quietly
<1>2. CASE FunctionOpens
  BY <1>2, FunctionOpensBlocks DEF Keeps
<1>3. CASE FunctionCloses
  BY <1>3, FunctionClosesBlocks DEF Keeps
<1>4. CASE ThenBegins
  BY <1>4, ThenBeginsBlocks DEF Keeps
<1>5. CASE ElseBegins \/ ElseFails \/ BranchesMerge
  BY <1>5, BranchEndsBlocks DEF Keeps
<1>6. CASE IterationBegins
  BY <1>6, IterationBeginsBlocks DEF Keeps
<1>7. CASE LoopCloses
  BY <1>7, LoopClosesBlocks DEF Keeps
<1> QED BY <1>1, <1>2, <1>3, <1>4, <1>5, <1>6, <1>7 DEF Turns

LEMMA EndAfter ==
  ASSUME PhiInductive, BlocksEnd, OutsideIsEnded, Turns, prog' = prog, faults \subseteq faults'
  PROVE  BlocksEnd'
<1> SUFFICES ASSUME Plainly', NEW b \in DOMAIN blocks', ~blocks'[b].done
             PROVE  Unended(b)'
  BY DEF BlocksEnd
<1>1. /\ prog \in Programs /\ WalkInv /\ BlocksAreTheirs /\ KeptAreTheirs /\ LoopsAreSteered
      /\ Plainly /\ NestedFunctions = {} /\ gcur \in Node /\ step \in [Node -> Nat]
      /\ keptBlock \in [Node -> DOMAIN blocks \cup {NoBlock}] /\ Path(gcur) \subseteq Node /\ gcur \in Path(gcur)
  BY PlainTurns, PathFacts DEF PhiInductive, WalkInv, KeptAreTheirs
<1>2. PICK c \in Node : c = gcur'
  BY ReturnFacts
<1>3. Unended(b)' <=>
        \/ b = ip'
        \/ \E x \in Path(c) : Kind(x) = "lambda" /\ step'[x] = 1 /\ b = keptBlock'[x]
        \/ b[1] \in Path(c) /\ ((b[2] = "else" /\ step'[b[1]] = 2) \/ b[2] \in {"cont", "update", "loopend"})
  <2>1. Path(gcur)' = Path(c) /\ \A n : Kind(n)' = Kind(n)
    BY <1>2, SameTree DEF Path
  <2> QED BY <2>1 DEF Unended
<1>4. (\E i : Descend(i)) => gcur \in Path(c)
  BY <1>1, <1>2, TurnFacts
<1>5. CASE b \in DOMAIN blocks
  <2>1. ~blocks[b].done /\ Unended(b)
    BY <1>1, <1>5, EndsStay DEF BlocksEnd
  <2>2. CASE b = ip
    <3>1. CASE FunctionOpens
      <4>1. /\ Kind(gcur) \in Callables /\ step[gcur] = 0 /\ step'[gcur] = 1 /\ gcur \in Path(c)
            /\ keptBlock' = [keptBlock EXCEPT ![gcur] = IF Kind(gcur) = "lambda" THEN ip ELSE @]
        BY <1>1, <1>4, <3>1 DEF FunctionOpens, Descend
      <4>2. CASE Kind(gcur) = "lambda"
        BY <1>1, <1>3, <2>2, <4>1, <4>2
      <4>3. CASE Kind(gcur) = "function_definition"
        <5>1. Parent(gcur) = 1
          BY <1>1, <4>3 DEF NestedFunctions
        <5>2. ip = NoBlock \/ blocks[ip].done
          BY <1>1, <4>1, <5>1 DEF OutsideIsEnded
        <5>3. NoBlock \notin DOMAIN blocks
          BY <1>1 DEF BlocksAreTheirs, BlockNames, Labels, NoBlock
        <5> QED BY <1>5, <2>1, <2>2, <5>2, <5>3
      <4> QED BY <4>1, <4>2, <4>3 DEF Callables
    <3>2. CASE (\E i : Passes(i)) \/ Returns
      BY <1>3, <2>2, <3>2 DEF Passes, Returns, Quietly
    <3> QED BY <1>1, <1>5, <2>2, <3>1, <3>2, EndsStay
  <2>3. CASE \E x \in Path(gcur) : Kind(x) = "lambda" /\ step[x] = 1 /\ b = keptBlock[x]
    <3>1. PICK x \in Path(gcur) : Kind(x) = "lambda" /\ step[x] = 1 /\ b = keptBlock[x]
      BY <2>3
    <3>2. x \in Node /\ Kind(x) \in Constructs
      BY <1>1, <3>1 DEF Constructs, Callables
    <3>3. CASE x \in Path(c)
      <4>1. x # gcur
        <5> SUFFICES ASSUME x = gcur PROVE FALSE
          OBVIOUS
        <5>1. ~Ascend
          BY <1>1, <1>2, <3>3, TurnFacts
        <5>2. Kind(gcur) \in Callables /\ Kind(gcur) \notin Loops /\ Kind(gcur) # "if_expr" /\ step[gcur] = 1
          BY <3>1 DEF Callables, Loops
        <5> QED BY <5>1, <5>2 DEF Turns, Passes, Returns, FunctionOpens, FunctionCloses, ThenBegins, ElseBegins,
                                  ElseFails, BranchesMerge, IterationBegins, LoopCloses
      <4>2. step'[x] = step[x] /\ keptBlock'[x] = keptBlock[x]
        BY <1>1, <3>2, <4>1, TurnFacts, KeptStays
      <4> QED BY <1>3, <3>1, <3>3, <4>2
    <3>4. CASE x \notin Path(c)
      <4>1. x = gcur /\ (FunctionCloses \/ BranchesMerge \/ LoopCloses)
        BY <1>1, <1>2, <3>2, <3>4, WhatLeaves
      <4>2. ip' = keptBlock[x]
        BY <3>1, <4>1 DEF FunctionCloses, BranchesMerge, LoopCloses, Loops
      <4> QED BY <1>3, <3>1, <4>2
    <3> QED BY <3>3, <3>4
  <2>4. CASE b[1] \in Path(gcur) /\ ((b[2] = "else" /\ step[b[1]] = 2) \/ b[2] \in {"cont", "update", "loopend"})
    <3>1. PICK n \in Path(gcur), l \in Labels :
            b = <<n, l>> /\ ((l = "else" /\ step[n] = 2) \/ l \in {"cont", "update", "loopend"}) /\ n \in Node
      <4>1. b \in BlockNames
        BY <1>1, <1>5 DEF BlocksAreTheirs
      <4> QED BY <2>4, <4>1 DEF BlockNames
    <3>2. l \in LabelsOf(n)
      BY <1>1, <1>5, <3>1 DEF BlocksAreTheirs
    <3>3. (l \in {"else", "cont"} /\ Kind(n) = "if_expr") \/ (l \in {"update", "loopend"} /\ Kind(n) \in Loops)
      BY <3>1, <3>2 DEF LabelsOf, Forks, Iterates
    <3>4. CASE n \in Path(c) /\ (l = "else" => step'[n] = 2)
      BY <1>3, <3>1, <3>4
    <3>5. CASE n \notin Path(c)
      <4>1. n = gcur /\ (FunctionCloses \/ BranchesMerge \/ LoopCloses)
        BY <1>1, <1>2, <3>3, <3>5, WhatLeaves DEF Constructs
      <4>2. CASE BranchesMerge
        <5>1. l = "cont" /\ ip' = <<gcur, "cont">>
          BY <3>1, <3>3, <4>1, <4>2 DEF BranchesMerge, Loops, IfBlock
        <5> QED BY <1>3, <3>1, <4>1, <5>1
      <4>3. CASE LoopCloses
        <5>1. l \in {"update", "loopend"} /\ ip' = LoopBlock("loopend")
          BY <3>3, <4>1, <4>3 DEF LoopCloses, Loops
        <5>2. blocks'[LoopBlock("update")].done
          BY <1>1, <4>3, LoopClosesBlocks
        <5> QED BY <1>3, <3>1, <4>1, <5>1, <5>2 DEF LoopBlock
      <4>4. ~FunctionCloses
        BY <3>3, <4>1 DEF FunctionCloses, Callables, Loops
      <4> QED BY <4>1, <4>2, <4>3, <4>4
    <3>6. CASE n \in Path(c) /\ l = "else" /\ step'[n] # 2
      <4>1. n = gcur /\ step[n] = 2 /\ Kind(n) = "if_expr"
        BY <1>1, <3>1, <3>3, <3>6, TurnFacts
      <4>2. \A j : ~Passes(j)
        BY <1>1, <4>1 DEF Passes, Descend, Constructs
      <4>3. ~Ascend
        BY <1>1, <4>1, <3>6 DEF Ascend
      <4>4. ElseBegins
        BY <4>1, <4>2, <4>3 DEF Turns, Returns, FunctionOpens, FunctionCloses, ThenBegins, ElseFails, BranchesMerge,
           IterationBegins, LoopCloses, Callables, Loops
      <4> QED BY <1>3, <3>1, <3>6, <4>1, <4>4 DEF ElseBegins, IfBlock
    <3> QED BY <3>4, <3>5, <3>6
  <2> QED BY <2>1, <2>2, <2>3, <2>4 DEF Unended
<1>6. CASE b \notin DOMAIN blocks
  <2>1. Creates /\ b \in MadeBlocks
    BY <1>1, <1>6, PlaceAfter DEF Keeps
  <2>2. CASE FunctionOpens
    <3>1. NewLabels = {"entry"} /\ ip' = Entry(gcur)
      BY <1>1, <2>2, LabelsAfter DEF FunctionOpens
    <3> QED BY <1>3, <2>1, <3>1 DEF MadeBlocks, Entry
  <2>3. CASE ThenBegins
    <3>1. NewLabels = {"then", "else", "cont"} /\ ip' = IfBlock("then")
      BY <1>1, <2>3, LabelsAfter DEF ThenBegins
    <3>2. step'[gcur] = 2 /\ gcur \in Path(c)
      BY <1>1, <1>4, <2>3 DEF ThenBegins, Descend
    <3> QED BY <1>3, <2>1, <3>1, <3>2 DEF MadeBlocks, IfBlock
  <2>4. CASE IterationBegins
    <3>1. NewLabels = {"check", "loop", "update", "loopend"} /\ ip' = LoopBlock("loop")
      BY <1>1, <2>4, LabelsAfter DEF IterationBegins
    <3>2. blocks'[LoopBlock("check")].done
      BY <1>1, <2>4, IterationBeginsBlocks
    <3>3. gcur \in Path(c)
      BY <1>4, <2>4 DEF IterationBegins
    <3> QED BY <1>3, <2>1, <3>1, <3>2, <3>3 DEF MadeBlocks, LoopBlock
  <2> QED BY <2>1, <2>2, <2>3, <2>4 DEF Creates
<1> QED BY <1>5, <1>6

\* Between the definitions of a program no block is open.
LEMMA OutsideAfter ==
  ASSUME PhiInductive, OutsideIsEnded, GlobalsAreDeclared, Turns, prog' = prog, faults \subseteq faults'
  PROVE  OutsideIsEnded'
<1>1. PICK c \in Node : c = gcur'
  BY ReturnFacts
<1>2. \A n : Parent(n)' = Parent(n)
  BY SameTree
<1> SUFFICES ASSUME Plainly', c = 1 \/ (Parent(c) = 1 /\ step'[c] = 0)
             PROVE  ip' = NoBlock \/ blocks'[ip'].done
  BY <1>1, <1>2 DEF OutsideIsEnded, NoBlock, Parent
<1>3. /\ prog \in Programs /\ WalkInv /\ BlocksAreTheirs /\ KeptAreTheirs /\ LoopsAreSteered
      /\ Plainly /\ NestedFunctions = {} /\ TopExpressions = {} /\ gcur \in Node
      /\ Kind(1) = "root" /\ 1 \in Node
  BY PlainTurns, ProgramFacts DEF PhiInductive, WalkInv
<1>4. CASE \E i : Descend(i)
  <2>1. c # 1 /\ Handler(c) = gcur
    BY <1>1, <1>3, <1>4, OperandIsNew
  <2>2. gcur = 1
    BY <1>3, <2>1 DEF Handler
  <2>3. ip' = ip /\ blocks' = blocks
    <3>1. Kind(gcur) \notin Callables \cup Loops \cup {"if_expr"}
      BY <1>3, <2>2 DEF Callables, Loops
    <3> QED BY <3>1 DEF Turns, Passes, Returns, Quietly, FunctionOpens, FunctionCloses, ThenBegins, ElseBegins,
                        ElseFails, BranchesMerge, IterationBegins, LoopCloses
  <2> QED BY <1>3, <2>2, <2>3 DEF OutsideIsEnded
<1>5. CASE Ascend
  <2>1. gcur # 1 /\ c = Handler(gcur) /\ step' = step
    BY <1>1, <1>5 DEF Ascend
  <2>2. step[c] # 0
    <3>1. c \in Path(gcur) /\ c # gcur /\ Kind(c) # "iterator_definition"
      BY <1>3, <2>1, HandlerOf, OperandPath
    <3> QED BY <1>3, <3>1, InProgress
  <2>3. c = 1
    BY <2>1, <2>2
  <2>4. Parent(gcur) = 1
    <3>1. CASE Kind(Parent(gcur)) # "iterator_definition"
      BY <2>1, <2>3, <3>1 DEF Handler
    <3>2. CASE Kind(Parent(gcur)) = "iterator_definition"
      <4>1. Parent(gcur) \in Node /\ Parent(Parent(gcur)) = 1
        BY <1>3, <2>1, <2>3, <3>2, ProgramFacts DEF Handler
      <4>2. Kind(1) \in Loops
        BY <1>3, <3>2, <4>1, IteratorShape
      <4> QED BY <1>3, <4>2 DEF Loops
    <3> QED BY <3>1, <3>2
  <2>5. Kind(gcur) \in DefinitionKinds
    BY <1>3, <2>1, <2>4 DEF TopExpressions
  <2>6. CASE Kind(gcur) = "function_definition"
    <3>1. FunctionCloses
      <4>1. ~\E i : Descend(i)
        BY <1>3, <1>5, TurnFacts, PathFacts
      <4> QED BY <2>6, <4>1 DEF Turns, Passes, Returns, FunctionOpens, ThenBegins, ElseBegins,
                                ElseFails, BranchesMerge, IterationBegins, LoopCloses, Callables, Loops
    <3>2. ip' = ip /\ ip \in DOMAIN blocks /\ blocks'[ip].done
      BY <1>3, <2>6, <3>1, FunctionClosesBlocks DEF FunctionCloses
    <3> QED BY <3>2
  <2>7. CASE Kind(gcur) # "function_definition"
    <3>1. Kind(gcur) \notin Callables \cup Loops \cup {"if_expr"}
      BY <2>5, <2>7 DEF DefinitionKinds, VariableKinds, FunctionKinds, Callables, Loops
    <3>2. ip' = ip /\ blocks' = blocks
      BY <3>1 DEF Turns, Passes, Returns, Quietly, FunctionOpens, FunctionCloses, ThenBegins, ElseBegins,
                  ElseFails, BranchesMerge, IterationBegins, LoopCloses
    <3>3. step[gcur] = 0
      <4>1. CASE Kind(gcur) = "variable_definition"
        BY <1>3, <2>4, <4>1 DEF GlobalsAreDeclared
      <4>2. CASE Kind(gcur) # "variable_definition"
        <5>1. Kind(gcur) \notin Visiting
          BY <2>5, <2>7, <4>2 DEF DefinitionKinds, VariableKinds, FunctionKinds, Visiting, Plain, Operators,
             Statements, Constructs, Callables, Loops
        <5> QED BY <1>3, <5>1 DEF WalkInv, StepsAreTaken
      <4> QED BY <4>1, <4>2
    <3> QED BY <1>3, <2>4, <3>2, <3>3 DEF OutsideIsEnded
  <2> QED BY <2>6, <2>7
<1> QED BY <1>3, <1>4, <1>5, TurnsMove

\* What is defined at the top of a program is defined in the global scope.
LEMMA TopIsGlobal ==
  ASSUME ResultInductive, NEW n \in Node, Parent(n) = 1
  PROVE  IsGlobal(n)
<1>1. scopeOf[1] = 1 /\ ScopesLeadOutwards /\ prog \in Programs
  BY DEF ResultInductive, LexicalInductive, WalkInductive, Inductive, Bookkeeping
<1>2. 1 \in Node /\ Path(1) = {1}
  BY <1>1, ProgramFacts DEF Path
<1>3. chain[1] = {1}
  BY <1>1, <1>2 DEF ScopesLeadOutwards
<1> QED BY <1>1, <1>3 DEF IsGlobal

LEMMA GlobalsAfter ==
  ASSUME ResultInductive, PhiInductive, GlobalsAreDeclared, Turns, prog' = prog
  PROVE  GlobalsAreDeclared'
<1>1. Node' = Node /\ \A n : Kind(n)' = Kind(n) /\ Parent(n)' = Parent(n)
  BY SameTree
<1> SUFFICES ASSUME NEW n \in Node, Kind(n) = "variable_definition", Parent(n) = 1 PROVE step'[n] = 0
  BY <1>1 DEF GlobalsAreDeclared
<1>2. step[n] = 0 /\ prog \in Programs /\ WalkInv
  BY DEF GlobalsAreDeclared, PhiInductive
<1>3. CASE n # gcur \/ Ascend
  BY <1>2, <1>3, TurnFacts
<1>4. CASE n = gcur /\ ~Ascend
  <2>1. \E i : Passes(i)
    BY <1>4 DEF Turns, Returns, FunctionOpens, FunctionCloses, ThenBegins, ElseBegins, ElseFails, BranchesMerge,
       IterationBegins, LoopCloses, Callables, Loops
  <2> QED BY <1>4, <2>1, TopIsGlobal DEF Passes
<1> QED BY <1>3, <1>4

CompleteInv ==
  /\ BranchesStay /\ BlocksAreReached /\ BlocksEnd /\ OutsideIsEnded
  /\ GlobalsAreDeclared /\ EndsAtTheRoot
CompleteInductive == GeneratorInductive /\ CompleteInv

LEMMA CompleteInitially == CompilerInit => CompleteInv
<1> SUFFICES ASSUME CompilerInit PROVE CompleteInv
  OBVIOUS
<1>1. gcur = 1 /\ ip = NoBlock /\ blocks = <<>> /\ step = [n \in Node |-> 0] /\ result = "generating"
  BY DEF CompilerInit
<1>2. DOMAIN blocks = {}
  BY <1>1
<1>3. BranchesStay /\ BlocksAreReached /\ BlocksEnd
  BY <1>2 DEF BranchesStay, BlocksAreReached, BlocksEnd
<1>4. OutsideIsEnded /\ GlobalsAreDeclared /\ EndsAtTheRoot
  BY <1>1 DEF OutsideIsEnded, GlobalsAreDeclared, EndsAtTheRoot
<1> QED BY <1>3, <1>4 DEF CompleteInv

LEMMA CompleteStays ==
  ASSUME CompleteInv, UNCHANGED <<prog, gcur, step, ip, blocks, keptBlock>>, faults \subseteq faults',
         result' \in {"ok", "failed"} => result \in {"ok", "failed"} \/ gcur = 1
  PROVE  CompleteInv'
<1>1. /\ prog' = prog /\ gcur' = gcur /\ step' = step /\ ip' = ip /\ blocks' = blocks /\ keptBlock' = keptBlock
  OBVIOUS
<1>2. /\ Node' = Node /\ NestedFunctions' = NestedFunctions /\ TopExpressions' = TopExpressions /\ NoBlock' = NoBlock
      /\ Path(gcur)' = Path(gcur) /\ Parent(gcur)' = Parent(gcur)
      /\ \A n : Kind(n)' = Kind(n) /\ Parent(n)' = Parent(n)
  BY SameTree, SameOperands DEF Path, Parent, NoBlock
<1>3. Plainly' => Plainly
  <2>1. \A n \in Node : <<"null", n>> \in faults => <<"null", n>> \in faults'
    OBVIOUS
  <2> QED BY <1>2, <2>1 DEF Plainly, Unfinished
<1>4. \A b : Pending(b)' = Pending(b) /\ Unended(b)' = Unended(b)
  BY <1>1, <1>2 DEF Pending, Unended
<1>5. BranchesStay' /\ BlocksAreReached' /\ BlocksEnd'
  BY <1>1, <1>3, <1>4 DEF CompleteInv, BranchesStay, BlocksAreReached, BlocksEnd
<1>6. OutsideIsEnded'
  BY <1>1, <1>2, <1>3 DEF CompleteInv, OutsideIsEnded
<1>7. GlobalsAreDeclared' /\ EndsAtTheRoot'
  BY <1>1, <1>2 DEF CompleteInv, GlobalsAreDeclared, EndsAtTheRoot
<1> QED BY <1>5, <1>6, <1>7 DEF CompleteInv

LEMMA CompletePreserved ==
  CompleteInductive /\ [CompilerNext]_<<vars, gvars>> => CompleteInductive'
<1> SUFFICES ASSUME CompleteInductive, [CompilerNext]_<<vars, gvars>> PROVE CompleteInductive'
  OBVIOUS
<1>1. GeneratorInductive /\ CompleteInv /\ GeneratorInductive' /\ prog' = prog /\ ResultInductive /\ PhiInductive
  BY GeneratorPreserved, PhiPreserved DEF CompleteInductive, GeneratorInductive
<1>2. CASE UNCHANGED gvars
  <2>1. UNCHANGED <<gcur, step, ip, blocks, keptBlock, faults, result>>
    BY <1>2 DEF gvars, code, kept
  <2> QED BY <1>1, <2>1, CompleteStays DEF CompleteInductive
<1>3. CASE Generate
  <2>1. Moves
    BY <1>1, <1>3, GenerateMoves DEF PhiInductive
  <2>2. CASE Stays
    BY <1>1, <2>1, <2>2, CompleteStays DEF Stays, Quietly, Moves, CompleteInductive
  <2>3. CASE Turns /\ UNCHANGED result
    <3>1. faults \subseteq faults' /\ EndsAtTheRoot'
      BY <2>1, <2>3 DEF Moves, EndsAtTheRoot
    <3>2. BranchesStay' /\ BlocksAreReached' /\ BlocksEnd' /\ OutsideIsEnded' /\ GlobalsAreDeclared'
      BY <1>1, <2>3, <3>1, BranchesStayAfter, ReachedAfter, EndAfter, OutsideAfter, GlobalsAfter DEF CompleteInv
    <3> QED BY <1>1, <3>1, <3>2 DEF CompleteInductive, CompleteInv
  <2> QED BY <2>1, <2>2, <2>3 DEF Moves
<1> QED BY <1>2, <1>3 DEF CompilerNext, gvars

\* What the generator has emitted when it is done is a graph per function: every block
\* ends, its branches lead to blocks of its own function, and something leads to it.  It
\* holds of every program, rejected operators and calls without a callee included, with
\* three exceptions: functions in functions, which leave the insertion point behind them;
\* expressions between functions, which go after an end; and ifs that are left half done.
THEOREM GeneratedCodeIsComplete == CompilerSpec => []BlocksAreComplete
<1>1. CompilerInit => CompleteInductive
  BY PhiInitially, ResultsInitially, CompleteInitially DEF GeneratorInductive, CompilerInit, CompleteInductive
<1>2. CompleteInductive => BlocksAreComplete
  <2> SUFFICES ASSUME CompleteInductive, result \in {"ok", "failed"},
                      NestedFunctions \cup TopExpressions \cup Unfinished = {}, NEW b \in DOMAIN blocks
               PROVE  /\ blocks[b].done
                      /\ \A t \in blocks[b].to : t \in DOMAIN blocks /\ blocks[t].fn = blocks[b].fn
                      /\ b[2] = "entry" \/ \E a \in DOMAIN blocks : b \in blocks[a].to
    BY DEF BlocksAreComplete
  <2>1. Plainly /\ gcur = 1 /\ CompleteInv /\ PhiInductive
    BY DEF Plainly, CompleteInductive, CompleteInv, EndsAtTheRoot, GeneratorInductive
  <2>2. /\ Path(1) = {1} /\ Kind(1) = "root" /\ 1 \in Node /\ b \in BlockNames /\ NoBlock \notin DOMAIN blocks
    BY <2>1, ProgramFacts DEF Path, PhiInductive, BlocksAreTheirs, BlockNames, Labels, NoBlock
  <2>3. b[1] \notin Path(1)
    <3>1. LabelsOf(1) = {}
      BY <2>2 DEF LabelsOf, Forks, Iterates, Defines, Callables, Loops
    <3>2. \A l \in Labels : <<1, l>> \notin DOMAIN blocks
      BY <2>1, <2>2, <3>1 DEF PhiInductive, BlocksAreTheirs
    <3> QED BY <2>2, <3>2 DEF BlockNames
  <2>4. blocks[b].done
    <3>1. blocks[b].done \/ b = ip
      BY <2>1, <2>2, <2>3 DEF CompleteInv, BlocksEnd, Unended
    <3>2. ip = NoBlock \/ blocks[ip].done
      BY <2>1 DEF CompleteInv, OutsideIsEnded
    <3> QED BY <2>2, <3>1, <3>2
  <2>5. \A t \in blocks[b].to : t \in DOMAIN blocks /\ blocks[t].fn = blocks[b].fn
    BY <2>1 DEF CompleteInv, BranchesStay
  <2>6. b[2] = "entry" \/ \E a \in DOMAIN blocks : b \in blocks[a].to
    BY <2>1, <2>3 DEF CompleteInv, BlocksAreReached, Pending
  <2> QED BY <2>4, <2>5, <2>6
<1> QED BY <1>1, <1>2, CompletePreserved, PTL DEF CompilerSpec
-----------------------------------------------------------------------------
(* What handlers return                                                    *)

\* A value of a low type, which null is not.
TypedValue == [ty : LowTypes, def : MaybeNode, fn : MaybeNode]

\* What CodegenTypeOK says besides the blocks.
SymbolsInv == \A x \in DOMAIN symbol : symbol[x] \in Node /\ Name(symbol[x]) = x
ValuesInv ==
  /\ value \in [Node -> Value] /\ keptValue \in [Node -> Value]
  /\ DOMAIN named \subseteq {Name(n) : n \in Node} /\ \A x \in DOMAIN named : named[x] \in Value
  /\ slot \in [Node -> LowTypes] /\ maps \subseteq Node
  /\ SymbolsInv
  /\ faults \subseteq FaultKinds \X Node /\ result \in Results \cup {"generating"}

OutcomeTyped(o) == o.v \in Value \cup {Dead} /\ o.wrong \subseteq FaultKinds

\* Every type has a low type, that of what has none in LLVM is "none".
LEMMA LowTypesAreLow ==
  /\ \A t : LowType(t) \in LowTypes /\ ListKind(t) \in LowTypes
  /\ \A t : Implemented(t) => ListKind(t) \in ListTypes
<1>1. \A t : LowType(t) \in LowTypes
  BY DEF LowType, LowTypes, Pointers, ListTypes
<1> QED BY <1>1 DEF ListKind, Implemented, LowTypes

\* What is emitted at the insertion point is a value in its function.
LEMMA InstructionsAreTyped ==
  ASSUME prog \in Programs, BlocksAreTheirs
  PROVE  /\ CurrentFunction \in MaybeNode
         /\ \A ty \in LowTypes : \A d \in MaybeNode : Of(ty, d) \in TypedValue
         /\ \A ty \in LowTypes : Instruction(ty) \in TypedValue /\ Constant(ty) \in TypedValue
         /\ TypedValue \subseteq Value /\ NullValue \in Value /\ NullValue \notin TypedValue
         /\ \A v \in TypedValue : v.ty \in LowTypes
         /\ Late \subseteq FaultKinds
<1>1. CurrentFunction \in MaybeNode
  <2>1. CASE ip = NoBlock
    BY <2>1 DEF CurrentFunction, MaybeNode
  <2>2. CASE ip # NoBlock
    <3>1. ip \in DOMAIN blocks /\ blocks[ip] \in Block
      BY <2>2 DEF BlocksAreTheirs
    <3>2. blocks[ip].fn \in Node
      BY <3>1 DEF Block
    <3> QED BY <2>2, <3>2 DEF CurrentFunction, MaybeNode
  <2> QED BY <2>1, <2>2
<1>2. \A ty \in LowTypes : \A d \in MaybeNode : Of(ty, d) \in TypedValue
  BY <1>1 DEF Of, TypedValue
<1>3. \A ty \in LowTypes : Instruction(ty) \in TypedValue /\ Constant(ty) \in TypedValue
  BY <1>2 DEF Instruction, Constant, TypedValue, MaybeNode
<1>4. TypedValue \subseteq Value /\ NullValue \in Value
  BY DEF Value, TypedValue
<1>5. NullValue \notin TypedValue
  BY DEF NullValue, Failed, TypedValue, LowTypes, Pointers, ListTypes
<1>6. Late \subseteq FaultKinds
  BY DEF Late, Unless, FaultKinds
<1> QED BY <1>1, <1>2, <1>3, <1>4, <1>5, <1>6 DEF TypedValue

LEMMA CoercionsAreTyped ==
  ASSUME prog \in Programs, BlocksAreTheirs, NEW v \in Value \cup {Dead}, NEW from, NEW to \in Convertible
  PROVE  Coerce(v, from, to) \in Value \cup {Dead}
<1>1. Cast(v, LowType(Scalar(to))) \in Value \cup {Dead}
  BY LowTypesAreLow, InstructionsAreTyped DEF Cast
<1> QED BY <1>1, InstructionsAreTyped DEF Coerce

LEMMA ConversionsAreTyped ==
  ASSUME prog \in Programs, BlocksAreTheirs, ValuesInv, NEW n \in Node, NEW to
  PROVE  Converted(n, to) \in Value \cup {Dead}
<1>1. value[n] \in Value
  BY DEF ValuesInv
<1>2. CASE Id(type[n]) = to
  BY <1>1, <1>2 DEF Converted
<1>3. CASE Id(type[n]) # to /\ to \in Convertible
  BY <1>1, <1>3, CoercionsAreTyped DEF Converted
<1>4. CASE Id(type[n]) # to /\ to \notin Convertible
  BY <1>4, InstructionsAreTyped DEF Converted
<1> QED BY <1>2, <1>3, <1>4

\* A call that is emitted has a value, of the type the callee returns.
LEMMA CallsAreTyped ==
  ASSUME prog \in Programs, BlocksAreTheirs, NEW s, s.gives \in LowTypes, NEW args, NEW d \in MaybeNode
  PROVE  CallOf(s, args, d).v \in TypedValue \cup {Dead} /\ CallOf(s, args, d).wrong \subseteq FaultKinds
BY InstructionsAreTyped DEF CallOf, Outcome, Unless, FaultKinds

LEMMA RuntimeGives ==
  /\ \A list \in ListTypes, op \in RuntimeOps : RuntimeSignature(list, op).gives \in LowTypes
  /\ \A name \in RuntimeNames : SignatureNamed(name).gives \in LowTypes
<1>1. ASSUME NEW list \in ListTypes, NEW op \in RuntimeOps
      PROVE  RuntimeSignature(list, op).gives \in LowTypes
  BY <1>1 DEF RuntimeSignature, FunctionType, ElementOf, RuntimeOps, Folds, LowTypes, Pointers, ListTypes
<1>2. ASSUME NEW name \in RuntimeNames
      PROVE  SignatureNamed(name).gives \in LowTypes
  <2>1. \E p \in ListTypes \X RuntimeOps : RuntimeName(p[1], p[2]) = name
    <3>1. PICK list \in ListTypes, op \in RuntimeOps : RuntimeName(list, op) = name
      BY <1>2 DEF RuntimeNames
    <3>2. <<list, op>> \in ListTypes \X RuntimeOps /\ RuntimeName(<<list, op>>[1], <<list, op>>[2]) = name
      BY <3>1
    <3> QED BY <3>2
  <2>2. PICK q : q = CHOOSE p \in ListTypes \X RuntimeOps : RuntimeName(p[1], p[2]) = name
    OBVIOUS
  <2>3. q \in ListTypes \X RuntimeOps
    BY <2>1, <2>2
  <2>4. SignatureNamed(name) = RuntimeSignature(q[1], q[2])
    BY <2>2 DEF SignatureNamed
  <2> QED BY <1>1, <2>3, <2>4
<1> QED BY <1>1, <1>2

LEMMA RuntimeCallsAreTyped ==
  ASSUME prog \in Programs, BlocksAreTheirs, NEW list \in ListTypes, NEW op \in RuntimeOps, NEW args
  PROVE  /\ CallRuntime(list, op, args).v \in TypedValue \cup {Dead}
         /\ CallRuntime(list, op, args).wrong \subseteq FaultKinds
<1>1. RuntimeSignature(list, op).gives \in LowTypes /\ 0 \in MaybeNode
  BY RuntimeGives DEF MaybeNode
<1> QED BY <1>1, CallsAreTyped DEF CallRuntime

LEMMA NothingIsTyped ==
  ASSUME prog \in Programs, BlocksAreTheirs
  PROVE  /\ OutcomeTyped(NoOutcome)
         /\ \A v, wrong : v \in Value \cup {Dead} /\ wrong \subseteq FaultKinds => OutcomeTyped(Outcome(v, wrong))
         /\ \A o : o.v \in TypedValue \cup {Dead} /\ o.wrong \subseteq FaultKinds => OutcomeTyped(o)
BY InstructionsAreTyped DEF OutcomeTyped, NoOutcome, Outcome

\* What the analyzer leaves when it accepts a program.
LEMMA WhatIsAccepted ==
  ASSUME GeneratorInductive, status = "accepted"
  PROVE  /\ prog \in Programs /\ WalkInv /\ BlocksAreTheirs /\ TypeOK
         /\ \A n \in Node : Kind(n) \in {"variable", "set_expression", "function_call"} =>
              resolved[n] \in Node /\ Kind(resolved[n]) \in DefinitionKinds
         /\ \A n \in Node : Kind(n) = "function_call" => CallFailures(n, resolved[n]) = {}
<1>1. /\ prog \in Programs /\ WalkInv /\ BlocksAreTheirs /\ TypeOK /\ ResolvedRight
      /\ ResultInductive
  BY DEF GeneratorInductive, PhiInductive, ResultInductive, LexicalInductive, WalkInductive, Inductive, ResultsInv
<1>2. AcceptedReferencesAgree
  BY <1>1, AcceptedIsDone DEF ResultInductive, ResultsInv, AcceptedReferencesAgree, ReferencesAgree,
                        ResolvedRight, References
<1> QED BY <1>1, <1>2 DEF ResolvedRight, AcceptedReferencesAgree

LEMMA LeafsAreTyped ==
  ASSUME GeneratorInductive, ValuesInv, status = "accepted", NEW n \in Node
  PROVE  /\ OutcomeTyped(LiteralOutcome(n))
         /\ Kind(n) = "variable" => OutcomeTyped(VariableOutcome(n))
<1>1. prog \in Programs /\ BlocksAreTheirs
  BY DEF GeneratorInductive, PhiInductive
<1>2. OutcomeTyped(LiteralOutcome(n))
  <2>1. AtBlock(Constant("ptr")) \in Value \cup {Dead} /\ Constant("ptr") \in Value
    <3>1. "ptr" \in LowTypes
      BY DEF LowTypes, Pointers
    <3> QED BY <1>1, <3>1, InstructionsAreTyped DEF AtBlock
  <2>2. Constant(LowType(type[n])) \in Value /\ NullValue \in Value
    BY <1>1, InstructionsAreTyped, LowTypesAreLow
  <2>3. PICK v : v = CASE Id(type[n]) \in {"INT", "FLOAT"} -> Constant(LowType(type[n]))
                       [] Id(type[n]) = "STRING" -> AtBlock(Constant("ptr"))
                       [] Id(type[n]) = "NIL" -> Constant("ptr")
                       [] OTHER -> NullValue
    OBVIOUS
  <2>4. v \in Value \cup {Dead}
    BY <2>1, <2>2, <2>3
  <2>5. LiteralOutcome(n) = Outcome(v, {})
    BY <2>3 DEF LiteralOutcome
  <2> QED BY <1>1, <2>4, <2>5, NothingIsTyped
<1>3. ASSUME Kind(n) = "variable"
      PROVE  OutcomeTyped(VariableOutcome(n))
  <2>1. PICK d \in Node : d = resolved[n]
    BY <1>3, WhatIsAccepted
  <2>2. Late \subseteq FaultKinds /\ {} \subseteq FaultKinds
    BY <1>1, InstructionsAreTyped
  <2>3. CASE Name(n) \in DOMAIN named
    <3>1. named[Name(n)] \in Value
      BY <2>3 DEF ValuesInv
    <3> QED BY <1>1, <2>2, <2>3, <3>1, NothingIsTyped DEF VariableOutcome
  <2>4. CASE Name(n) \notin DOMAIN named
    <3>1. slot[d] \in LowTypes /\ d \in MaybeNode
      BY DEF ValuesInv, MaybeNode
    <3>2. Of(slot[d], d) \in Value
      BY <1>1, <3>1, InstructionsAreTyped
    <3>3. Loaded(d) \in Value \cup {Dead}
      BY <1>1, <3>2, InstructionsAreTyped DEF Loaded, AtBlock
    <3> QED BY <1>1, <2>1, <2>2, <2>4, <3>3, NothingIsTyped DEF VariableOutcome
  <2> QED BY <2>3, <2>4
<1> QED BY <1>2, <1>3

LEMMA OperatorsAreTyped ==
  ASSUME GeneratorInductive, ValuesInv, status = "accepted", NEW n \in Node
  PROVE  /\ Kind(n) = "binary_op" => OutcomeTyped(CompareOutcome(n)) /\ OutcomeTyped(ConsOutcome(n))
         /\ Kind(n) = "unary_op" => OutcomeTyped(UnaryOutcome(n))
<1>1. prog \in Programs /\ BlocksAreTheirs
  BY DEF GeneratorInductive, PhiInductive
<1>2. "i1" \in LowTypes /\ "i64" \in LowTypes /\ {"cons", "car", "cdr"} \subseteq RuntimeOps
  BY DEF LowTypes, RuntimeOps
<1>3. OutcomeTyped(CompareOutcome(n))
  <2>1. Instruction("i1") \in Value
    BY <1>1, <1>2, InstructionsAreTyped
  <2>2. Late \subseteq FaultKinds
    BY <1>1, InstructionsAreTyped
  <2>3. \A a, b : Unless(a, "operand") \cup Unless(b, "predicate") \cup Late \subseteq FaultKinds
    BY <2>2 DEF Unless, FaultKinds
  <2>4. OutcomeTyped(Outcome(Dead, {}))
    BY <1>1, NothingIsTyped
  <2>5. \A a, b : OutcomeTyped(Outcome(Instruction("i1"), Unless(a, "operand") \cup Unless(b, "predicate") \cup Late))
    BY <1>1, <2>1, <2>3, NothingIsTyped
  <2> QED BY <2>4, <2>5 DEF CompareOutcome
<1>4. OutcomeTyped(ConsOutcome(n))
  <2>1. PICK t : t = type[Child(n, 2)]
    OBVIOUS
  <2>2. PICK args : args = <<Converted(Child(n, 1), Id(Subtype(t))), value[Child(n, 2)]>>
    OBVIOUS
  <2>3. ConsOutcome(n) = IF args[1] = Dead THEN Outcome(Dead, {})
                         ELSE IF Implemented(t) THEN CallRuntime(ListKind(t), "cons", args) ELSE NoOutcome
    BY <2>1, <2>2 DEF ConsOutcome
  <2>4. Implemented(t) => OutcomeTyped(CallRuntime(ListKind(t), "cons", args))
    BY <1>1, <1>2, LowTypesAreLow, RuntimeCallsAreTyped, NothingIsTyped
  <2> QED BY <1>1, <2>3, <2>4, NothingIsTyped
<1>5. OutcomeTyped(UnaryOutcome(n))
  <2>1. PICK t, v : t = type[Child(n, 1)] /\ v = value[Child(n, 1)]
    OBVIOUS
  <2>2. UnaryOutcome(n) = IF ~Implemented(t) THEN NoOutcome
                          ELSE IF prog[n].op = "CAR" THEN CarOutcome(ListKind(t), v)
                          ELSE IF prog[n].op = "CDR" THEN CallRuntime(ListKind(t), "cdr", <<v>>) ELSE NoOutcome
    BY <2>1 DEF UnaryOutcome
  <2>3. ASSUME Implemented(t)
        PROVE  OutcomeTyped(CarOutcome(ListKind(t), v)) /\ OutcomeTyped(CallRuntime(ListKind(t), "cdr", <<v>>))
    <3>1. ListKind(t) \in ListTypes
      BY <2>3, LowTypesAreLow
    <3>2. \A op \in {"car", "cdr"} : /\ CallRuntime(ListKind(t), op, <<v>>).v \in TypedValue \cup {Dead}
                                     /\ CallRuntime(ListKind(t), op, <<v>>).wrong \subseteq FaultKinds
      BY <1>1, <1>2, <3>1, RuntimeCallsAreTyped
    <3>3. AtBlock(Instruction("i64")) \in Value \cup {Dead} /\ TypedValue \subseteq Value
      BY <1>1, <1>2, InstructionsAreTyped DEF AtBlock
    <3>4. OutcomeTyped(CarOutcome(ListKind(t), v))
      BY <1>1, <3>2, <3>3, NothingIsTyped DEF CarOutcome
    <3> QED BY <1>1, <3>2, <3>4, NothingIsTyped
  <2> QED BY <1>1, <2>2, <2>3, NothingIsTyped
<1> QED BY <1>3, <1>4, <1>5

LEMMA ListsAreTyped ==
  ASSUME GeneratorInductive, ValuesInv, status = "accepted", NEW n \in Node
  PROVE  OutcomeTyped(ListOpOutcome(n)) /\ OutcomeTyped(ListOutcome(n))
<1>1. prog \in Programs /\ BlocksAreTheirs
  BY DEF GeneratorInductive, PhiInductive
<1>2. OutcomeTyped(ListOpOutcome(n))
  <2>1. PICK list, args : list = ListKind(ListOf(type[n])) /\ args = <<value[Child(n, 1)]>>
    OBVIOUS
  <2>2. PICK fold : fold = [PLUS |-> "add", MINUS |-> "subtract", TIMES |-> "multiply", DIVIDE |-> "divide"]
    OBVIOUS
  <2>3. \A op \in DOMAIN fold : fold[op] \in RuntimeOps
    BY <2>2 DEF RuntimeOps, Folds
  <2>4. ListOpOutcome(n) =
          IF ~Implemented(ListOf(type[n])) \/ prog[n].op \notin DOMAIN fold THEN NoOutcome
          ELSE CallRuntime(list, fold[prog[n].op], args)
    BY <2>1, <2>2 DEF ListOpOutcome
  <2>5. Implemented(ListOf(type[n])) => list \in ListTypes
    BY <2>1, LowTypesAreLow
  <2> QED BY <1>1, <2>3, <2>4, <2>5, RuntimeCallsAreTyped, NothingIsTyped
<1>3. OutcomeTyped(ListOutcome(n))
  <2>1. PICK list, head : list = ListKind(type[n]) /\ head = value[Child(n, 1)]
    OBVIOUS
  <2>2. PICK last : last = CallRuntime(list, "set_head", <<Instruction(list), head>>)
    OBVIOUS
  <2>3. ListOutcome(n) =
          IF ~Implemented(type[n]) THEN NoOutcome
          ELSE IF Len(Children(n)) = 1 THEN Outcome(Instruction(list), last.wrong)
          ELSE CallRuntime(list, "cons", <<head, value[Child(n, 2)]>>)
    BY <2>1, <2>2 DEF ListOutcome
  <2>4. ASSUME Implemented(type[n])
        PROVE  /\ OutcomeTyped(Outcome(Instruction(list), last.wrong))
               /\ OutcomeTyped(CallRuntime(list, "cons", <<head, value[Child(n, 2)]>>))
    <3>1. list \in ListTypes /\ list \in LowTypes /\ {"set_head", "cons"} \subseteq RuntimeOps
      BY <2>1, <2>4, LowTypesAreLow DEF RuntimeOps
    <3>2. last.wrong \subseteq FaultKinds
      BY <1>1, <2>2, <3>1, RuntimeCallsAreTyped
    <3>3. Instruction(list) \in Value
      BY <1>1, <3>1, InstructionsAreTyped
    <3> QED BY <1>1, <3>1, <3>2, <3>3, RuntimeCallsAreTyped, NothingIsTyped
  <2> QED BY <1>1, <2>3, <2>4, NothingIsTyped
<1> QED BY <1>2, <1>3

\* What a call may be a call of: a function of the program, or the runtime's, which have
\* no node.
LEMMA CalleesAreNodes ==
  ASSUME prog \in Programs, BlocksAreTheirs, NEW n \in Node, NEW f \in Callee(n)
  PROVE  f \in MaybeNode /\ CalleeSignature(n, f).gives \in LowTypes
<1>1. PICK c : c = CallableOf(resolved[n])
  OBVIOUS
<1>2. CASE Kind(c) = "lambda"
  <2>1. PICK b \in DOMAIN blocks : f = b[1]
    BY <1>1, <1>2 DEF Callee
  <2>2. f \in Node
    BY <2>1 DEF BlocksAreTheirs, BlockNames
  <2>3. f # 0
    BY <2>2, ProgramFacts
  <2> QED BY <2>2, <2>3, LowTypesAreLow DEF CalleeSignature, SignatureOf, FunctionType, MaybeNode
<1>3. CASE Kind(c) # "lambda" /\ Name(n) \in RuntimeNames
  <2>1. f = 0
    BY <1>1, <1>3 DEF Callee
  <2> QED BY <1>3, <2>1, RuntimeGives DEF CalleeSignature, MaybeNode
<1>4. CASE Kind(c) # "lambda" /\ Name(n) \notin RuntimeNames
  <2>1. f \in Node
    BY <1>1, <1>4 DEF Callee
  <2>2. f # 0
    BY <2>1, ProgramFacts
  <2> QED BY <2>1, <2>2, LowTypesAreLow DEF CalleeSignature, SignatureOf, FunctionType, MaybeNode
<1> QED BY <1>2, <1>3, <1>4

LEMMA CallResultsAreTyped ==
  ASSUME GeneratorInductive, ValuesInv, status = "accepted", NEW n \in Node
  PROVE  OutcomeTyped(CallOutcome(n))
<1>1. prog \in Programs /\ BlocksAreTheirs
  BY DEF GeneratorInductive, PhiInductive
<1>2. PICK args : args = [i \in DOMAIN Children(n) |-> Converted(Child(n, i), FormalId(n, i))]
  OBVIOUS
<1>3. CASE Callee(n) = {}
  BY <1>1, <1>3, NothingIsTyped DEF CallOutcome
<1>4. CASE Callee(n) # {}
  <2>1. PICK f : f = CHOOSE g \in Callee(n) : TRUE
    OBVIOUS
  <2>2. f \in Callee(n)
    BY <1>4, <2>1
  <2>3. CallOutcome(n) = CallOf(CalleeSignature(n, f), args, f)
    BY <1>2, <1>4, <2>1 DEF CallOutcome
  <2> QED BY <1>1, <2>2, <2>3, CalleesAreNodes, CallsAreTyped, NothingIsTyped
<1> QED BY <1>3, <1>4

LEMMA SettersAreTyped ==
  ASSUME GeneratorInductive, ValuesInv, status = "accepted", NEW n \in Node
  PROVE  /\ Kind(n) = "set_expression" => OutcomeTyped(SetOutcome(n))
         /\ Kind(n) = "function_body" => OutcomeTyped(Outcome(value[ReturnExpression(n)], {}))
<1>1. prog \in Programs /\ BlocksAreTheirs
  BY DEF GeneratorInductive, PhiInductive
<1>2. ASSUME Kind(n) = "set_expression"
      PROVE  OutcomeTyped(SetOutcome(n))
  <2>1. PICK c \in Node : c = Child(n, 1)
    <3>1. 1 \in 1 .. Len(Children(n))
      BY <1>1, <1>2, ShapeFacts
    <3> QED BY <1>1, <3>1, TreeFacts
  <2>2. value[c] \in Value /\ Late \subseteq FaultKinds /\ NullValue \in Value
    BY <1>1, InstructionsAreTyped DEF ValuesInv
  <2>3. Stored(resolved[n], value[c]) \in Value \cup {Dead}
    BY <2>2 DEF Stored, AtBlock
  <2>4. Unless(slot[resolved[n]] = value[c].ty, "operand") \cup Late \subseteq FaultKinds
    BY <2>2 DEF Unless, FaultKinds
  <2> QED BY <1>1, <2>1, <2>3, <2>4, NothingIsTyped DEF SetOutcome
<1>3. ASSUME Kind(n) = "function_body"
      PROVE  OutcomeTyped(Outcome(value[ReturnExpression(n)], {}))
  <2>1. Len(Children(n)) \in 1 .. Len(Children(n))
    BY <1>1, <1>3, ShapeFacts, ProgramFacts
  <2>2. PICK c \in Node : c = ReturnExpression(n)
    BY <1>1, <2>1, TreeFacts DEF ReturnExpression, LastChild
  <2>3. value[c] \in Value
    BY DEF ValuesInv
  <2> QED BY <1>1, <2>2, <2>3, NothingIsTyped
<1> QED BY <1>2, <1>3
-----------------------------------------------------------------------------
(* The tables of the generator keep their types                            *)

LEMMA SymbolsStay ==
  ASSUME SymbolsInv, prog' = prog, symbol' = symbol
  PROVE  SymbolsInv'
BY DEF SymbolsInv, Name, Node

LEMMA SymbolsEnter ==
  ASSUME SymbolsInv, prog' = prog, gcur \in Node, symbol' = Entered(gcur)
  PROVE  SymbolsInv'
<1>1. CASE Entered(gcur) = symbol
  BY <1>1, SymbolsStay
<1>2. CASE Entered(gcur) = Onto([x \in {Name(gcur)} |-> gcur], symbol)
  <2>1. \A x \in DOMAIN symbol' : symbol'[x] \in Node /\ Name(symbol'[x]) = x
    BY <1>2 DEF SymbolsInv, Onto
  <2> QED BY <2>1 DEF SymbolsInv, Name, Node
<1> QED BY <1>1, <1>2 DEF Entered

\* A step that gives no value, and one that gives some, as far as the types go.
LEMMA ValuesStay ==
  ASSUME ValuesInv, UNCHANGED <<prog, value, lookups, symbol, keptValue, faults, result>>
  PROVE  ValuesInv'
<1>1. Node' = Node /\ MaybeNode' = MaybeNode /\ Value' = Value /\ \A n : Name(n)' = Name(n)
  BY DEF Node, MaybeNode, Value, Name
<1> QED BY <1>1, SymbolsStay DEF ValuesInv, lookups

LEMMA DieKeepsValues ==
  ASSUME ValuesInv, prog' = prog, Die
  PROVE  ValuesInv'
<1>1. Node' = Node /\ MaybeNode' = MaybeNode /\ Value' = Value /\ \A n : Name(n)' = Name(n)
  BY DEF Node, MaybeNode, Value, Name
<1> QED BY <1>1, SymbolsStay DEF ValuesInv, Die, lookups, code, kept, Results

LEMMA GiveKeepsValues ==
  ASSUME prog \in Programs, ValuesInv, prog' = prog, gcur \in Node,
         NEW v \in Value, NEW wrong \in SUBSET FaultKinds, Give(v, wrong),
         UNCHANGED <<named, maps, symbol, keptValue>>, slot' \in [Node -> LowTypes]
  PROVE  ValuesInv'
<1>1. Node' = Node /\ MaybeNode' = MaybeNode /\ Value' = Value /\ \A n : Name(n)' = Name(n)
  BY DEF Node, MaybeNode, Value, Name
<1>2. value' \in [Node -> Value] /\ result' = result
  BY DEF Give, ValuesInv
<1>3. faults' \subseteq FaultKinds \X Node
  <2>1. wrong \cup Unless(v # NullValue, "null") \subseteq FaultKinds
    BY DEF Unless, FaultKinds
  <2>2. {<<w, gcur>> : w \in wrong \cup Unless(v # NullValue, "null")} \subseteq FaultKinds \X Node
    BY <2>1
  <2> QED BY <2>2 DEF Give, ValuesInv
<1> QED BY <1>1, <1>2, <1>3, SymbolsStay DEF ValuesInv

LEMMA FinishKeepsValues ==
  ASSUME prog \in Programs, ValuesInv, prog' = prog, gcur \in Node,
         NEW o, OutcomeTyped(o), Finish(o)
  PROVE  ValuesInv'
<1>1. CASE Die
  BY <1>1, DieKeepsValues
<1>2. CASE o.v # Dead /\ Give(o.v, o.wrong) /\ UNCHANGED <<lookups, code, kept>>
  <2>1. o.v \in Value /\ o.wrong \in SUBSET FaultKinds
    BY <1>2 DEF OutcomeTyped
  <2>2. UNCHANGED <<named, maps, symbol, keptValue>> /\ slot' \in [Node -> LowTypes]
    BY <1>2 DEF lookups, code, kept, ValuesInv
  <2> QED BY <1>2, <2>1, <2>2, GiveKeepsValues
<1> QED BY <1>1, <1>2 DEF Finish

\* The handlers that emit code of their own and change no table.
LEMMA EmittersKeepValues ==
  ASSUME GeneratorInductive, ValuesInv, status = "accepted", prog' = prog,
         EmitLeaf \/ EmitOperator \/ EmitList \/ EmitSet \/ EmitCall \/ EmitBody \/ EmitNothing
  PROVE  ValuesInv'
<1>1. prog \in Programs /\ gcur \in Node /\ BlocksAreTheirs
  BY DEF GeneratorInductive, PhiInductive, WalkInv
<1>2. CASE EmitLeaf
  BY <1>1, <1>2, LeafsAreTyped, FinishKeepsValues DEF EmitLeaf, Emitting
<1>3. CASE EmitOperator
  BY <1>1, <1>3, OperatorsAreTyped, FinishKeepsValues DEF EmitOperator, Emitting
<1>4. CASE EmitList
  BY <1>1, <1>4, ListsAreTyped, FinishKeepsValues DEF EmitList
<1>5. CASE EmitSet \/ EmitBody
  BY <1>1, <1>5, SettersAreTyped, FinishKeepsValues DEF EmitSet, EmitBody, Emitting
<1>6. CASE EmitCall
  BY <1>1, <1>6, CallResultsAreTyped, FinishKeepsValues DEF EmitCall
<1>7. CASE EmitNothing
  BY <1>1, <1>7, NothingIsTyped, FinishKeepsValues DEF EmitNothing
<1> QED BY <1>2, <1>3, <1>4, <1>5, <1>6, <1>7

LEMMA DefinitionsKeepValues ==
  ASSUME GeneratorInductive, ValuesInv, status = "accepted", prog' = prog,
         EmitExtern \/ DeclareGlobal \/ OpenVariable \/ EmitVariable
  PROVE  ValuesInv'
<1>1. prog \in Programs /\ gcur \in Node /\ BlocksAreTheirs /\ TypeOK
  BY WhatIsAccepted DEF WalkInv
<1>2. Node' = Node /\ MaybeNode' = MaybeNode /\ Value' = Value /\ \A n : Name(n)' = Name(n)
  BY DEF Node, MaybeNode, Value, Name
<1>3. Constant("ptr") \in Value /\ NullValue \in Value /\ Late \subseteq FaultKinds
  BY <1>1, InstructionsAreTyped DEF LowTypes, Pointers
\* A value is given and a symbol may be entered.
<1>4. ASSUME NEW v \in Value, NEW wrong \in SUBSET FaultKinds, Give(v, wrong),
             UNCHANGED <<named, maps, slot, keptValue>>, symbol' \in {symbol, Entered(gcur)}
      PROVE  ValuesInv'
  <2>1. value' \in [Node -> Value] /\ result' = result
    BY <1>1, <1>4 DEF Give, ValuesInv
  <2>2. faults' \subseteq FaultKinds \X Node
    <3>1. wrong \cup Unless(v # NullValue, "null") \subseteq FaultKinds
      BY DEF Unless, FaultKinds
    <3>2. {<<w, gcur>> : w \in wrong \cup Unless(v # NullValue, "null")} \subseteq FaultKinds \X Node
      BY <1>1, <3>1
    <3> QED BY <1>4, <3>2 DEF Give, ValuesInv
  <2>3. SymbolsInv'
    BY <1>1, <1>4, SymbolsStay, SymbolsEnter DEF ValuesInv
  <2> QED BY <1>2, <1>4, <2>1, <2>2, <2>3 DEF ValuesInv
<1>5. CASE EmitExtern
  <2>1. CASE Die
    BY <2>1, DieKeepsValues
  <2>2. CASE ~Die
    <3>1. Give(Constant("ptr"), {}) /\ symbol' = Entered(gcur) /\ UNCHANGED <<named, maps, slot, keptValue>>
      BY <1>5, <2>2 DEF EmitExtern, lookups, kept
    <3> QED BY <1>3, <1>4, <3>1
  <2> QED BY <2>1, <2>2
<1>6. CASE DeclareGlobal
  <2>1. UNCHANGED <<named, maps, slot, keptValue>>
    BY <1>6 DEF DeclareGlobal, lookups, kept
  <2>2. \/ symbol' = Entered(gcur) /\ Give(Constant("ptr"), {})
        \/ symbol' = symbol /\ Give(NullValue, {})
    BY <1>6 DEF DeclareGlobal
  <2> QED BY <1>3, <1>4, <2>1, <2>2
<1>7. CASE OpenVariable
  <2>1. CASE Die
    BY <2>1, DieKeepsValues
  <2>2. CASE ~Die
    <3>1. /\ Kind(gcur) = "variable_definition" /\ scopeOf[Parent(gcur)] # 0
          /\ maps' = maps \cup {scopeOf[Parent(gcur)]}
          /\ UNCHANGED <<value, named, slot, symbol, keptValue, faults, result>>
      BY <1>7, <2>2 DEF OpenVariable, Generating, Visit, code, kept
    <3>2. PICK p \in Node : p = Parent(gcur)
      BY <1>1, <3>1, ProgramFacts
    <3>3. scopeOf[p] \in Node
      BY <1>1, <3>1, <3>2 DEF TypeOK, MaybeNode
    <3>4. maps' \subseteq Node
      BY <3>1, <3>2, <3>3 DEF ValuesInv
    <3>5. SymbolsInv'
      BY <3>1, SymbolsStay DEF ValuesInv
    <3> QED BY <1>2, <3>1, <3>4, <3>5 DEF ValuesInv
  <2> QED BY <2>1, <2>2
<1>8. CASE EmitVariable
  <2>1. CASE Die
    BY <2>1, DieKeepsValues
  <2>2. CASE ~Die
    <3>1. PICK v : v = value[Child(gcur, 1)]
      OBVIOUS
    <3>2. /\ Kind(gcur) = "variable_definition" /\ v # NullValue /\ slot' = [slot EXCEPT ![gcur] = v.ty]
          /\ Give(v, Late) /\ UNCHANGED <<named, maps, symbol, keptValue>>
      BY <1>8, <2>2, <3>1 DEF EmitVariable, Generating, code, kept
    <3>3. 1 \in 1 .. Len(Children(gcur))
      <4>1. Len(Children(gcur)) = 1
        BY <1>1, <3>2, ShapeFacts
      <4> QED BY <4>1
    <3>4. v \in Value
      BY <1>1, <3>1, <3>3, TreeFacts DEF ValuesInv
    <3>5. v.ty \in LowTypes
      BY <3>2, <3>4 DEF Value
    <3>6. slot' \in [Node -> LowTypes]
      BY <1>1, <3>2, <3>5 DEF ValuesInv
    <3> QED BY <1>1, <1>3, <3>2, <3>4, <3>6, GiveKeepsValues
  <2> QED BY <2>1, <2>2
<1> QED BY <1>5, <1>6, <1>7, <1>8

LEMMA FunctionsKeepValues ==
  ASSUME GeneratorInductive, ValuesInv, status = "accepted", prog' = prog,
         OpenFunction \/ CloseFunction
  PROVE  ValuesInv'
<1>1. prog \in Programs /\ gcur \in Node /\ BlocksAreTheirs
  BY WhatIsAccepted DEF WalkInv
<1>2. Node' = Node /\ MaybeNode' = MaybeNode /\ Value' = Value /\ \A n : Name(n)' = Name(n)
  BY DEF Node, MaybeNode, Value, Name
<1>3. CASE OpenFunction /\ ~Die
  <2>1. /\ Kind(gcur) \in Callables /\ symbol' = Entered(gcur) /\ MapFormals(gcur)
        /\ UNCHANGED <<value, slot, maps, keptValue, faults, result>>
    BY <1>3 DEF OpenFunction, Generating, Visit
  <2>2. PICK formals : formals = {FormalsOf(gcur)[i] : i \in 1 .. FormalCount(gcur)}
    OBVIOUS
  <2>3. formals \subseteq Node
    <3>1. Len(Children(gcur)) \in Nat /\ FormalCount(gcur) = Len(Children(gcur)) - 1 /\ Len(Children(gcur)) > 0
          /\ Children(gcur) \in Seq(Nat)
      <4>1. Kind(gcur) # "extern_function"
        BY <2>1 DEF Callables
      <4>2. prog \in Seq(NodeRecord)
        BY <1>1, ProgramsAssumption DEF WellFormed
      <4>3. prog[gcur] \in NodeRecord
        BY <1>1, <4>2 DEF Node
      <4> QED BY <1>1, <2>1, <4>1, <4>3, ShapeFacts, ProgramFacts DEF FormalCount, NodeRecord, Children
    <3>2. \A i \in 1 .. FormalCount(gcur) : FormalsOf(gcur)[i] = Child(gcur, i) /\ i \in 1 .. Len(Children(gcur))
      BY <3>1 DEF FormalsOf, Child, Children
    <3> QED BY <1>1, <2>2, <3>2, ProgramFacts
  <2>4. \A d \in formals : [ty |-> LowType(type[d]), def |-> d, fn |-> gcur] \in Value
    BY <1>1, <2>3, LowTypesAreLow DEF Value, MaybeNode
  <2>5. PICK args : args = [x \in {Name(d) : d \in formals} |->
                              [ty |-> LowType(type[CHOOSE d \in formals : Name(d) = x]),
                               def |-> CHOOSE d \in formals : Name(d) = x, fn |-> gcur]]
    OBVIOUS
  <2>6. named' = Onto(args, named)
    BY <2>1, <2>2, <2>5 DEF MapFormals
  <2>7. DOMAIN args \subseteq {Name(n) : n \in Node} /\ \A x \in DOMAIN args : args[x] \in Value
    BY <2>3, <2>4, <2>5
  <2>8. DOMAIN named' \subseteq {Name(n) : n \in Node} /\ \A x \in DOMAIN named' : named'[x] \in Value
    BY <2>6, <2>7 DEF Onto, ValuesInv
  <2>9. SymbolsInv'
    BY <1>1, <2>1, SymbolsEnter DEF ValuesInv
  <2> QED BY <1>2, <2>1, <2>8, <2>9 DEF ValuesInv
<1>4. CASE CloseFunction /\ ~Die
  <2>1. PICK ok : /\ Give(Constant("ptr"), Unless(ok, "operand") \cup Late)
                  /\ UNCHANGED <<named, slot, maps, symbol, keptValue>>
    BY <1>4 DEF CloseFunction, lookups, kept
  <2>2. Constant("ptr") \in Value /\ Unless(ok, "operand") \cup Late \in SUBSET FaultKinds
    BY <1>1, InstructionsAreTyped DEF LowTypes, Pointers, Unless, FaultKinds
  <2>3. slot' \in [Node -> LowTypes]
    BY <2>1 DEF ValuesInv
  <2> QED BY <1>1, <2>1, <2>2, <2>3, GiveKeepsValues
<1> QED BY <1>3, <1>4, DieKeepsValues
LEMMA IfsKeepValues ==
  ASSUME GeneratorInductive, ValuesInv, status = "accepted", prog' = prog,
         OpenIf \/ BeginThen \/ BeginElse \/ MergeBranches
  PROVE  ValuesInv'
<1>1. prog \in Programs /\ gcur \in Node /\ BlocksAreTheirs
  BY WhatIsAccepted DEF WalkInv
<1>2. Node' = Node /\ MaybeNode' = MaybeNode /\ Value' = Value /\ \A n : Name(n)' = Name(n)
  BY DEF Node, MaybeNode, Value, Name
<1>3. ASSUME LeaveIfUnfinished
      PROVE  ValuesInv'
  <2>1. Give(NullValue, {}) /\ UNCHANGED <<named, maps, symbol, keptValue>> /\ slot' \in [Node -> LowTypes]
    BY <1>3 DEF LeaveIfUnfinished, lookups, code, kept, ValuesInv
  <2> QED BY <1>1, <2>1, InstructionsAreTyped, GiveKeepsValues
<1>4. CASE OpenIf /\ ~Die
  BY <1>4, ValuesStay DEF OpenIf, Visit, code, kept
<1>5. CASE BeginThen /\ ~Die
  <2>1. PICK ok : /\ faults' = faults \cup {<<w, gcur>> : w \in Unless(ok, "operand") \cup Late}
                  /\ UNCHANGED <<value, result, lookups, symbol, keptValue>>
    BY <1>5 DEF BeginThen, kept
  <2>2. {<<w, gcur>> : w \in Unless(ok, "operand") \cup Late} \subseteq FaultKinds \X Node
    BY <1>1, InstructionsAreTyped DEF Unless, FaultKinds
  <2>3. faults' \subseteq FaultKinds \X Node
    BY <2>1, <2>2 DEF ValuesInv
  <2> QED BY <1>2, <2>1, <2>3, SymbolsStay DEF ValuesInv, lookups
<1>6. CASE BeginElse /\ ~Die /\ ~LeaveIfUnfinished
  <2>1. UNCHANGED <<named, slot, maps, symbol, keptValue>>
    BY <1>6 DEF BeginElse, lookups
  <2>2. CASE Converts(Child(gcur, 3), Id(type[gcur]))
    BY <1>6, <2>1, <2>2, ValuesStay DEF BeginElse, Visit, lookups
  <2>3. CASE ~Converts(Child(gcur, 3), Id(type[gcur]))
    <3>1. Give(NullValue, {}) /\ slot' \in [Node -> LowTypes]
      BY <1>6, <2>1, <2>3 DEF BeginElse, ValuesInv
    <3> QED BY <1>1, <2>1, <3>1, InstructionsAreTyped, GiveKeepsValues
  <2> QED BY <2>2, <2>3
<1>7. CASE MergeBranches /\ ~Die /\ ~LeaveIfUnfinished
  <2>1. PICK ok : /\ Give(Instruction(LowType(type[gcur])), Unless(ok, "operand"))
                  /\ UNCHANGED <<lookups, symbol, kept>>
    BY <1>7 DEF MergeBranches
  <2>2. Instruction(LowType(type[gcur])) \in Value /\ Unless(ok, "operand") \in SUBSET FaultKinds
    BY <1>1, LowTypesAreLow, InstructionsAreTyped DEF Unless, FaultKinds
  <2>3. UNCHANGED <<named, maps, symbol, keptValue>> /\ slot' \in [Node -> LowTypes]
    BY <2>1 DEF lookups, kept, ValuesInv
  <2> QED BY <1>1, <2>1, <2>2, <2>3, GiveKeepsValues
<1> QED BY <1>3, <1>4, <1>5, <1>6, <1>7, DieKeepsValues

\* What a loop yields is never null: a body without a value ends the generator.
LEMMA IterationsAreTyped ==
  ASSUME prog \in Programs, BlocksAreTheirs, NEW n \in Node
  PROVE  IterationOutcome(n).v \in TypedValue \cup {Dead} /\ IterationOutcome(n).wrong \subseteq FaultKinds
<1>1. PICK v, ty, list : /\ v = value[LoopBody(n)] /\ ty = LowType(IterationType(n))
                         /\ list = ListKind(ListOf(IterationType(n)))
  OBVIOUS
<1>2. ty \in LowTypes /\ "append" \in RuntimeOps
  BY <1>1, LowTypesAreLow DEF RuntimeOps
<1>3. Instruction(ty) \in TypedValue /\ Unless(v.ty = ty, "operand") \cup Late \subseteq FaultKinds
  BY <1>2, InstructionsAreTyped DEF Unless, FaultKinds
<1>4. list \in ListTypes => /\ CallRuntime(list, "append", <<Instruction(list), v>>).v \in TypedValue \cup {Dead}
                            /\ CallRuntime(list, "append", <<Instruction(list), v>>).wrong \subseteq FaultKinds
  BY <1>2, RuntimeCallsAreTyped
<1>5. IterationOutcome(n) =
        IF Kind(n) = "do_loop"
        THEN IF v = NullValue THEN Outcome(Dead, {})
             ELSE Outcome(Instruction(ty), Unless(v.ty = ty, "operand") \cup Late)
        ELSE IF list \notin ListTypes THEN Outcome(Dead, {})
             ELSE CallRuntime(list, "append", <<Instruction(list), v>>)
  BY <1>1 DEF IterationOutcome
<1> QED BY <1>3, <1>4, <1>5 DEF Outcome

LEMMA LoopsKeepValues ==
  ASSUME GeneratorInductive, ValuesInv, status = "accepted", prog' = prog,
         OpenLoop \/ BeginIteration \/ CloseLoop
  PROVE  ValuesInv'
<1>1. prog \in Programs /\ gcur \in Node /\ BlocksAreTheirs /\ Kind(gcur) \in Loops
  BY WhatIsAccepted DEF WalkInv, OpenLoop, BeginIteration, CloseLoop, Generating
<1>2. Node' = Node /\ MaybeNode' = MaybeNode /\ Value' = Value /\ \A n : Name(n)' = Name(n)
  BY DEF Node, MaybeNode, Value, Name
<1>3. PICK iterator \in Node : iterator = IteratorOf(gcur)
  BY <1>1, LoopShape
<1>4. symbol' = symbol => SymbolsInv'
  BY SymbolsStay DEF ValuesInv
\* The iterator's name is bound to a value.
<1>5. ASSUME NEW v \in Value, named' = Bind(Name(iterator), v)
      PROVE  DOMAIN named' \subseteq {Name(n) : n \in Node} /\ \A x \in DOMAIN named' : named'[x] \in Value
  BY <1>5 DEF Bind, Onto, ValuesInv
<1>6. CASE OpenLoop /\ ~Die
  <2>1. /\ keptValue' = [keptValue EXCEPT ![gcur] =
                           IF Name(iterator) \in DOMAIN named THEN named[Name(iterator)] ELSE NullValue]
        /\ UNCHANGED <<value, faults, result, lookups, symbol>>
    BY <1>3, <1>6 DEF OpenLoop, Visit, code
  <2>2. PICK v : v = IF Name(iterator) \in DOMAIN named THEN named[Name(iterator)] ELSE NullValue
    OBVIOUS
  <2>3. v \in Value
    BY <1>1, <2>2, InstructionsAreTyped DEF ValuesInv
  <2>4. keptValue' \in [Node -> Value]
    BY <1>1, <2>1, <2>2, <2>3 DEF ValuesInv
  <2> QED BY <1>2, <1>4, <2>1, <2>4 DEF ValuesInv, lookups
<1>7. CASE BeginIteration /\ ~Die
  <2>1. PICK ok : /\ named' = Bind(Name(iterator), Of(LowType(type[iterator]), iterator))
                  /\ faults' = faults \cup {<<w, gcur>> : w \in Late \cup Unless(ok, "operand")}
                  /\ UNCHANGED <<value, result, slot, maps, symbol, keptValue>>
    BY <1>3, <1>7 DEF BeginIteration, kept
  <2>2. Of(LowType(type[iterator]), iterator) \in Value
    BY <1>1, LowTypesAreLow, InstructionsAreTyped DEF MaybeNode
  <2>3. {<<w, gcur>> : w \in Late \cup Unless(ok, "operand")} \subseteq FaultKinds \X Node
    BY <1>1, InstructionsAreTyped DEF Unless, FaultKinds
  <2>4. faults' \subseteq FaultKinds \X Node
    BY <2>1, <2>3 DEF ValuesInv
  <2>5. DOMAIN named' \subseteq {Name(n) : n \in Node} /\ \A x \in DOMAIN named' : named'[x] \in Value
    BY <1>5, <2>1, <2>2
  <2> QED BY <1>2, <1>4, <2>1, <2>4, <2>5 DEF ValuesInv
<1>8. CASE CloseLoop /\ ~Die
  <2>1. PICK o : o = IterationOutcome(gcur)
    OBVIOUS
  <2>2. PICK f : f = blocks[LoopBlock("loopend")].fn
    OBVIOUS
  <2>3. /\ o.v # Dead /\ step[gcur] = 2 /\ named' = Bind(Name(iterator), keptValue[gcur])
        /\ Give([o.v EXCEPT !.fn = f], o.wrong) /\ UNCHANGED <<slot, maps, symbol, keptValue>>
    BY <1>3, <1>8, <2>1, <2>2 DEF CloseLoop, Generating, kept
  <2>4. o.v \in TypedValue /\ o.wrong \in SUBSET FaultKinds
    BY <1>1, <2>1, <2>3, IterationsAreTyped
  <2>5. f \in Node
    <3>1. "loopend" \in LabelsOf(gcur) /\ "loopend" \in Labels
      BY <1>1, <2>3 DEF LabelsOf, Forks, Iterates, Loops, Labels
    <3>2. LoopBlock("loopend") \in DOMAIN blocks
      BY <1>1, <3>1 DEF BlocksAreTheirs, LoopBlock
    <3>3. blocks[LoopBlock("loopend")] \in Block
      BY <1>1, <3>2 DEF BlocksAreTheirs
    <3> QED BY <2>2, <3>3 DEF Block
  <2>6. [o.v EXCEPT !.fn = f] \in Value
    BY <2>4, <2>5 DEF TypedValue, Value, MaybeNode
  <2>7. DOMAIN named' \subseteq {Name(n) : n \in Node} /\ \A x \in DOMAIN named' : named'[x] \in Value
    BY <1>1, <1>5, <2>3 DEF ValuesInv
  <2>8. PICK v : v = [o.v EXCEPT !.fn = f]
    OBVIOUS
  <2>9. value' \in [Node -> Value] /\ result' = result
    BY <1>1, <2>3, <2>6, <2>8 DEF Give, ValuesInv
  <2>10. faults' \subseteq FaultKinds \X Node
    <3>1. o.wrong \cup Unless(v # NullValue, "null") \subseteq FaultKinds
      BY <2>4 DEF Unless, FaultKinds
    <3>2. {<<w, gcur>> : w \in o.wrong \cup Unless(v # NullValue, "null")} \subseteq FaultKinds \X Node
      BY <1>1, <3>1
    <3> QED BY <2>3, <2>8, <3>2 DEF Give, ValuesInv
  <2> QED BY <1>2, <1>4, <2>3, <2>7, <2>9, <2>10 DEF ValuesInv
<1> QED BY <1>6, <1>7, <1>8, DieKeepsValues

LEMMA ValuesPreserved ==
  ASSUME GeneratorInductive, ValuesInv, [CompilerNext]_<<vars, gvars>>
  PROVE  ValuesInv'
<1>1. prog' = prog /\ prog \in Programs
  BY PhiPreserved DEF GeneratorInductive, PhiInductive
<1>2. CASE UNCHANGED gvars
  BY <1>1, <1>2, ValuesStay DEF gvars, code, kept
<1>3. CASE Generate /\ status = "accepted"
  <2>1. CASE VisitOperand
    BY <1>1, <2>1, ValuesStay DEF VisitOperand, Visit, code, kept
  <2>2. CASE EmitRoot
    BY <1>1, <2>2 DEF EmitRoot, ValuesInv, SymbolsInv, Results, lookups, code, kept, Node, MaybeNode, Value, Name
  <2> QED BY <1>1, <1>3, <2>1, <2>2, EmittersKeepValues, DefinitionsKeepValues, FunctionsKeepValues,
             IfsKeepValues, LoopsKeepValues DEF Generate
<1> QED BY <1>2, <1>3 DEF CompilerNext, vars, gvars

\* The tables of the generator keep their types: what handlers return and what named_values_
\* and the scopes' allocas hold are values of a low type or null, also where a handler
\* gives up; no instruction is read from a block that is not there; and the verdict and the
\* faults are those of the model.
THEOREM GeneratorIsTyped == CompilerSpec => []CodegenTypeOK
<1>1. CompilerInit => ValuesInv
  BY InstructionsAreTyped DEF CompilerInit, Init, ValuesInv, SymbolsInv, Value, LowTypes, Pointers
<1>2. GeneratorInductive /\ ValuesInv => CodegenTypeOK
  <2> SUFFICES ASSUME GeneratorInductive, ValuesInv PROVE CodegenTypeOK
    OBVIOUS
  <2>1. WalkInv /\ BlocksAreTheirs /\ KeptAreTheirs /\ PhisGrow
    BY DEF GeneratorInductive, PhiInductive
  <2>2. keptBlock \in [Node -> BlockNames \cup {NoBlock}]
    BY <2>1 DEF KeptAreTheirs, BlocksAreTheirs
  <2> QED BY <2>1, <2>2 DEF CodegenTypeOK, ValuesInv, SymbolsInv, WalkInv, BlocksAreTheirs, PhisGrow
<1>3. GeneratorInductive /\ ValuesInv /\ [CompilerNext]_<<vars, gvars>> => ValuesInv'
  BY ValuesPreserved
<1> QED BY <1>1, <1>2, <1>3, GeneratorIsInductive, PTL DEF CompilerSpec
-----------------------------------------------------------------------------
(* What calls run                                                          *)

\* What a body states is resolved to from behind it only, and an iterator from outside
\* its list.  The walk goes through a body in order, and declares an iterator when it has
\* been through its list.
ResolvedBehind ==
  \A n \in Node : resolved[n] # 0 =>
    LET d == resolved[n]
    IN  /\ Parent(d) \in Path(n) /\ Kind(Parent(d)) \in Statements => d <= n
        /\ Kind(d) = "iterator_definition" => d \notin Path(n)

\* Definitions other than formals and iterators are statements.
LEMMA StatementsHold ==
  ASSUME prog \in Programs, NEW d \in Node, Kind(d) \in FunctionKinds \cup {"variable_definition"}
  PROVE  /\ d # 1 /\ Parent(d) \in Node /\ Kind(Parent(d)) \in Statements /\ Handler(d) = Parent(d)
<1>1. d # 1 /\ Parent(d) \in Node
  BY ProgramFacts DEF FunctionKinds
<1>2. Placement(prog, d)
  BY ProgramsAssumption DEF WellFormed, Node
<1>3. Kind(Parent(d)) \in Statements
  BY <1>1, <1>2 DEF Placement, Statements, Kind, Parent
<1> QED BY <1>1, <1>3 DEF Handler, Statements

\* A child before n of a node above n is not behind the one n is in.
LEMMA ChildInTurn ==
  ASSUME prog \in Programs, NEW n \in Node, NEW b \in Path(n), NEW i \in 1 .. Len(Children(b)),
         NEW j \in 1 .. Len(Children(b)), Child(b, i) \in Path(n), Child(b, j) <= n
  PROVE  j <= i
<1>1. /\ Len(prog) \in Nat /\ Node = 1 .. Len(prog) /\ b \in Node /\ Len(Children(b)) \in Nat
      /\ \A m \in Node : prog[m].last \in m .. Len(prog)
  BY TreeOrder, PathFacts, ProgramFacts
<1>2. PICK x \in Node \ {1} : x = Child(b, i) /\ Parent(x) = b
  BY <1>1, TreeFacts
<1>3. PICK y \in Node \ {1} : y = Child(b, j) /\ Parent(y) = b
  BY <1>1, TreeFacts
<1>4. SUFFICES ASSUME i < j PROVE FALSE
  BY <1>1
<1>5. x < y
  BY <1>1, <1>2, <1>3, <1>4, TreeFacts
<1>6. x \in Path(y) /\ y \in Path(y)
  BY <1>1, <1>2, <1>3, <1>5, PathFacts DEF Path
<1>7. x # y
  BY <1>1, <1>5
<1> QED BY <1>2, <1>3, <1>6, <1>7, SiblingsApart

\* The reference whose handler runs.
LEMMA ResolvesBehind ==
  ASSUME ResultInductive, cur \in Node, Active(cur), NEW d \in Node, d # 1,
         d \in defs[BlockAround(d)]
  PROVE  /\ Parent(d) \in Path(cur) /\ Parent(d) # cur /\ Kind(Parent(d)) # "if_expr" => d <= cur
         /\ Kind(d) = "iterator_definition" => d \notin Path(cur)
<1>1. /\ prog \in Programs /\ StackInv /\ InOrder /\ DeclaredInTime
      /\ Len(prog) \in Nat /\ Node = 1 .. Len(prog)
  BY TreeOrder DEF ResultInductive, ResultsInv, LexicalInductive, WalkInductive, Inductive
<1>2. BlockAround(d) \in Node
  BY <1>1, BlockFacts
<1>3. pc[d] = "done" \/ (Active(d) /\ Kind(d) \in Untyped)
  BY <1>1, <1>2 DEF DeclaredInTime
<1>4. ASSUME Parent(d) \in Path(cur), Parent(d) # cur, Kind(Parent(d)) # "if_expr", cur < d
      PROVE  FALSE
  <2>1. PICK b \in Node : b = Parent(d)
    BY <1>1, <1>4, PathFacts
  <2>2. PICK x \in Path(cur) : x \in Node \ {1} /\ Parent(x) = b
    BY <1>1, <1>4, <2>1, ChildOnPath
  <2>3. x <= cur
    BY <1>1, <2>2 DEF Path
  <2>4. PICK i \in 1 .. Len(Children(b)) : Child(b, i) = x
    BY <1>1, <2>1, <2>2, TreeFacts
  <2>5. PICK j \in 1 .. Len(Children(b)) : Child(b, j) = d
    BY <1>1, <2>1, TreeFacts
  <2>6. Len(Children(b)) \in Nat /\ x < d
    BY <1>1, <1>4, <2>1, <2>2, <2>3, ProgramFacts
  <2>7. i < j
    <3>1. ~(j < i) /\ i # j
      BY <1>1, <2>1, <2>4, <2>5, <2>6, <2>2, TreeFacts
    <3> QED BY <2>4, <2>5, <2>6, <3>1
  <2>8. pc[x] = "done"
    BY <1>1, <1>3, <1>4, <2>1, <2>4, <2>5, <2>7 DEF InOrder, Active
  <2> QED BY <1>1, <2>2, <2>8 DEF StackInv, Active
<1>5. Kind(d) = "iterator_definition" => d \notin Path(cur)
  BY <1>1, <1>3 DEF StackInv, Active, Untyped
<1> QED BY <1>1, <1>4, <1>5

LEMMA BehindAfter ==
  ASSUME ResultInductive, ResolvedBehind, [Next]_vars
  PROVE  ResolvedBehind'
<1>1. CASE UNCHANGED vars
  BY <1>1 DEF ResolvedBehind, vars, Path, Parent, Kind, Node
<1>2. CASE Next
  <2>1. /\ ResultsMove /\ ResolutionMoves /\ ReferencesMove /\ Active(cur)
    BY <1>2, NextResults DEF ResultsMove, TablesMove
  <2>2. /\ prog' = prog /\ cur \in Node /\ \A n \in Node \ {cur} : resolved'[n] = resolved[n]
    BY <2>1, OthersStay
  <2>3. /\ LexicalInductive /\ prog \in Programs /\ resolved \in [Node -> MaybeNode]
    BY DEF ResultInductive, LexicalInductive, WalkInductive, Inductive, TypeOK
  <2>4. ASSUME NEW n \in Node, NEW d, d = resolved'[n], d # 0
        PROVE  /\ Parent(d) \in Path(n) /\ Kind(Parent(d)) \in Statements => d <= n
               /\ Kind(d) = "iterator_definition" => d \notin Path(n)
    <3>1. CASE d = resolved[n]
      BY <2>4, <3>1 DEF ResolvedBehind
    <3>2. CASE d # resolved[n]
      <4>1. n = cur /\ resolved' # resolved
        BY <2>2, <2>4, <3>2
      <4>2. PICK e : e = Lookup(Name(cur), ScopeAround(cur), Candidates(cur))
        OBVIOUS
      <4>3. Kind(cur) \notin Openers /\ e # 0 /\ resolved' = [resolved EXCEPT ![cur] = e]
        BY <2>1, <4>1, <4>2 DEF ResolutionMoves
      <4>4. d = e
        BY <2>2, <2>3, <2>4, <4>1, <4>3
      <4>5. Candidates(cur) \subseteq DefinitionKinds
        BY DEF Candidates, DefinitionKinds
      <4>6. d \in Node /\ Kind(d) \in DefinitionKinds /\ d \in defs[BlockAround(d)]
        BY <2>1, <2>2, <2>3, <4>2, <4>3, <4>4, <4>5, ResolvesLexically
      <4>7. d # 1
        BY <2>3, <4>6, ProgramFacts DEF DefinitionKinds, VariableKinds, FunctionKinds
      <4>8. Kind(cur) \in References
        BY <2>1, <4>1 DEF ReferencesMove
      <4>9. Kind(Parent(d)) \in Statements => Parent(d) # cur /\ Kind(Parent(d)) # "if_expr"
        BY <4>8 DEF Statements, References
      <4> QED BY <2>1, <2>2, <4>1, <4>6, <4>7, <4>9, ResolvesBehind
    <3> QED BY <3>1, <3>2
  <2>5. /\ Node' = Node /\ \A n : (Path(n)' = Path(n) /\ Kind(n)' = Kind(n) /\ Parent(n)' = Parent(n))
    BY <2>2, SameTree DEF Path
  <2>6. \A n : /\ Kind(resolved[n])' = Kind(resolved'[n]) /\ Parent(resolved[n])' = Parent(resolved'[n])
               /\ Kind(Parent(resolved[n]))' = Kind(Parent(resolved'[n]))
    BY <2>2 DEF Kind, Parent
  <2> QED BY <2>4, <2>5, <2>6 DEF ResolvedBehind
<1> QED BY <1>1, <1>2

\* Before the analyzer has accepted the program nothing is generated.
NotBegun ==
  status # "accepted" => step = [n \in Node |-> 0] /\ value = [n \in Node |-> NullValue] /\ faults = {}

\* What the handler of m leaves in the module: that of a function its name, unless the
\* runtime has it, and that of a lambda its first block, which variables hold.
LeftBehind(m) ==
  /\ Kind(m) \in Callables => step[m] # 0
  /\ Kind(m) = "variable_definition" => step[m] # 0 \/ IsGlobal(m)
  /\ Kind(m) \in FunctionKinds => Name(m) \in DOMAIN symbol \cup RuntimeNames

\* Bodies, loops and variables accept what is theirs without exception, so that everything
\* up to the node the walk is at has left something behind.
Thorough == Statements \cup Loops \cup {"variable_definition"}
HandlersLeave ==
  \A m \in Node \ {1} : Kind(Handler(m)) \in Thorough /\ Visited(m) /\ (m # gcur \/ step[m] # 0) => LeftBehind(m)

SymbolsAreDefined == \A x \in DOMAIN symbol : Kind(symbol[x]) \in DefinitionKinds

\* What a step does to the symbols, and how far bodies come in one.
Leaves ==
  /\ symbol' = symbol \/ (Kind(gcur) \in DefinitionKinds \cup {"lambda"} /\ symbol' = Entered(gcur))
  /\ UNCHANGED <<gcur, step>> \/
       /\ Kind(gcur) \in FunctionKinds => step[gcur] # 0 \/ symbol' = Entered(gcur)
       /\ Kind(gcur) = "variable_definition" => step[gcur] # 0 \/ IsGlobal(gcur) \/ step'[gcur] # 0
       /\ Kind(gcur) \in Statements => step' = step \/ step'[gcur] = step[gcur] + 1
       /\ Kind(gcur) = "lambda" => step[gcur] # 0 \/ step'[gcur] # 0

LEMMA ActionsLeave ==
  ASSUME prog \in Programs, WalkInv, Generate
  PROVE  Leaves
<1>1. gcur \in Node /\ step \in [Node -> Nat]
  BY DEF WalkInv
<1>2. CASE Die
  BY <1>2 DEF Die, Leaves, code
<1>3. ASSUME NEW o, Finish(o), ~Die, Kind(gcur) \notin FunctionKinds \cup {"variable_definition", "lambda"}
      PROVE  Leaves
  BY <1>3 DEF Finish, Give, Leaves, code
<1>4. CASE EmitRoot
  BY <1>4 DEF EmitRoot, Leaves, code
<1>5. CASE /\ ~EmitRoot
           /\ \/ EmitLeaf \/ EmitOperator \/ EmitList \/ EmitSet \/ EmitCall \/ EmitBody \/ EmitNothing
  <2>1. /\ \E o : Finish(o)
        /\ Kind(gcur) \in {"literal", "variable", "binary_op", "unary_op", "list_op", "list", "set_expression",
                           "function_call", "function_body", "when_loop", "infinite_loop"}
    BY <1>5 DEF EmitLeaf, EmitOperator, EmitList, EmitSet, EmitCall, EmitBody, EmitNothing, Emitting, Generating
  <2>2. Kind(gcur) \notin FunctionKinds \cup {"variable_definition", "lambda"}
    BY <2>1 DEF FunctionKinds
  <2> QED BY <1>2, <1>3, <2>1, <2>2
<1>6. CASE VisitOperand
  <2>1. PICK i : i = Above(Upcoming(gcur)) /\ step' = [step EXCEPT ![gcur] = i]
    BY <1>6 DEF VisitOperand, Visit
  <2>2. symbol' = symbol /\ Kind(gcur) \in Plain /\ Upcoming(gcur) # {}
    BY <1>6 DEF VisitOperand, code
  <2>3. Kind(gcur) \notin FunctionKinds \cup {"variable_definition", "lambda"}
    BY <2>2 DEF Plain, Operators, Statements, FunctionKinds
  <2>4. ASSUME Kind(gcur) \in Statements
        PROVE  i = step[gcur] + 1
    <3>1. DOMAIN Children(gcur) = 1 .. Len(Children(gcur)) /\ Len(Children(gcur)) \in Nat
      <4>1. prog \in Seq(NodeRecord) /\ prog[gcur] \in NodeRecord
        BY <1>1, ProgramsAssumption DEF WellFormed, Node
      <4> QED BY <4>1, <1>1, ProgramFacts DEF NodeRecord, Children
    <3>2. \A k : Accepts(gcur, k)
      BY <2>4 DEF Accepts, Statements
    <3>3. Upcoming(gcur) = {k \in 1 .. Len(Children(gcur)) : k > step[gcur]}
      BY <3>1, <3>2 DEF Upcoming
    <3>4. i \in Upcoming(gcur) /\ \A k \in Upcoming(gcur) : i <= k
      <4>1. Upcoming(gcur) \in SUBSET Nat
        BY <3>1, <3>3
      <4> QED BY <2>1, <2>2, <4>1, AbovePicks
    <3>5. step[gcur] \in Nat /\ step[gcur] + 1 <= i /\ i \in 1 .. Len(Children(gcur))
      BY <1>1, <3>1, <3>3, <3>4
    <3>6. step[gcur] + 1 \in Upcoming(gcur)
      BY <3>1, <3>3, <3>5
    <3> QED BY <3>1, <3>4, <3>5, <3>6
  <2> QED BY <1>1, <2>1, <2>2, <2>3, <2>4 DEF Leaves
<1>7. CASE (EmitExtern \/ DeclareGlobal) /\ ~Die
  <2>1. /\ \/ Kind(gcur) = "extern_function" /\ symbol' = Entered(gcur)
           \/ Kind(gcur) = "variable_definition" /\ IsGlobal(gcur) /\ symbol' \in {symbol, Entered(gcur)}
    BY <1>7 DEF EmitExtern, DeclareGlobal, Generating
  <2> QED BY <2>1 DEF Leaves, FunctionKinds, Statements, DefinitionKinds, VariableKinds
<1>8. CASE (OpenVariable \/ EmitVariable) /\ ~Die
  <2>1. Kind(gcur) = "variable_definition" /\ symbol' = symbol
    BY <1>8 DEF OpenVariable, EmitVariable, Generating, code
  <2>2. step[gcur] # 0 \/ step'[gcur] # 0
    BY <1>1, <1>8 DEF OpenVariable, EmitVariable, Generating, Visit
  <2> QED BY <2>1, <2>2 DEF Leaves, FunctionKinds, Statements
<1>9. CASE (OpenFunction \/ CloseFunction) /\ ~Die
  <2>1. Kind(gcur) \in Callables /\ symbol' \in {symbol, Entered(gcur)}
    BY <1>9 DEF OpenFunction, CloseFunction, Generating
  <2>2. step[gcur] # 0 \/ (symbol' = Entered(gcur) /\ step'[gcur] # 0)
    BY <1>1, <1>9 DEF OpenFunction, CloseFunction, Generating, Visit
  <2>3. Kind(gcur) \in DefinitionKinds \cup {"lambda"} /\ Kind(gcur) \notin Statements \cup {"variable_definition"}
    BY <2>1 DEF DefinitionKinds, FunctionKinds, Callables, Statements
  <2> QED BY <2>1, <2>2, <2>3 DEF Leaves
<1>10. CASE /\ ~Die
            /\ OpenIf \/ BeginThen \/ BeginElse \/ MergeBranches \/ OpenLoop \/ BeginIteration \/ CloseLoop
  <2>1. Kind(gcur) \in {"if_expr", "do_loop", "collect_loop"} /\ symbol' = symbol
    BY <1>10 DEF OpenIf, BeginThen, BeginElse, MergeBranches, OpenLoop, BeginIteration, CloseLoop, Generating,
                 Loops, LeaveIfUnfinished, code
  <2> QED BY <2>1 DEF Leaves, FunctionKinds, Statements
<1> QED BY <1>2, <1>4, <1>5, <1>6, <1>7, <1>8, <1>9, <1>10 DEF Generate

\* The node the walk leaves alone.
LEMMA ValuesHere ==
  ASSUME prog \in Programs, WalkInv, value \in [Node -> Value], Generate
  PROVE  /\ \A n \in Node : n # gcur => value'[n] = value[n]
         /\ \A n : <<"null", n>> \in faults' => <<"null", n>> \in faults \/ n = gcur
         /\ Kind(gcur) = "function_call" =>
              \/ UNCHANGED <<value, faults>>
              \/ LET o == CallOutcome(gcur) IN o.v # Dead /\ Give(o.v, o.wrong)
<1>1. gcur \in Node
  BY DEF WalkInv
<1>2. CASE UNCHANGED <<value, faults>>
  BY <1>2
<1>3. ASSUME NEW v, NEW wrong, Give(v, wrong)
      PROVE  /\ \A n \in Node : n # gcur => value'[n] = value[n]
             /\ \A n : <<"null", n>> \in faults' => <<"null", n>> \in faults \/ n = gcur
  BY <1>1, <1>3 DEF Give
<1>4. CASE /\ Kind(gcur) # "function_call"
           /\ \E v, wrong : Give(v, wrong)
  BY <1>3, <1>4
<1>5. CASE EmitCall
  BY <1>3, <1>5 DEF EmitCall, Finish, Die
<1>6. CASE VisitOperand \/ EmitRoot \/ OpenVariable \/ OpenFunction \/ OpenIf \/ OpenLoop
  BY <1>2, <1>6 DEF VisitOperand, EmitRoot, OpenVariable, OpenFunction, OpenIf, OpenLoop, Visit, Die
<1>7. CASE BeginThen \/ BeginIteration
  <2>1. Kind(gcur) # "function_call" /\ value' = value
    BY <1>7 DEF BeginThen, BeginIteration, Generating, Loops, Die
  <2>2. faults' = faults \/ \E W : faults' = faults \cup {<<w, gcur>> : w \in W}
    BY <1>7 DEF BeginThen, BeginIteration, Die
  <2> QED BY <2>1, <2>2
<1>8. CASE \/ EmitLeaf \/ EmitOperator \/ EmitList \/ EmitSet \/ EmitBody \/ EmitNothing
  <2>1. (\E o : Finish(o)) /\ Kind(gcur) # "function_call"
    BY <1>8 DEF EmitLeaf, EmitOperator, EmitList, EmitSet, EmitBody, EmitNothing, Emitting, Generating
  <2> QED BY <1>2, <1>4, <2>1 DEF Finish, Die
<1>9. CASE \/ EmitExtern \/ DeclareGlobal \/ EmitVariable \/ CloseFunction \/ BeginElse \/ MergeBranches \/ CloseLoop
  <2>1. Kind(gcur) # "function_call"
    BY <1>9 DEF EmitExtern, DeclareGlobal, EmitVariable, CloseFunction, BeginElse, MergeBranches, CloseLoop,
                Generating, Callables, Loops
  <2>2. Die \/ (\E v, wrong : Give(v, wrong)) \/ UNCHANGED <<value, faults>>
    BY <1>9 DEF EmitExtern, DeclareGlobal, EmitVariable, CloseFunction, BeginElse, MergeBranches, CloseLoop,
                LeaveIfUnfinished, Visit
  <2> QED BY <1>2, <1>4, <2>1, <2>2 DEF Die
<1> QED BY <1>5, <1>6, <1>7, <1>8, <1>9 DEF Generate

LEMMA EnteredFacts ==
  ASSUME NEW n
  PROVE  /\ DOMAIN symbol \subseteq DOMAIN Entered(n)
         /\ \A x \in DOMAIN Entered(n) :
              (x \in DOMAIN symbol /\ Entered(n)[x] = symbol[x]) \/ (Entered(n)[x] = n /\ Kind(n) # "lambda")
         /\ Kind(n) # "lambda" => Name(n) \in DOMAIN Entered(n) \cup RuntimeNames
BY DEF Entered, Onto

LEMMA LeavesAfter ==
  ASSUME GeneratorInductive, ValuesInv, HandlersLeave, SymbolsAreDefined, status = "accepted", Generate, UNCHANGED vars
  PROVE  HandlersLeave' /\ SymbolsAreDefined'
<1>1. /\ prog \in Programs /\ WalkInv /\ prog' = prog /\ gcur \in Node /\ step \in [Node -> Nat] /\ StepsAreTaken
      /\ scopeOf' = scopeOf /\ chain' = chain
  BY WhatIsAccepted DEF vars, WalkInv
<1>2. Leaves /\ Moves
  BY <1>1, ActionsLeave, GenerateMoves
<1>3. /\ Node' = Node
      /\ \A n : (Kind(n)' = Kind(n) /\ Parent(n)' = Parent(n) /\ Name(n)' = Name(n) /\ Handler(n)' = Handler(n))
      /\ \A n, i : Operand(n, i)' = Operand(n, i)
  BY <1>1, SameTree, SameOperands DEF Name
<1>4. \A m : IsGlobal(m)' <=> IsGlobal(m)
  BY <1>1 DEF IsGlobal, Parent
<1>5. /\ DOMAIN symbol \subseteq DOMAIN symbol'
      /\ \A x \in DOMAIN symbol' :
           (x \in DOMAIN symbol /\ symbol'[x] = symbol[x]) \/ (symbol'[x] = gcur /\ Kind(gcur) \in DefinitionKinds)
  <2>1. CASE symbol' = symbol
    BY <2>1
  <2>2. CASE Kind(gcur) \in DefinitionKinds \cup {"lambda"} /\ symbol' = Entered(gcur)
    BY <2>2, EnteredFacts
  <2> QED BY <1>2, <2>1, <2>2 DEF Leaves
<1>6. SymbolsAreDefined'
  BY <1>3, <1>5 DEF SymbolsAreDefined
<1>7. \A m \in Node : /\ Handler(m)' = Handler(m)
                     /\ Visited(m)' <=> \E k \in 1 .. step'[Handler(m)] : m = Operand(Handler(m), k)
  BY <1>1, <1>3, SameOperands DEF Visited
<1> DEFINE Old(m) == Kind(Handler(m)) \in Thorough /\ Visited(m) /\ (m # gcur \/ step[m] # 0)
           New(m) == Kind(Handler(m)) \in Thorough /\ (\E k \in 1 .. step'[Handler(m)] : m = Operand(Handler(m), k))
                       /\ (m # gcur' \/ step'[m] # 0)
           Left(m) == /\ Kind(m) \in Callables => step'[m] # 0
                      /\ Kind(m) = "variable_definition" => step'[m] # 0 \/ IsGlobal(m)
                      /\ Kind(m) \in FunctionKinds => Name(m) \in DOMAIN symbol' \cup RuntimeNames
<1>8. SUFFICES ASSUME NEW m \in Node \ {1}, New(m) PROVE Left(m)
  BY <1>3, <1>4, <1>6, <1>7 DEF HandlersLeave, LeftBehind
<1>9. \A k \in Node : step[k] # 0 => step'[k] # 0
  <2>1. ASSUME NEW i, Descend(i)
        PROVE  \A k \in Node : step[k] # 0 => step'[k] # 0
    <3>1. step' = [step EXCEPT ![gcur] = i] /\ i \in Steps(gcur)
      BY <2>1 DEF Descend
    <3>2. i # 0
      BY <1>1, <3>1, StepsBefore
    <3> QED BY <1>1, <3>1, <3>2
  <2> QED BY <1>1, <1>2, <2>1, TurnsMove DEF Moves, Stays, Ascend
<1>10. ASSUME Old(m) PROVE Left(m)
  <2>1. LeftBehind(m)
    BY <1>10 DEF HandlersLeave
  <2> QED BY <1>5, <1>9, <2>1 DEF LeftBehind
<1>11. CASE UNCHANGED <<gcur, step>>
  <2>1. Old(m)
    BY <1>3, <1>8, <1>11 DEF Visited
  <2> QED BY <1>10, <2>1
<1>12. ASSUME ~UNCHANGED <<gcur, step>>, m = gcur, step[m] = 0, step'[m] # 0 \/ Ascend
       PROVE  Left(m)
  <2>1. Kind(m) \in FunctionKinds => Name(m) \in DOMAIN symbol' \cup RuntimeNames
    BY <1>2, <1>12, EnteredFacts DEF Leaves, FunctionKinds
  <2>2. Kind(m) = "variable_definition" => step'[m] # 0 \/ IsGlobal(m)
    BY <1>2, <1>12 DEF Leaves
  <2>3. Kind(m) \in Callables => step'[m] # 0
    <3>1. Kind(m) \in Callables /\ ~UNCHANGED <<gcur, step>> => \/ \E i : FunctionOpens /\ Descend(i)
                                                               \/ step[m] # 0
      BY <1>2, <1>12 DEF Moves, Stays, Turns, Passes, Returns, FunctionOpens, FunctionCloses, ThenBegins, ElseBegins,
           ElseFails, BranchesMerge, IterationBegins, LoopCloses, Callables, Loops
    <3> QED BY <1>1, <1>9, <1>12, <3>1 DEF FunctionOpens, Descend
  <2> QED BY <2>1, <2>2, <2>3
<1>13. CASE \E i : Descend(i)
  <2>1. PICK i : Descend(i)
    BY <1>13
  <2>2. /\ gcur' = Operand(gcur, i) /\ step' = [step EXCEPT ![gcur] = i] /\ i \in Steps(gcur) /\ i \in Nat /\ i > 0
        /\ gcur' \in Node \ {1} /\ Handler(gcur') = gcur /\ step[gcur'] = 0 /\ step[gcur] < i
    BY <1>1, <2>1, OperandIsNew, StepsBefore DEF Descend
  <2>3. CASE m = gcur
    <3>1. CASE step[m] = 0
      BY <1>1, <1>12, <2>2, <2>3, <3>1
    <3>2. CASE step[m] # 0
      <4>1. Visited(m)
        <5>1. Handler(m) # gcur /\ Handler(m) \in Node
          BY <1>1, <2>3, OperandPath, HandlerOf, ProgramFacts
        <5> QED BY <1>1, <1>8, <2>2, <5>1 DEF Visited
      <4> QED BY <1>8, <1>10, <3>2, <4>1
    <3> QED BY <3>1, <3>2
  <2>4. CASE m # gcur
    <3>1. m # gcur'
      <4>1. m = gcur' => step'[m] = 0
        BY <1>1, <2>2, <2>4
      <4> QED BY <1>8, <4>1
    <3>2. PICK k \in 1 .. step'[Handler(m)] : m = Operand(Handler(m), k)
      BY <1>8
    <3>3. Handler(m) \in Node
      BY <1>1, HandlerOf
    <3>4. CASE Handler(m) # gcur
      <4>1. Visited(m)
        BY <1>1, <2>2, <3>2, <3>3, <3>4 DEF Visited
      <4> QED BY <1>8, <1>10, <2>4, <4>1
    <3>5. CASE Handler(m) = gcur
      <4>1. i = step[gcur] + 1
        <5>1. CASE Kind(gcur) \in Statements
          BY <1>1, <1>2, <2>2, <5>1 DEF Leaves
        <5>2. CASE Kind(gcur) \in Loops \cup {"variable_definition"}
          <6>1. step[gcur] \in Nat /\ i \in Nat /\ step[gcur] < i /\ (Kind(gcur) = "variable_definition" => i \in 1 .. 1)
            BY <1>1, <2>2, <5>2, ShapeFacts DEF Steps, Callables
          <6>2. Kind(gcur) \in Loops => i \in 1 .. 2 /\ (step[gcur] = 0 => i = 1)
            <7>1. Kind(gcur) \in Loops => i \in 1 .. 2
              BY <1>1, <2>2, LoopShape DEF Steps, Callables, Loops
            <7>2. Kind(gcur) \in Loops => \/ Passes(step'[gcur]) \/ UNCHANGED step \/ step[gcur] = 1
              BY <1>1, <1>2, <2>2 DEF Moves, Stays, Turns, Passes, Descend, Returns, Ascend, FunctionOpens,
                      FunctionCloses, ThenBegins, ElseBegins, ElseFails, BranchesMerge, IterationBegins, LoopCloses,
                      Callables, Loops
            <7>3. step'[gcur] = i
              BY <1>1, <2>2
            <7> QED BY <1>1, <2>2, <7>1, <7>2, <7>3 DEF Passes, Constructs
          <6> QED BY <5>2, <6>1, <6>2
        <5> QED BY <1>8, <3>5, <5>1, <5>2 DEF Thorough
      <4>2. k # i
        BY <2>2, <3>1, <3>2, <3>5
      <4>3. k \in 1 .. step[gcur]
        BY <1>1, <2>2, <3>2, <3>5, <4>1, <4>2
      <4> QED BY <1>8, <1>10, <2>4, <3>2, <3>5, <4>3 DEF Visited
    <3> QED BY <3>4, <3>5
  <2> QED BY <2>3, <2>4
<1>14. CASE Ascend /\ ~UNCHANGED <<gcur, step>>
  <2>1. step' = step /\ Visited(m)
    BY <1>8, <1>14 DEF Ascend, Visited
  <2> QED BY <1>8, <1>10, <1>12, <1>14, <2>1
<1> QED BY <1>1, <1>2, <1>11, <1>13, <1>14, TurnsMove DEF Moves, Stays

\* The child of a node in progress is in the past of the walk, if what resolves to it is.
LEMMA StatementVisited ==
  ASSUME prog \in Programs, WalkInv, NEW d \in Node, Kind(d) \in FunctionKinds \cup {"variable_definition"},
         Parent(d) \in Path(gcur), Parent(d) # gcur, d <= gcur
  PROVE  d # 1 /\ Visited(d) /\ Kind(Handler(d)) \in Thorough
<1>1. /\ d # 1 /\ Parent(d) \in Node /\ Kind(Parent(d)) \in Statements /\ Handler(d) = Parent(d)
      /\ gcur \in Node
  BY StatementsHold DEF WalkInv
<1>2. PICK b \in Path(gcur) : b = Parent(d)
  OBVIOUS
<1>3. b \in Node /\ b # gcur /\ Kind(b) \in Statements /\ Kind(b) # "iterator_definition"
      /\ Kind(b) \notin Callables \cup Loops
  BY <1>1, <1>2 DEF Statements, Callables, Loops
<1>4. step[b] \in Steps(b) /\ Operand(b, step[b]) \in Path(gcur)
  BY <1>2, <1>3, InProgress
<1>5. Steps(b) = 1 .. Len(Children(b)) /\ \A k : Operand(b, k) = Child(b, k)
  BY <1>3 DEF Steps, Operand
<1>6. PICK j \in 1 .. Len(Children(b)) : Child(b, j) = d
  BY <1>1, <1>2, TreeFacts
<1>7. j <= step[b]
  BY <1>1, <1>3, <1>4, <1>5, <1>6, ChildInTurn
<1>8. j \in 1 .. step[b]
  <2>1. Len(Children(b)) \in Nat
    BY <1>3, ProgramFacts
  <2> QED BY <1>4, <1>5, <1>6, <1>7, <2>1
<1> QED BY <1>1, <1>2, <1>5, <1>6, <1>8 DEF Visited, Thorough

\* The first block of a lambda whose handler has been come to.
LEMMA LambdaIsThere ==
  ASSUME prog \in Programs, WalkInv, BlocksAreTheirs, HandlersLeave, NEW f \in Node, Kind(f) = "lambda",
         Kind(gcur) # "lambda", Visited(f), Kind(Handler(f)) \in Thorough
  PROVE  f \in {b[1] : b \in DOMAIN blocks}
<1>1. f # 1
  BY ProgramFacts
<1>2. f # gcur /\ Kind(f) \in Callables
  BY DEF Callables
<1>3. step[f] # 0
  BY <1>1, <1>2 DEF HandlersLeave, LeftBehind
<1>4. step[f] = 1
  BY <1>2, <1>3 DEF WalkInv, StepsAreTaken, Steps
<1>5. "entry" \in LabelsOf(f)
  BY <1>2, <1>4 DEF LabelsOf, Defines, Forks, Iterates
<1>6. <<f, "entry">> \in DOMAIN blocks
  BY <1>5 DEF BlocksAreTheirs, Labels
<1> QED BY <1>6

\* Where a call of what the program defines under one name is, the callee is there.
LEMMA CalleeIsThere ==
  ASSUME GeneratorInductive, ValuesInv, ResolvedBehind, HandlersLeave, SymbolsAreDefined, status = "accepted",
         Kind(gcur) = "function_call", NEW d, d = resolved[gcur],
         Name(gcur) \notin RuntimeNames,
         {e \in Node : Kind(e) \in DefinitionKinds /\ Name(e) = Name(gcur) /\ e # d} = {},
         Parent(d) \in Path(gcur), ~(Kind(d) = "variable_definition" /\ IsGlobal(d))
  PROVE  Callee(gcur) = {CallableOf(d)}
<1>1. /\ prog \in Programs /\ WalkInv /\ BlocksAreTheirs /\ gcur \in Node
      /\ d \in Node /\ Kind(d) \in DefinitionKinds /\ CallFailures(gcur, d) = {}
  BY WhatIsAccepted DEF WalkInv
<1>2. d # 0
  BY <1>1, ProgramFacts
<1>3. Name(d) = Name(gcur)
  BY <1>1, <1>2 DEF GeneratorInductive, ResultInductive, LexicalInductive, LexicalResolution
<1>4. Kind(d) # "formal" /\ (Kind(d) \in VariableKinds => Kind(Child(d, 1)) = "lambda")
  BY <1>1, <1>2 DEF CallFailures
<1>5. Kind(gcur) \notin Statements \cup Loops \cup {"iterator_definition"}
  BY DEF Statements, Loops
<1>6. CASE Kind(d) \in FunctionKinds
  <2>1. Parent(d) # gcur /\ d <= gcur
    BY <1>1, <1>2, <1>5, <1>6, StatementsHold DEF ResolvedBehind
  <2>2. d # 1 /\ Visited(d) /\ Kind(Handler(d)) \in Thorough
    BY <1>1, <1>6, <2>1, StatementVisited
  <2>3. d # gcur
    BY <1>6 DEF FunctionKinds
  <2>4. Name(gcur) \in DOMAIN symbol
    BY <1>1, <1>3, <1>6, <2>2, <2>3 DEF HandlersLeave, LeftBehind
  <2>5. symbol[Name(gcur)] = d
    BY <1>1, <2>4 DEF ValuesInv, SymbolsInv, SymbolsAreDefined
  <2>6. CallableOf(d) = d /\ Kind(d) # "lambda"
    BY <1>6 DEF CallableOf, FunctionKinds, VariableKinds
  <2>7. Callee(gcur) = {e \in Node : Kind(e) \in FunctionKinds /\ Name(gcur) \in DOMAIN symbol /\ symbol[Name(gcur)] = e}
    BY <2>6 DEF Callee
  <2> QED BY <1>1, <1>6, <2>4, <2>5, <2>6, <2>7
<1>7. ASSUME NEW f \in Node, f = Child(d, 1), Kind(d) \in VariableKinds, Kind(f) = "lambda", Visited(f),
             Kind(Handler(f)) \in Thorough
      PROVE  Callee(gcur) = {CallableOf(d)}
  <2>1. CallableOf(d) = f
    BY <1>7 DEF CallableOf
  <2>2. f \in {b[1] : b \in DOMAIN blocks}
    BY <1>1, <1>7, LambdaIsThere
  <2>3. Callee(gcur) = {f} \cap {b[1] : b \in DOMAIN blocks}
    BY <1>7, <2>1 DEF Callee
  <2> QED BY <2>1, <2>2, <2>3
<1>8. CASE Kind(d) = "variable_definition"
  <2>1. Parent(d) # gcur /\ d <= gcur
    BY <1>1, <1>2, <1>5, <1>8, StatementsHold DEF ResolvedBehind
  <2>2. d # 1 /\ Visited(d) /\ Kind(Handler(d)) \in Thorough
    BY <1>1, <1>8, <2>1, StatementVisited
  <2>3. step[d] # 0
    BY <1>1, <1>8, <2>2 DEF HandlersLeave, LeftBehind
  <2>4. Steps(d) = 1 .. 1 /\ 1 \in 1 .. Len(Children(d)) /\ Operand(d, 1) = Child(d, 1)
    <3>1. Len(Children(d)) = 1
      BY <1>1, <1>8, ShapeFacts
    <3>2. 1 \in 1 .. Len(Children(d))
      BY <3>1
    <3> QED BY <1>8, <3>1, <3>2 DEF Steps, Operand, Callables, Loops
  <2>5. step[d] = 1
    BY <1>1, <2>3, <2>4 DEF WalkInv, StepsAreTaken
  <2>6. PICK f \in Node \ {1} : f = Child(d, 1) /\ Parent(f) = d
    BY <1>1, <2>4, TreeFacts
  <2>7. Handler(f) = d
    BY <1>8, <2>6 DEF Handler
  <2>8. Visited(f)
    BY <2>4, <2>5, <2>6, <2>7 DEF Visited
  <2> QED BY <1>4, <1>7, <1>8, <2>6, <2>7, <2>8 DEF VariableKinds, Thorough
<1>9. CASE Kind(d) = "iterator_definition"
  <2>1. PICK p \in Node : p = Parent(d) /\ Kind(p) \in Loops /\ d = IteratorOf(p)
    BY <1>1, <1>9, IteratorShape
  <2>2. p \in Path(gcur) /\ p # gcur /\ Kind(p) # "iterator_definition"
    BY <1>5, <2>1 DEF Loops
  <2>3. step[p] \in Steps(p) /\ Operand(p, step[p]) \in Path(gcur)
    BY <1>1, <2>2, InProgress
  <2>4. step[p] \in {1, 2}
    <3>1. Len(Children(p)) = 2
      BY <1>1, <2>1, LoopShape
    <3> QED BY <2>1, <2>3, <3>1 DEF Steps, Loops, Callables
  <2>5. Operand(p, 1) = Child(d, 1)
    BY <2>1 DEF Operand, Loops, Callables
  <2>6. PICK f \in Node \ {1} : f = Child(d, 1) /\ Parent(f) = d
    BY <1>1, <2>1, LoopShape
  <2>7. f \notin Path(gcur)
    <3>1. d \notin Path(gcur)
      BY <1>1, <1>2, <1>9 DEF ResolvedBehind
    <3>2. d \in Path(f)
      BY <1>1, <2>6, PathFacts
    <3> QED BY <1>1, <3>1, <3>2, PathFacts
  <2>8. step[p] = 2
    BY <2>3, <2>4, <2>5, <2>6, <2>7
  <2>9. Handler(f) = p
    BY <1>9, <2>1, <2>6 DEF Handler
  <2>10. Visited(f)
    BY <2>5, <2>6, <2>8, <2>9 DEF Visited
  <2> QED BY <1>4, <1>7, <1>9, <2>1, <2>6, <2>9, <2>10 DEF VariableKinds, Thorough
<1> QED BY <1>1, <1>4, <1>6, <1>8, <1>9 DEF DefinitionKinds, VariableKinds

CallInv == ResolvedBehind /\ NotBegun /\ HandlersLeave /\ SymbolsAreDefined /\ CallsReachTheirCallee

LEMMA CallsReachAfter ==
  ASSUME GeneratorInductive, ValuesInv, CallInv, status = "accepted", Generate, UNCHANGED vars
  PROVE  CallsReachTheirCallee'
<1>1. /\ prog \in Programs /\ WalkInv /\ gcur \in Node /\ prog' = prog /\ resolved' = resolved
      /\ scopeOf' = scopeOf /\ chain' = chain /\ value \in [Node -> Value]
  BY WhatIsAccepted DEF vars, WalkInv, ValuesInv
<1>2. /\ \A n \in Node : n # gcur => value'[n] = value[n]
      /\ \A n : <<"null", n>> \in faults' => <<"null", n>> \in faults \/ n = gcur
      /\ Kind(gcur) = "function_call" =>
           \/ UNCHANGED <<value, faults>>
           \/ LET o == CallOutcome(gcur) IN o.v # Dead /\ Give(o.v, o.wrong)
  BY <1>1, ValuesHere
<1> DEFINE Escapes(n, d) ==
             \/ Name(n) \in RuntimeNames \/ {e \in Node : Kind(e) \in DefinitionKinds /\ Name(e) = Name(n) /\ e # d} # {}
             \/ Parent(d) \notin Path(n) \/ (Kind(d) = "variable_definition" /\ IsGlobal(d))
<1>3. ASSUME NEW n \in Node, Kind(n) = "function_call", value'[n] # NullValue \/ <<"null", n>> \in faults'
      PROVE  Escapes(n, resolved[n]) \/ value'[n].def = CallableOf(resolved[n])
  <2>1. CASE value'[n] = value[n] /\ (<<"null", n>> \in faults' => <<"null", n>> \in faults)
    BY <1>3, <2>1 DEF CallInv, CallsReachTheirCallee
  <2>2. CASE n = gcur /\ ~UNCHANGED <<value, faults>> /\ ~Escapes(n, resolved[n])
    <3>1. PICK o : o = CallOutcome(n) /\ o.v # Dead /\ Give(o.v, o.wrong)
      BY <1>2, <1>3, <2>2
    <3>2. PICK f : f = CallableOf(resolved[n])
      OBVIOUS
    <3>3. Callee(n) = {f}
      BY <1>3, <2>2, <3>2, CalleeIsThere DEF CallInv
    <3>4. PICK args, s : o = CallOf(s, args, f)
      <4>1. (CHOOSE g \in Callee(n) : TRUE) = f
        BY <3>3
      <4> QED BY <3>1, <3>3, <4>1 DEF CallOutcome
    <3>5. o.v = Of(s.gives, f)
      BY <3>1, <3>4 DEF CallOf, Outcome
    <3>6. value'[n] = o.v
      BY <1>1, <2>2, <3>1 DEF Give
    <3> QED BY <3>2, <3>5, <3>6 DEF Of
  <2> HIDE DEF Escapes
  <2> QED BY <1>2, <1>3, <2>1, <2>2
<1>4. /\ Node' = Node /\ NullValue' = NullValue
      /\ \A n : /\ Kind(n)' = Kind(n) /\ Name(n)' = Name(n) /\ Path(n)' = Path(n)
                /\ Kind(resolved[n])' = Kind(resolved[n]) /\ Parent(resolved[n])' = Parent(resolved[n])
                /\ CallableOf(resolved[n])' = CallableOf(resolved[n])
                /\ IsGlobal(resolved[n])' <=> IsGlobal(resolved[n])
  BY <1>1 DEF Node, NullValue, Failed, Kind, Name, Path, Parent, CallableOf, Child, IsGlobal
<1> QED BY <1>1, <1>3, <1>4 DEF CallsReachTheirCallee

LEMMA CallsPreserved ==
  ASSUME GeneratorInductive, ValuesInv, CallInv, [CompilerNext]_<<vars, gvars>>
  PROVE  CallInv'
<1>1. prog' = prog /\ prog \in Programs
  BY PhiPreserved DEF GeneratorInductive, PhiInductive
<1>2. ResolvedBehind'
  <2>1. ResultInductive /\ ResolvedBehind /\ [Next]_vars
    BY DEF GeneratorInductive, CallInv, CompilerNext
  <2> QED BY <2>1, BehindAfter
<1>3. /\ Node' = Node /\ NullValue' = NullValue
      /\ \A n : /\ Kind(n)' = Kind(n) /\ Parent(n)' = Parent(n) /\ Name(n)' = Name(n)
                /\ Path(n)' = Path(n) /\ Handler(n)' = Handler(n)
      /\ \A n, i : Operand(n, i)' = Operand(n, i)
  BY <1>1, SameTree, SameOperands DEF Name, Path, NullValue, Failed
<1>4. CASE UNCHANGED <<vars, gvars>>
  <2>1. NotBegun' /\ SymbolsAreDefined'
    BY <1>3, <1>4 DEF CallInv, NotBegun, SymbolsAreDefined, vars, gvars, code
  <2>2. HandlersLeave'
    BY <1>3, <1>4 DEF CallInv, HandlersLeave, LeftBehind, Visited, IsGlobal, vars, gvars, code
  <2>3. CallsReachTheirCallee'
    BY <1>4 DEF CallInv, CallsReachTheirCallee, IsGlobal, CallableOf, Child, Kind, Name, Parent, Path, Node,
                NullValue, vars, gvars
  <2> QED BY <1>2, <2>1, <2>2, <2>3 DEF CallInv
<1>5. CASE Next /\ UNCHANGED gvars
  <2>1. status = "running"
    BY <1>5 DEF Next, VisitUnscoped, VisitFunctionBody, VisitScopedExpression, VisitLambda, RejectDefinition,
       VisitFormalOrExtern, VisitFunctionDefinition, VisitVariableDefinition, VisitLiteral, VisitChild, SkipVisitedChild,
       LeaveOperator, LeaveIf, LeaveCallable, LeaveLoop, LeaveVariableDefinition, LeaveUntyped, LeaveIterator,
       ResolveVariable, VisitFunctionCall, RejectArgument, VisitArgument, VisitOtherBranch, LeaveFunctionCall,
       Entering, Leaving, Running, MoreChildren, Passing, ArgumentsPassed
  <2>2. step' = [n \in Node |-> 0] /\ value' = [n \in Node |-> NullValue] /\ faults' = {} /\ symbol' = symbol
    BY <1>5, <2>1 DEF CallInv, NotBegun, gvars, code
  <2>3. NotBegun' /\ SymbolsAreDefined'
    BY <1>3, <2>2 DEF CallInv, NotBegun, SymbolsAreDefined
  <2>4. \A m \in Node \ {1} : ~Visited(m)'
    <3>1. \A m \in Node \ {1} : Handler(m) \in Node
      BY <1>1, HandlerOf
    <3>2. \A m \in Node \ {1} : step'[Handler(m)] = 0
      BY <2>2, <3>1
    <3> QED BY <1>3, <3>2 DEF Visited
  <2>5. HandlersLeave'
    BY <1>3, <2>4 DEF HandlersLeave
  <2>6. CallsReachTheirCallee'
    BY <1>3, <2>2 DEF CallsReachTheirCallee
  <2> QED BY <1>2, <2>3, <2>5, <2>6 DEF CallInv
<1>6. CASE status = "accepted" /\ Generate /\ UNCHANGED vars
  <2>1. HandlersLeave' /\ SymbolsAreDefined'
    BY <1>6, LeavesAfter DEF CallInv
  <2>2. CallsReachTheirCallee'
    BY <1>6, CallsReachAfter
  <2>3. NotBegun'
    BY <1>6 DEF NotBegun, vars
  <2> QED BY <1>2, <2>1, <2>2, <2>3 DEF CallInv
<1> QED BY <1>4, <1>5, <1>6 DEF CompilerNext

LEMMA CallsInitially == CompilerInit => CallInv
<1> SUFFICES ASSUME CompilerInit PROVE CallInv
  OBVIOUS
<1>1. /\ prog \in Programs /\ resolved = [n \in Node |-> 0] /\ step = [n \in Node |-> 0] /\ symbol = <<>>
      /\ value = [n \in Node |-> NullValue] /\ faults = {}
  BY DEF CompilerInit, Init
<1>2. ResolvedBehind /\ NotBegun /\ SymbolsAreDefined /\ CallsReachTheirCallee
  BY <1>1 DEF ResolvedBehind, NotBegun, SymbolsAreDefined, CallsReachTheirCallee
<1>3. \A m \in Node \ {1} : ~Visited(m)
  <2>1. \A m \in Node \ {1} : step[Handler(m)] = 0
    BY <1>1, HandlerOf
  <2> QED BY <2>1 DEF Visited
<1> QED BY <1>2, <1>3 DEF CallInv, HandlersLeave

\* A call of something the program defines once, in a block around the call, runs exactly
\* what the analyzer has resolved it to, and is never lost: when the generator comes to the
\* call, the handler of the definition has entered the function's name in the module, or
\* has begun the lambda that the variable or the iterator stands for.
THEOREM CallsFindTheirCallee == CompilerSpec => []CallsReachTheirCallee
<1>1. CompilerInit => ValuesInv
  BY InstructionsAreTyped DEF CompilerInit, Init, ValuesInv, SymbolsInv, Value, LowTypes, Pointers
<1>2. CompilerInit => CallInv
  BY CallsInitially
<1>3. ValuesInv /\ GeneratorInductive /\ [CompilerNext]_<<vars, gvars>> => ValuesInv'
  BY ValuesPreserved
<1>4. CallInv /\ ValuesInv /\ GeneratorInductive /\ [CompilerNext]_<<vars, gvars>> => CallInv'
  BY CallsPreserved
<1>5. CallInv => CallsReachTheirCallee
  BY DEF CallInv
<1> QED BY <1>1, <1>2, <1>3, <1>4, <1>5, GeneratorIsInductive, PTL DEF CompilerSpec

-----------------------------------------------------------------------------
(* What variables stand for                                                *)

\* The handlers above the walk that have mapped names: callables and loops with their
\* bodies under way; and which those are above l, when the walk comes there.
Binders == {k \in Path(gcur) : Defines(k) \/ Iterates(k)}
BindersAbove(l) == {k \in Path(l) \ {l} : Kind(k) \in Callables \/ InBody(l, k)}
Binds(k, x) ==
  \/ Kind(k) \in Callables /\ \E d \in Node : Kind(d) = "formal" /\ Parent(d) = k /\ Name(d) = x
  \/ Kind(k) \in Loops /\ Name(IteratorOf(k)) = x

\* An entry of named_values_ under the name x, with the binders B above.  A formal's was
\* made inside of every loop that binds x, perhaps by a lambda that is gone; an iterator's
\* is that of the innermost of those that bind x, and made in their function.
FormalHeld(v, x, B) ==
  /\ v.fn = Parent(v.def) /\ step[Parent(v.def)] # 0
  /\ \A k \in B : Kind(k) \in Loops /\ Binds(k, x) => LoopBody(k) \in Path(v.def)
IteratorHeld(v, x, B) ==
  /\ Parent(v.def) \in B /\ \A k \in B : Binds(k, x) => k <= Parent(v.def)
  /\ NestedFunctions = {} /\ CallableAround(v.def) # 0 => v.fn = CallableAround(v.def)
Held(v, x, B) ==
  v # NullValue =>
    /\ v.def \in Node /\ Mapped(v.def) /\ Name(v.def) = x
    /\ Kind(v.def) = "formal" => FormalHeld(v, x, B)
    /\ Kind(v.def) = "iterator_definition" => IteratorHeld(v, x, B)
NamesAreHeld == \A x \in DOMAIN named : Held(named[x], x, Binders)
KeptAreHeld ==
  \A l \in Node : Kind(l) \in Loops /\ step[l] # 0 => Held(keptValue[l], Name(IteratorOf(l)), BindersAbove(l))
IteratorsAreNamed == \A k \in Node : Iterates(k) => Name(IteratorOf(k)) \in DOMAIN named

\* The function the code around the walk belongs to.  The block of a handler belongs to the
\* callable around it, when no function stands in another.
CallableIn ==
  IF Kind(gcur) \in Callables /\ step[gcur] = 0 THEN CallableAround(Handler(gcur)) ELSE CallableAround(gcur)
InPlace ==
  NestedFunctions = {} =>
    /\ \A b \in DOMAIN blocks : CallableAround(b[1]) # 0 => blocks[b].fn = CallableAround(b[1])
    /\ CallableIn # 0 => ip # NoBlock /\ CallableAround(ip[1]) = CallableIn
    /\ \A g \in Node : Kind(g) = "lambda" /\ step[g] = 1 /\ CallableAround(Handler(g)) # 0 =>
         keptBlock[g] # NoBlock /\ CallableAround(keptBlock[g][1]) = CallableAround(Handler(g))

\* What has taken a step has done so below handlers that have.
StepsAbove ==
  \A p \in Node : step[p] # 0 => \A q \in Path(p) : Kind(q) = "iterator_definition" \/ step[q] # 0

\* Nobody visits the formals of an extern.
ExternsAreLeaves ==
  \A n \in Node : /\ Kind(n) = "extern_function" => pc[n] \in {"idle", "enter", "done"}
                  /\ Optional(n) => pc[n] = "idle"

NamesInv == NamesAreHeld /\ KeptAreHeld /\ IteratorsAreNamed /\ InPlace /\ StepsAbove /\ ExternsAreLeaves

\* What a step does to the names.
KeepsNames == UNCHANGED <<named, keptValue>>
EntryOf(x) == IF x \in DOMAIN named THEN named[x] ELSE NullValue
LoopOpens ==
  /\ Passes(1) /\ Kind(gcur) \in Loops /\ step[gcur] = 0 /\ UNCHANGED named
  /\ keptValue' = [keptValue EXCEPT ![gcur] = EntryOf(Name(IteratorOf(gcur)))]
Renames ==
  \/ LoopOpens
  \/ FunctionOpens /\ MapFormals(gcur) /\ UNCHANGED keptValue
  \/ IterationBegins /\ UNCHANGED keptValue
       /\ named' = Bind(Name(IteratorOf(gcur)), Of(LowType(type[IteratorOf(gcur)]), IteratorOf(gcur)))
  \/ LoopCloses /\ named' = Bind(Name(IteratorOf(gcur)), keptValue[gcur]) /\ UNCHANGED keptValue
NameMoves ==
  \/ Stays /\ KeepsNames
  \/ Turns /\ KeepsNames /\ Kind(gcur) \notin Loops /\ ~FunctionOpens
  \/ Turns /\ Renames

LEMMA QuietNames ==
  ASSUME Moves, KeepsNames, Kind(gcur) \notin Loops \cup Callables
  PROVE  NameMoves
<1>1. ~FunctionOpens
  BY DEF FunctionOpens
<1> QED BY <1>1 DEF Moves, NameMoves

LEMMA GenerateNames ==
  ASSUME prog \in Programs, WalkInv, Generate
  PROVE  NameMoves
<1>1. Moves /\ gcur \in Node /\ step \in [Node -> Nat]
  BY GenerateMoves DEF WalkInv
<1>2. CASE Die
  BY <1>2 DEF Die, NameMoves, Stays, Quietly, KeepsNames, lookups, code, kept
<1>3. CASE KeepsNames /\ Kind(gcur) \notin Loops \cup Callables
  BY <1>1, <1>3, QuietNames
<1>4. CASE VisitOperand \/ EmitRoot
  BY <1>3, <1>4 DEF VisitOperand, EmitRoot, Emitting, KeepsNames, lookups, kept, Plain, Operators, Statements,
                    Loops, Callables
<1>5. CASE EmitLeaf \/ EmitOperator \/ EmitList \/ EmitSet \/ EmitCall \/ EmitBody \/ EmitNothing
  <2>1. (\E o : Finish(o)) /\ Kind(gcur) \notin Loops \cup Callables
    BY <1>5 DEF EmitLeaf, EmitOperator, EmitList, EmitSet, EmitCall, EmitBody, EmitNothing, Emitting, Generating,
                Loops, Callables
  <2> QED BY <1>2, <1>3, <2>1 DEF Finish, KeepsNames, lookups, kept
<1>6. CASE EmitExtern \/ DeclareGlobal \/ OpenVariable \/ EmitVariable
  <2>1. Kind(gcur) \notin Loops \cup Callables
    BY <1>6 DEF EmitExtern, DeclareGlobal, OpenVariable, EmitVariable, Generating, Loops, Callables
  <2> QED BY <1>2, <1>3, <1>6, <2>1
          DEF EmitExtern, DeclareGlobal, OpenVariable, EmitVariable, KeepsNames, lookups, kept
<1>7. CASE OpenIf \/ BeginThen \/ BeginElse \/ MergeBranches
  <2>1. Kind(gcur) \notin Loops \cup Callables
    BY <1>7 DEF OpenIf, BeginThen, BeginElse, MergeBranches, Generating, Loops, Callables
  <2> QED BY <1>2, <1>3, <1>7, <2>1
          DEF OpenIf, BeginThen, BeginElse, MergeBranches, LeaveIfUnfinished, KeepsNames, lookups, kept
<1>8. CASE OpenFunction /\ ~Die
  <2>1. Kind(gcur) \in Callables /\ step[gcur] = 0 /\ MapFormals(gcur) /\ UNCHANGED keptValue /\ step'[gcur] = 1
    BY <1>1, <1>8 DEF OpenFunction, Generating, Visit
  <2>2. FunctionOpens
    BY <1>1, <2>1 DEF Moves, Stays, Turns, Passes, Returns, FunctionCloses, ThenBegins, ElseBegins, ElseFails, BranchesMerge,
                      IterationBegins, LoopCloses, Callables, Loops
  <2> QED BY <2>1, <2>2 DEF NameMoves, Renames, Turns
<1>9. CASE CloseFunction /\ ~Die
  <2>1. Kind(gcur) \in Callables /\ step[gcur] = 1 /\ KeepsNames
    BY <1>9 DEF CloseFunction, Generating, KeepsNames, lookups, kept
  <2>2. Kind(gcur) \notin Loops /\ ~FunctionOpens
    BY <2>1 DEF Callables, Loops, FunctionOpens
  <2> QED BY <1>1, <2>1, <2>2 DEF Moves, NameMoves
<1>10. CASE (OpenLoop \/ BeginIteration \/ CloseLoop) /\ ~Die
  <2>1. Kind(gcur) \in Loops /\ Kind(gcur) \notin Callables
    BY <1>10 DEF OpenLoop, BeginIteration, CloseLoop, Generating, Loops, Callables
  <2>2. CASE OpenLoop
    <3>1. /\ step[gcur] = 0 /\ step'[gcur] = 1 /\ UNCHANGED named
          /\ keptValue' = [keptValue EXCEPT ![gcur] = EntryOf(Name(IteratorOf(gcur)))]
      BY <1>1, <1>10, <2>2 DEF OpenLoop, Generating, Visit, lookups, EntryOf
    <3>2. \E i : Passes(i)
      BY <1>1, <2>1, <3>1 DEF Moves, Stays, Turns, FunctionOpens, Returns, FunctionCloses, ThenBegins, ElseBegins,
                              ElseFails, BranchesMerge, IterationBegins, LoopCloses, Callables, Loops
    <3>3. Passes(1)
      BY <2>1, <3>2 DEF Passes, Constructs
    <3> QED BY <2>1, <3>1, <3>3 DEF NameMoves, Renames, LoopOpens, Turns
  <2>3. CASE BeginIteration
    <3>1. /\ step[gcur] = 1 /\ step'[gcur] = 2 /\ UNCHANGED keptValue
          /\ named' = Bind(Name(IteratorOf(gcur)), Of(LowType(type[IteratorOf(gcur)]), IteratorOf(gcur)))
      BY <1>1, <1>10, <2>3 DEF BeginIteration, Generating, kept
    <3>2. IterationBegins
      BY <1>1, <2>1, <3>1 DEF Moves, Stays, Turns, Passes, Descend, FunctionOpens, Returns, FunctionCloses, ThenBegins,
                              ElseBegins, ElseFails, BranchesMerge, LoopCloses, Callables, Loops, Constructs
    <3> QED BY <3>1, <3>2 DEF NameMoves, Renames, Turns
  <2>4. CASE CloseLoop
    <3>1. /\ step[gcur] = 2 /\ gcur' = Handler(gcur) /\ step' = step /\ UNCHANGED keptValue
          /\ named' = Bind(Name(IteratorOf(gcur)), keptValue[gcur])
      BY <1>10, <2>4 DEF CloseLoop, Generating, Give, kept
    <3>2. LoopCloses
      <4>1. gcur # 1 /\ gcur' # gcur
        <5>1. gcur # 1
          BY <1>1, <2>1, ProgramFacts DEF Loops
        <5>2. Handler(gcur) < gcur /\ gcur \in Nat
          BY <1>1, <5>1, OperandPath, ProgramFacts
        <5>3. gcur' < gcur /\ gcur \in Nat
          BY <3>1, <5>2
        <5> QED BY <5>1, <5>3
      <4>2. \A i : ~Descend(i)
        BY <1>1, <3>1 DEF Descend
      <4> QED BY <1>1, <2>1, <3>1, <4>1, <4>2 DEF Moves, Stays, Turns, Passes, FunctionOpens, Returns, FunctionCloses,
                              ThenBegins, ElseBegins, ElseFails, BranchesMerge, IterationBegins, Callables, Loops
    <3> QED BY <3>1, <3>2 DEF NameMoves, Renames, Turns
  <2> QED BY <1>10, <2>2, <2>3, <2>4
<1> QED BY <1>2, <1>4, <1>5, <1>6, <1>7, <1>8, <1>9, <1>10 DEF Generate

\* The closest callable around a node is the node, or that around the handler that visits it.
LEMMA CallableFacts ==
  ASSUME prog \in Programs, NEW n \in Node
  PROVE  /\ CallableAround(n) \in MaybeNode
         /\ CallableAround(n) # 0 => CallableAround(n) \in Path(n) /\ Kind(CallableAround(n)) \in Callables
         /\ \A a \in Path(n) : Kind(a) \in Callables => a <= CallableAround(n)
         /\ Kind(n) \in Callables => CallableAround(n) = n
         /\ n # 1 /\ Kind(n) \notin Callables =>
              CallableAround(n) = CallableAround(Parent(n)) /\ CallableAround(n) = CallableAround(Handler(n))
         /\ n = 1 => CallableAround(n) = 0
<1> DEFINE C(m) == {a \in Path(m) : Kind(a) \in Callables}
<1>1. /\ Len(prog) \in Nat /\ Node = 1 .. Len(prog) /\ Path(n) \subseteq Node /\ n \in Path(n) /\ Kind(1) = "root"
      /\ \A m \in Path(n) : m <= n
  BY ProgramFacts, PathFacts DEF Path
<1>2. \A m : CallableAround(m) = Below(C(m) \cup {0})
  BY DEF CallableAround
<1>3. Below(C(n) \cup {0}) \in C(n) \cup {0} /\ \A y \in C(n) \cup {0} : y <= Below(C(n) \cup {0})
  <2>1. C(n) \cup {0} \in SUBSET (0 .. Len(prog)) /\ C(n) \cup {0} # {}
    BY <1>1
  <2> HIDE DEF C
  <2> QED BY <1>1, <2>1, BelowPicks
<1>4. /\ CallableAround(n) \in C(n) \cup {0} /\ \A a \in C(n) : a <= CallableAround(n)
  BY <1>2, <1>3
<1>5. Kind(n) \in Callables => CallableAround(n) = n
  <2>1. Kind(n) \in Callables => n \in C(n)
    BY <1>1
  <2>2. \A a \in C(n) \cup {0} : a \in 0 .. n
    BY <1>1
  <2> HIDE DEF C
  <2> QED BY <1>1, <1>4, <2>1, <2>2
<1>6. ASSUME n # 1, Kind(n) \notin Callables
      PROVE  CallableAround(n) = CallableAround(Parent(n)) /\ CallableAround(n) = CallableAround(Handler(n))
  <2>1. /\ Parent(n) \in Node /\ Path(Parent(n)) \subseteq Path(n) /\ Path(Handler(n)) \subseteq Path(n)
        /\ \A a \in Path(n) : a = n \/ a \in Path(Parent(n))
        /\ \A a \in Path(n) : a = n \/ a \in Path(Handler(n)) \/ Kind(a) = "iterator_definition"
    BY <1>6, PathFacts, ParentOnPath, HandlerOf, OperandPath
  <2>2. C(n) = C(Parent(n))
    BY <1>6, <2>1
  <2>3. C(n) = C(Handler(n))
    BY <1>6, <2>1 DEF Callables
  <2> HIDE DEF C
  <2> QED BY <1>2, <2>2, <2>3
<1>7. n = 1 => CallableAround(n) = 0
  <2>1. n = 1 => C(n) = {}
    <3>1. n = 1 => \A a \in Path(n) : a = 1
      BY <1>1
    <3> QED BY <1>1, <3>1 DEF Callables
  <2> HIDE DEF C
  <2> QED BY <1>4, <2>1
<1> QED BY <1>1, <1>4, <1>5, <1>6, <1>7 DEF MaybeNode

\* The binders above the walk are those the tree says.
LEMMA BindersHere ==
  ASSUME prog \in Programs, WalkInv
  PROVE  Binders \ {gcur} = BindersAbove(gcur)
<1>1. gcur \in Node /\ Path(gcur) \subseteq Node
  BY PathFacts DEF WalkInv
<1>2. ASSUME NEW k \in Path(gcur), k # gcur, Kind(k) \in Callables
      PROVE  Defines(k)
  <2>1. step[k] \in Steps(k)
    BY <1>2, InProgress DEF Callables
  <2> QED BY <1>2, <2>1 DEF Steps, Defines
<1>3. ASSUME NEW k \in Path(gcur), k # gcur, Kind(k) \in Loops
      PROVE  Iterates(k) <=> LoopBody(k) \in Path(gcur)
  <2>1. /\ k \in Node /\ Kind(k) # "iterator_definition" /\ Kind(k) \notin Callables
    BY <1>1, <1>3 DEF Loops, Callables
  <2>2. step[k] \in Steps(k) /\ Operand(k, step[k]) \in Path(gcur)
    BY <1>3, <2>1, InProgress
  <2>3. step[k] \in {1, 2}
    <3>1. Len(Children(k)) = 2
      BY <1>3, <2>1, LoopShape
    <3>2. 1 .. 2 = {1, 2}
      OBVIOUS
    <3> QED BY <2>1, <2>2, <3>1, <3>2 DEF Steps
  <2>4. CASE step[k] = 2
    BY <1>3, <2>1, <2>2, <2>4 DEF Operand, Iterates
  <2>5. CASE step[k] = 1
    <3>1. PICK it \in Node \ {1} : it = IteratorOf(k)
      BY <1>3, <2>1, LoopShape
    <3>2. PICK b \in Node \ {1} : b = LoopBody(k)
      BY <1>3, <2>1, LoopShape
    <3>3. PICK c \in Node \ {1} : c = Child(it, 1) /\ Parent(c) = it
      BY <1>3, <2>1, <3>1, LoopShape
    <3>4. Parent(it) = k /\ Parent(b) = k /\ it # b
      BY <1>3, <2>1, <3>1, <3>2, LoopShape
    <3>5. c \in Path(gcur)
      BY <1>3, <2>1, <2>2, <2>5, <3>1, <3>3 DEF Operand
    <3>6. it \in Path(gcur)
      <4>1. it \in Path(it) /\ Path(it) \subseteq Path(c) /\ Path(c) \subseteq Path(gcur)
        BY <1>1, <3>1, <3>3, <3>5, PathFacts
      <4> QED BY <4>1
    <3>7. b \notin Path(gcur)
      BY <1>1, <3>4, <3>6, SiblingsApart
    <3> QED BY <1>3, <2>1, <2>5, <3>2, <3>7 DEF Iterates
  <2> QED BY <2>3, <2>4, <2>5
<1>4. \A k : Defines(k) => Kind(k) \in Callables
  BY DEF Defines
<1>5. \A k : Iterates(k) => Kind(k) \in Loops
  BY DEF Iterates
<1> QED BY <1>2, <1>3, <1>4, <1>5 DEF Binders, BindersAbove, InBody

LEMMA BindersAfter ==
  ASSUME prog \in Programs, WalkInv, Turns, prog' = prog
  PROVE  Binders' = IF FunctionOpens \/ IterationBegins THEN Binders \cup {gcur} ELSE Binders \ {gcur}
<1>1. /\ gcur \in Node /\ Path(gcur) \subseteq Node /\ Path(gcur)' = Path(gcur')
      /\ \A k : Kind(k)' = Kind(k)
      /\ gcur \in Path(gcur)
  BY SameTree, PathFacts DEF WalkInv, Path
<1>2. /\ Path(gcur') \subseteq Node /\ step \in [Node -> Nat]
      /\ \A k \in Path(gcur') : k \in Path(gcur) \/ (step'[k] = 0 /\ step[k] = 0)
      /\ \A k \in Path(gcur) : k \in Path(gcur') \/ k = gcur \/ Kind(k) = "iterator_definition"
      /\ (\E i : Descend(i)) => Path(gcur) \subseteq Path(gcur')
      /\ Ascend => gcur \notin Path(gcur')
      /\ \A k \in Node \ {gcur} : step'[k] = step[k]
  BY TurnFacts DEF WalkInv
<1> DEFINE B(k) == Defines(k) \/ Iterates(k)
<1>3. \A k \in Node \ {gcur} : B(k)' <=> B(k)
  BY <1>1, <1>2 DEF Defines, Iterates
<1>4. \A k : (step[k] = 0 => ~B(k)) /\ (Kind(k) = "iterator_definition" => ~B(k))
  BY DEF Defines, Iterates, Callables, Loops
<1>5. \A k \in Node \ {gcur} : k \in Binders' <=> k \in Binders
  <2>1. \A k : k \in Binders' <=> k \in Path(gcur') /\ B(k)'
    BY <1>1 DEF Binders
  <2>2. \A k : k \in Binders <=> k \in Path(gcur) /\ B(k)
    BY DEF Binders
  <2> HIDE DEF B
  <2> QED BY <1>2, <1>3, <1>4, <2>1, <2>2
<1>6. Binders \subseteq Node /\ Binders' \subseteq Node
  BY <1>1, <1>2 DEF Binders
<1> HIDE DEF B
<1>9. PICK g \in Node : g = gcur
  BY <1>1
<1>10. g \in Binders' <=> g \in Path(gcur') /\ B(g)'
  BY <1>1 DEF Binders, B
<1>11. B(g)' <=> ((Kind(g) \in Callables /\ step'[g] = 1) \/ (Kind(g) \in Loops /\ step'[g] = 2))
  BY <1>1 DEF B, Defines, Iterates
<1>7. CASE FunctionOpens \/ IterationBegins
  <2>1. \/ Descend(1) /\ Kind(g) \in Callables
        \/ Descend(2) /\ Kind(g) \in Loops
    BY <1>7, <1>9 DEF FunctionOpens, IterationBegins
  <2>2. g \in Path(gcur')
    BY <1>1, <1>2, <1>9, <2>1
  <2>3. \/ step'[g] = 1 /\ Kind(g) \in Callables
        \/ step'[g] = 2 /\ Kind(g) \in Loops
    BY <1>1, <1>2, <1>9, <2>1 DEF Descend
  <2>4. g \in Binders'
    BY <1>10, <1>11, <2>2, <2>3
  <2> QED BY <1>5, <1>6, <1>7, <1>9, <2>4
<1>8. CASE ~FunctionOpens /\ ~IterationBegins
  <2>1. g \notin Binders'
    <3>1. CASE Ascend
      BY <1>2, <1>9, <1>10, <3>1
    <3>2. CASE \E i : Passes(i)
      <4>1. PICK i : Passes(i)
        BY <3>2
      <4>2. step'[g] = i /\ Kind(g) \notin Callables /\ (Kind(g) \in Loops => i = 1)
        BY <1>1, <1>2, <1>9, <4>1 DEF Passes, Descend, Constructs
      <4> QED BY <1>10, <1>11, <4>2
    <3>3. CASE ThenBegins \/ ElseBegins
      <4>1. Kind(g) \notin Callables \cup Loops
        BY <1>9, <3>3 DEF ThenBegins, ElseBegins, Callables, Loops
      <4> QED BY <1>10, <1>11, <4>1
    <3> QED BY <1>8, <3>1, <3>2, <3>3 DEF Turns, Returns, FunctionCloses, ElseFails, BranchesMerge, LoopCloses
  <2> QED BY <1>5, <1>6, <1>8, <1>9, <2>1
<1> QED BY <1>7, <1>8

-----------------------------------------------------------------------------
(* What names are bound to                                                 *)

LEMMA SameNames ==
  ASSUME prog' = prog
  PROVE  /\ \A n : CallableAround(n)' = CallableAround(n) /\ Mapped(n)' = Mapped(n)
         /\ \A n, l : InBody(n, l)' = InBody(n, l)
         /\ \A k, x : Binds(k, x)' = Binds(k, x)
         /\ \A l : BindersAbove(l)' = BindersAbove(l)
<1>1. /\ Node' = Node
      /\ \A n : Kind(n)' = Kind(n) /\ Parent(n)' = Parent(n) /\ Path(n)' = Path(n) /\ Name(n)' = Name(n)
      /\ \A n : IteratorOf(n)' = IteratorOf(n) /\ LoopBody(n)' = LoopBody(n)
  BY SameTree, SameOperands DEF Path, Name
<1>2. \A n : CallableAround(n)' = CallableAround(n)
  BY <1>1 DEF CallableAround, Below
<1>3. \A n, l : InBody(n, l)' = InBody(n, l)
  BY <1>1 DEF InBody
<1>4. \A k : Name(IteratorOf(k))' = Name(IteratorOf(k))
  BY DEF Name, IteratorOf, Kind, Child
<1>5. \A k, x : Binds(k, x)' = Binds(k, x)
  BY <1>1, <1>4 DEF Binds
<1>6. \A l : BindersAbove(l)' = BindersAbove(l)
  BY <1>1, <1>3 DEF BindersAbove
<1>7. \A n : Kind(Parent(n))' = Kind(Parent(n))
  BY DEF Kind, Parent
<1> QED BY <1>1, <1>2, <1>3, <1>5, <1>6, <1>7 DEF Mapped

\* An entry stays what it is when no loop around the walk comes to bind its name, and that of
\* an iterator when its loop goes on.
LEMMA HeldStays ==
  ASSUME prog \in Programs, prog' = prog, NEW v, NEW x, NEW B, NEW B2, Held(v, x, B),
         \A k \in B2 : k \in B \/ ~Binds(k, x),
         v # NullValue /\ Kind(v.def) = "iterator_definition" => Parent(v.def) \in B2,
         \A p \in Node : step[p] # 0 => step'[p] # 0
  PROVE  Held(v, x, B2)'
<1>1. /\ Node' = Node /\ NullValue' = NullValue
      /\ \A n : Kind(n)' = Kind(n) /\ Parent(n)' = Parent(n) /\ Path(n)' = Path(n) /\ Name(n)' = Name(n)
      /\ \A n : LoopBody(n)' = LoopBody(n) /\ CallableAround(n)' = CallableAround(n) /\ Mapped(n)' = Mapped(n)
      /\ \A k, y : Binds(k, y)' = Binds(k, y)
      /\ NestedFunctions' = NestedFunctions
  BY SameTree, SameOperands, SameNames DEF Path, Name, NullValue, Failed
<1>2. SUFFICES ASSUME v # NullValue
               PROVE  /\ v.def \in Node /\ Mapped(v.def) /\ Name(v.def) = x
                      /\ Kind(v.def) = "formal" => FormalHeld(v, x, B2)'
                      /\ Kind(v.def) = "iterator_definition" => IteratorHeld(v, x, B2)'
  BY <1>1 DEF Held
<1>3. v.def \in Node /\ Mapped(v.def) /\ Name(v.def) = x
  BY <1>2 DEF Held
<1>4. ASSUME Kind(v.def) = "formal" PROVE FormalHeld(v, x, B2)'
  <2>1. FormalHeld(v, x, B) /\ Parent(v.def) \in Node
    BY <1>2, <1>3, <1>4, ProgramFacts DEF Held
  <2> QED BY <1>1, <2>1 DEF FormalHeld
<1>5. ASSUME Kind(v.def) = "iterator_definition" PROVE IteratorHeld(v, x, B2)'
  <2>1. IteratorHeld(v, x, B)
    BY <1>2, <1>5 DEF Held
  <2> QED BY <1>1, <1>2, <1>5, <2>1 DEF IteratorHeld
<1> QED BY <1>3, <1>4, <1>5

\* The formals of a function are what it maps.
LEMMA FormalsAreMapped ==
  ASSUME prog \in Programs, NEW f \in Node, Kind(f) \in Callables
  PROVE  /\ FormalCount(f) \in Nat
         /\ {FormalsOf(f)[i] : i \in 1 .. FormalCount(f)} = {d \in Node : Kind(d) = "formal" /\ Parent(d) = f}
<1>1. /\ Len(Children(f)) \in Nat /\ FormalCount(f) = Len(Children(f)) - 1 /\ Len(Children(f)) > 0
      /\ Children(f) \in Seq(Nat)
  <2>1. Kind(f) # "extern_function"
    BY DEF Callables
  <2>2. prog \in Seq(NodeRecord)
    BY ProgramsAssumption DEF WellFormed
  <2>3. prog[f] \in NodeRecord
    BY <2>2 DEF Node
  <2> QED BY <2>1, <2>3, ShapeFacts, ProgramFacts DEF FormalCount, NodeRecord, Children
<1>2. \A i \in 1 .. FormalCount(f) : FormalsOf(f)[i] = Child(f, i) /\ i \in 1 .. Len(Children(f))
  BY <1>1 DEF FormalsOf, Child, Children
<1>3. Shape(prog, f)
  BY ProgramsAssumption DEF WellFormed, Node
<1>4. /\ \A i \in 1 .. FormalCount(f) : Kind(Child(f, i)) = "formal"
      /\ Kind(LastChild(f)) = "function_body"
  BY <1>1, <1>3 DEF Shape, Kind, Child, Children, LastChild
<1>5. ASSUME NEW d \in Node, Kind(d) = "formal", Parent(d) = f
      PROVE  \E i \in 1 .. FormalCount(f) : FormalsOf(f)[i] = d
  <2>1. d # 1
    BY <1>5, ProgramFacts
  <2>2. PICK i \in 1 .. Len(Children(f)) : Child(f, i) = d
    BY <1>5, <2>1, TreeFacts
  <2>3. i # Len(Children(f))
    BY <1>4, <1>5, <2>2 DEF LastChild
  <2>4. i \in 1 .. FormalCount(f)
    BY <1>1, <2>2, <2>3
  <2> QED BY <1>2, <2>2, <2>4
<1>6. ASSUME NEW i \in 1 .. FormalCount(f)
      PROVE  FormalsOf(f)[i] \in Node /\ Kind(FormalsOf(f)[i]) = "formal" /\ Parent(FormalsOf(f)[i]) = f
  BY <1>2, <1>4, <1>6, TreeFacts
<1> QED BY <1>1, <1>5, <1>6

LEMMA StepsStay ==
  ASSUME prog \in Programs, WalkInv, prog' = prog, Stays \/ Turns
  PROVE  \A p \in Node : step[p] # 0 => step'[p] # 0
<1>1. gcur \in Node /\ step \in [Node -> Nat]
  BY DEF WalkInv
<1>2. CASE Turns
  <2>1. CASE Ascend
    BY <2>1 DEF Ascend
  <2>2. CASE \E i : Descend(i)
    <3>1. PICK i : Descend(i)
      BY <2>2
    <3>2. step[gcur] < i /\ step' = [step EXCEPT ![gcur] = i]
      BY <3>1 DEF Descend
    <3>3. i # 0
      BY <1>1, <3>1, StepsBefore DEF Descend
    <3> QED BY <1>1, <3>2, <3>3
  <2> QED BY <1>2, <2>1, <2>2, TurnsMove
<1> QED BY <1>2 DEF Stays

LEMMA HeldAfter ==
  ASSUME NEW N, NEW B, N = named', B = Binders', \A x \in DOMAIN N : Held(N[x], x, B)'
  PROVE  NamesAreHeld'
<1>1. \A x \in DOMAIN named' : Held(named[x], x, Binders)'
  BY DEF Held, FormalHeld, IteratorHeld
<1> QED BY <1>1 DEF NamesAreHeld

LEMMA KeptHeldAfter ==
  ASSUME prog' = prog, NEW V, V = keptValue',
         \A l \in Node : Kind(l) \in Loops /\ step'[l] # 0 => Held(V[l], Name(IteratorOf(l)), BindersAbove(l))'
  PROVE  KeptAreHeld'
<1>1. Node' = Node /\ \A l : Kind(l)' = Kind(l)
  BY SameTree
<1>2. \A l \in Node : Kind(l) \in Loops /\ step'[l] # 0 => Held(keptValue[l], Name(IteratorOf(l)), BindersAbove(l))'
  BY DEF Held, FormalHeld, IteratorHeld
<1> QED BY <1>1, <1>2 DEF KeptAreHeld

\* Where nothing is named.
LEMMA NamesStay ==
  ASSUME prog \in Programs, WalkInv, NamesAreHeld, KeptAreHeld, prog' = prog, KeepsNames,
         Stays \/ (Turns /\ Kind(gcur) \notin Loops /\ ~FunctionOpens)
  PROVE  NamesAreHeld' /\ KeptAreHeld'
<1>1. PICK B : B = Binders'
  OBVIOUS
<1>2. PICK N : N = named /\ N = named'
  BY DEF KeepsNames
<1>3. PICK V : V = keptValue /\ V = keptValue'
  BY DEF KeepsNames
<1>4. gcur \in Node /\ step \in [Node -> Nat] /\ \A p \in Node : step[p] # 0 => step'[p] # 0
  BY StepsStay DEF WalkInv
<1>5. B = Binders \/ (B = Binders \ {gcur} /\ Kind(gcur) \notin Loops)
  <2>1. CASE Stays
    <3>1. /\ Path(gcur') = Path(gcur) /\ step' = step
      BY <2>1 DEF Stays
    <3>2. \A k : Kind(k)' = Kind(k)
      BY SameTree
    <3>3. Binders' = {k \in Path(gcur') : (Kind(k) \in Callables /\ step'[k] = 1) \/ (Kind(k) \in Loops /\ step'[k] = 2)}
      BY <3>2, SameNames DEF Binders, Path, Defines, Iterates
    <3>4. Binders = {k \in Path(gcur) : (Kind(k) \in Callables /\ step[k] = 1) \/ (Kind(k) \in Loops /\ step[k] = 2)}
      BY DEF Binders, Defines, Iterates
    <3> QED BY <1>1, <3>1, <3>3, <3>4
  <2>2. CASE Turns /\ Kind(gcur) \notin Loops /\ ~FunctionOpens
    <3>1. ~IterationBegins
      BY <2>2 DEF IterationBegins
    <3> QED BY <1>1, <2>2, <3>1, BindersAfter
  <2> QED BY <2>1, <2>2
<1>6. ASSUME NEW x \in DOMAIN N PROVE Held(N[x], x, B)'
  <2>1. PICK v : v = N[x]
    OBVIOUS
  <2>2. Held(v, x, Binders)
    BY <1>2, <2>1 DEF NamesAreHeld
  <2>3. v # NullValue /\ Kind(v.def) = "iterator_definition" => Parent(v.def) \in B
    <3>1. v # NullValue /\ Kind(v.def) = "iterator_definition" =>
            v.def \in Node /\ Parent(v.def) \in Binders /\ Kind(Parent(v.def)) \in Loops
      BY <2>2, IteratorShape DEF Held, IteratorHeld
    <3> QED BY <1>5, <3>1
  <2>4. \A k \in B : k \in Binders \/ ~Binds(k, x)
    BY <1>5
  <2>5. PICK B1 : B1 = Binders
    OBVIOUS
  <2>6. Held(v, x, B)'
    BY <1>4, <2>2, <2>3, <2>4, <2>5, HeldStays
  <2> QED BY <2>1, <2>6
<1>7. ASSUME NEW l \in Node, Kind(l) \in Loops, step'[l] # 0
      PROVE  Held(V[l], Name(IteratorOf(l)), BindersAbove(l))'
  <2>1. step[l] # 0
    BY <1>7, TurnFacts DEF Stays
  <2>2. PICK v, x, A : v = V[l] /\ x = Name(IteratorOf(l)) /\ A = BindersAbove(l)
    OBVIOUS
  <2>3. Held(v, x, A)
    BY <1>3, <1>7, <2>1, <2>2 DEF KeptAreHeld
  <2>4. v # NullValue /\ Kind(v.def) = "iterator_definition" => Parent(v.def) \in A
    BY <2>3 DEF Held, IteratorHeld
  <2>5. Held(v, x, A)'
    BY <1>4, <2>3, <2>4, HeldStays
  <2>6. Name(IteratorOf(l))' = x /\ BindersAbove(l)' = A
    BY <2>2, SameNames, SameOperands DEF Name, IteratorOf, Kind, Child
  <2> QED BY <2>2, <2>5, <2>6 DEF Held, FormalHeld, IteratorHeld
<1>8. NamesAreHeld'
  BY <1>1, <1>2, <1>6, HeldAfter
<1>9. KeptAreHeld'
  BY <1>3, <1>7, KeptHeldAfter
<1> QED BY <1>8, <1>9

\* What is kept by the loops that are under way stays, in a turn that keeps nothing itself.
LEMMA KeptStay ==
  ASSUME prog \in Programs, WalkInv, KeptAreHeld, prog' = prog, Turns, UNCHANGED keptValue,
         Kind(gcur) \in Loops => step[gcur] # 0
  PROVE  KeptAreHeld'
<1>1. PICK V : V = keptValue /\ V = keptValue'
  OBVIOUS
<1>2. gcur \in Node /\ step \in [Node -> Nat] /\ \A p \in Node : step[p] # 0 => step'[p] # 0
  BY StepsStay DEF WalkInv
<1>3. ASSUME NEW l \in Node, Kind(l) \in Loops, step'[l] # 0
      PROVE  Held(V[l], Name(IteratorOf(l)), BindersAbove(l))'
  <2>1. step[l] # 0
    BY <1>3, TurnFacts
  <2>2. PICK v, x, A : v = V[l] /\ x = Name(IteratorOf(l)) /\ A = BindersAbove(l)
    OBVIOUS
  <2>3. Held(v, x, A)
    BY <1>1, <1>3, <2>1, <2>2 DEF KeptAreHeld
  <2>4. v # NullValue /\ Kind(v.def) = "iterator_definition" => Parent(v.def) \in A
    BY <2>3 DEF Held, IteratorHeld
  <2>5. Held(v, x, A)'
    BY <1>2, <2>3, <2>4, HeldStays
  <2>6. Name(IteratorOf(l))' = x /\ BindersAbove(l)' = A
    BY <2>2, SameNames, SameOperands DEF Name, IteratorOf, Kind, Child
  <2> QED BY <2>2, <2>5, <2>6 DEF Held, FormalHeld, IteratorHeld
<1> QED BY <1>1, <1>3, KeptHeldAfter

LEMMA NamesWhenLoopOpens ==
  ASSUME prog \in Programs, WalkInv, NamesAreHeld, KeptAreHeld, keptValue \in [Node -> Value], prog' = prog,
         Turns, LoopOpens
  PROVE  NamesAreHeld' /\ KeptAreHeld'
<1>1. PICK g \in Node : g = gcur
  BY DEF WalkInv
<1>2. PICK B : B = Binders
  OBVIOUS
<1>3. /\ Kind(g) \in Loops /\ step[g] = 0 /\ g \notin B /\ step \in [Node -> Nat]
      /\ \A p \in Node : step[p] # 0 => step'[p] # 0
  BY <1>1, <1>2, StepsStay DEF LoopOpens, Binders, Defines, Iterates, WalkInv
<1>4. Binders' = B
  <2>1. ~FunctionOpens /\ ~IterationBegins
    BY <1>1, <1>3 DEF FunctionOpens, IterationBegins, Callables, Loops
  <2> QED BY <1>1, <1>2, <1>3, <2>1, BindersAfter
<1>5. BindersAbove(g) = B
  BY <1>1, <1>2, <1>3, BindersHere
<1>6. PICK N : N = named /\ N = named'
  BY DEF LoopOpens
<1>7. PICK V : V = keptValue'
  OBVIOUS
<1>8. V = [keptValue EXCEPT ![g] = EntryOf(Name(IteratorOf(g)))]
  BY <1>1, <1>7 DEF LoopOpens
<1>9. ASSUME NEW v, NEW x, Held(v, x, B) PROVE Held(v, x, B)'
  <2>1. v # NullValue /\ Kind(v.def) = "iterator_definition" => Parent(v.def) \in B
    BY <1>9 DEF Held, IteratorHeld
  <2> QED BY <1>3, <1>9, <2>1, HeldStays
<1>10. \A x \in DOMAIN N : Held(N[x], x, B)'
  BY <1>2, <1>6, <1>9 DEF NamesAreHeld
<1>11. ASSUME NEW l \in Node, Kind(l) \in Loops, step'[l] # 0
       PROVE  Held(V[l], Name(IteratorOf(l)), BindersAbove(l))'
  <2>1. PICK v, x, A : v = V[l] /\ x = Name(IteratorOf(l)) /\ A = BindersAbove(l)
    OBVIOUS
  <2>2. Held(v, x, A)
    <3>1. CASE l = g
      <4>1. v = EntryOf(x) /\ A = B
        BY <1>5, <1>8, <2>1, <3>1
      <4>2. x \in DOMAIN named => Held(named[x], x, B)
        BY <1>2 DEF NamesAreHeld
      <4> QED BY <4>1, <4>2 DEF EntryOf, Held
    <3>2. CASE l # g
      <4>1. step[l] # 0 /\ v = keptValue[l]
        BY <1>1, <1>8, <1>11, <2>1, <3>2, TurnFacts
      <4> QED BY <1>11, <2>1, <4>1 DEF KeptAreHeld
    <3> QED BY <3>1, <3>2
  <2>3. v # NullValue /\ Kind(v.def) = "iterator_definition" => Parent(v.def) \in A
    BY <2>2 DEF Held, IteratorHeld
  <2>4. Held(v, x, A)'
    BY <1>3, <2>2, <2>3, HeldStays
  <2>5. Name(IteratorOf(l))' = x /\ BindersAbove(l)' = A
    BY <2>1, SameNames, SameOperands DEF Name, IteratorOf, Kind, Child
  <2> QED BY <2>1, <2>4, <2>5 DEF Held, FormalHeld, IteratorHeld
<1>12. NamesAreHeld'
  BY <1>4, <1>6, <1>10, HeldAfter
<1>13. KeptAreHeld'
  BY <1>7, <1>11, KeptHeldAfter
<1> QED BY <1>12, <1>13

LEMMA NamesWhenLoopCloses ==
  ASSUME prog \in Programs, WalkInv, NamesAreHeld, KeptAreHeld, prog' = prog, Turns, LoopCloses,
         named' = Bind(Name(IteratorOf(gcur)), keptValue[gcur]), UNCHANGED keptValue
  PROVE  NamesAreHeld' /\ KeptAreHeld'
<1>1. PICK g \in Node : g = gcur
  BY DEF WalkInv
<1>2. PICK B : B = Binders \ {g}
  OBVIOUS
<1>3. /\ Kind(g) \in Loops /\ step[g] # 0 /\ step \in [Node -> Nat]
      /\ \A p \in Node : step[p] # 0 => step'[p] # 0
  BY <1>1, StepsStay DEF LoopCloses, WalkInv
<1>4. Binders' = B /\ BindersAbove(g) = B
  <2>1. ~FunctionOpens /\ ~IterationBegins
    BY <1>1, <1>3 DEF FunctionOpens, IterationBegins, LoopCloses, Callables, Loops
  <2> QED BY <1>1, <1>2, <2>1, BindersAfter, BindersHere
<1>5. PICK N, x0, v0 : N = named' /\ x0 = Name(IteratorOf(g)) /\ v0 = keptValue[g]
  OBVIOUS
<1>6. /\ DOMAIN N \subseteq DOMAIN named \cup {x0}
      /\ \A x \in DOMAIN N : N[x] = IF x = x0 THEN v0 ELSE named[x]
  BY <1>1, <1>5 DEF Bind, Onto
<1>7. Held(v0, x0, B)
  BY <1>1, <1>3, <1>4, <1>5 DEF KeptAreHeld
<1>8. ASSUME NEW x \in DOMAIN N PROVE Held(N[x], x, B)'
  <2>1. CASE x = x0
    <3>1. v0 # NullValue /\ Kind(v0.def) = "iterator_definition" => Parent(v0.def) \in B
      BY <1>7 DEF Held, IteratorHeld
    <3> QED BY <1>3, <1>6, <1>7, <2>1, <3>1, HeldStays
  <2>2. CASE x # x0
    <3>1. PICK v : v = N[x]
      OBVIOUS
    <3>2. v = named[x] /\ x \in DOMAIN named
      BY <1>6, <2>2, <3>1
    <3>3. Held(v, x, Binders)
      BY <3>2 DEF NamesAreHeld
    <3>4. v # NullValue /\ Kind(v.def) = "iterator_definition" => Parent(v.def) \in B
      <4> SUFFICES ASSUME v # NullValue, Kind(v.def) = "iterator_definition" PROVE Parent(v.def) \in B
        OBVIOUS
      <4>1. v.def \in Node /\ Name(v.def) = x /\ Parent(v.def) \in Binders
        BY <3>3 DEF Held, IteratorHeld
      <4>2. v.def = IteratorOf(Parent(v.def))
        BY <4>1, IteratorShape
      <4>3. Parent(v.def) # g
        BY <1>5, <2>2, <4>1, <4>2
      <4> QED BY <1>2, <4>1, <4>3
    <3>5. \A k \in B : k \in Binders \/ ~Binds(k, x)
      BY <1>2
    <3>6. PICK B1 : B1 = Binders
      OBVIOUS
    <3>7. Held(v, x, B)'
      BY <1>3, <3>3, <3>4, <3>5, <3>6, HeldStays
    <3> QED BY <3>1, <3>7
  <2> QED BY <2>1, <2>2
<1>9. NamesAreHeld'
  BY <1>4, <1>5, <1>8, HeldAfter
<1> QED BY <1>1, <1>3, <1>9, KeptStay

LEMMA NamesWhenIterationBegins ==
  ASSUME prog \in Programs, WalkInv, BlocksAreTheirs, NamesAreHeld, KeptAreHeld, InPlace, prog' = prog,
         Turns, IterationBegins, UNCHANGED keptValue,
         named' = Bind(Name(IteratorOf(gcur)), Of(LowType(type[IteratorOf(gcur)]), IteratorOf(gcur)))
  PROVE  NamesAreHeld' /\ KeptAreHeld'
<1>1. PICK g \in Node : g = gcur
  BY DEF WalkInv
<1>2. PICK B : B = Binders \cup {g}
  OBVIOUS
<1>3. /\ Kind(g) \in Loops /\ Kind(g) \notin Callables /\ step[g] = 1 /\ step \in [Node -> Nat]
      /\ \A p \in Node : step[p] # 0 => step'[p] # 0
  BY <1>1, StepsStay DEF IterationBegins, WalkInv, Loops, Callables
<1>4. Binders' = B
  BY <1>1, <1>2, BindersAfter
<1>5. PICK it \in Node \ {1} : it = IteratorOf(g)
  BY <1>3, LoopShape
<1>6. Parent(it) = g /\ Kind(it) = "iterator_definition"
  BY <1>3, <1>5, LoopShape
<1>7. PICK N, x0, v0 : N = named' /\ x0 = Name(it) /\ v0 = Of(LowType(type[it]), it)
  OBVIOUS
<1>8. /\ DOMAIN N \subseteq DOMAIN named \cup {x0}
      /\ \A x \in DOMAIN N : N[x] = IF x = x0 THEN v0 ELSE named[x]
  BY <1>1, <1>5, <1>7 DEF Bind, Onto
<1>9. Held(v0, x0, B)
  <2>1. v0.def = it /\ v0.fn = CurrentFunction
    BY <1>7 DEF Of
  <2>2. \A k \in B : k <= g
    <3>1. Len(prog) \in Nat /\ Node = 1 .. Len(prog)
      BY ProgramFacts
    <3> QED BY <1>1, <1>2, <3>1 DEF Binders, Path
  <2>3. NestedFunctions = {} /\ CallableAround(it) # 0 => v0.fn = CallableAround(it)
    <3> SUFFICES ASSUME NestedFunctions = {}, CallableAround(it) # 0 PROVE v0.fn = CallableAround(it)
      OBVIOUS
    <3>1. CallableAround(it) = CallableAround(g)
      BY <1>5, <1>6, CallableFacts DEF Callables
    <3>2. CallableIn = CallableAround(g)
      BY <1>1, <1>3 DEF CallableIn
    <3>3. ip # NoBlock /\ CallableAround(ip[1]) = CallableAround(g)
      BY <3>1, <3>2 DEF InPlace
    <3>4. ip \in DOMAIN blocks
      BY <3>3 DEF BlocksAreTheirs
    <3>5. blocks[ip].fn = CallableAround(g)
      BY <3>1, <3>3, <3>4 DEF InPlace
    <3> QED BY <2>1, <3>1, <3>3, <3>5 DEF CurrentFunction
  <2>4. IteratorHeld(v0, x0, B)
    BY <1>2, <1>6, <2>1, <2>2, <2>3 DEF IteratorHeld
  <2> QED BY <1>6, <1>7, <2>1, <2>4 DEF Held, Mapped
<1>10. ASSUME NEW x \in DOMAIN N PROVE Held(N[x], x, B)'
  <2>1. CASE x = x0
    <3>1. v0 # NullValue /\ Kind(v0.def) = "iterator_definition" => Parent(v0.def) \in B
      BY <1>9 DEF Held, IteratorHeld
    <3> QED BY <1>3, <1>8, <1>9, <2>1, <3>1, HeldStays
  <2>2. CASE x # x0
    <3>1. PICK v, B1 : v = N[x] /\ B1 = Binders
      OBVIOUS
    <3>2. v = named[x] /\ x \in DOMAIN named
      BY <1>8, <2>2, <3>1
    <3>3. Held(v, x, B1)
      BY <3>1, <3>2 DEF NamesAreHeld
    <3>4. v # NullValue /\ Kind(v.def) = "iterator_definition" => Parent(v.def) \in B
      BY <1>2, <3>1, <3>3 DEF Held, IteratorHeld
    <3>5. ~Binds(g, x)
      BY <1>3, <1>5, <1>7, <2>2 DEF Binds
    <3>6. Held(v, x, B)'
      BY <1>2, <1>3, <3>1, <3>3, <3>4, <3>5, HeldStays
    <3> QED BY <3>1, <3>6
  <2> QED BY <2>1, <2>2
<1>11. NamesAreHeld'
  BY <1>4, <1>7, <1>10, HeldAfter
<1> QED BY <1>1, <1>3, <1>11, KeptStay

LEMMA NamesWhenFunctionOpens ==
  ASSUME prog \in Programs, WalkInv, NamesAreHeld, KeptAreHeld, prog' = prog,
         Turns, FunctionOpens, MapFormals(gcur), UNCHANGED keptValue
  PROVE  NamesAreHeld' /\ KeptAreHeld'
<1>1. PICK g \in Node : g = gcur
  BY DEF WalkInv
<1>2. PICK B : B = Binders \cup {g}
  OBVIOUS
<1>3. /\ Kind(g) \in Callables /\ Kind(g) \notin Loops /\ step[g] = 0 /\ step'[g] # 0 /\ step \in [Node -> Nat]
      /\ \A p \in Node : step[p] # 0 => step'[p] # 0
  BY <1>1, StepsStay DEF FunctionOpens, Descend, WalkInv, Loops, Callables
<1>4. Binders' = B
  BY <1>1, <1>2, BindersAfter
<1>5. PICK formals : formals = {d \in Node : Kind(d) = "formal" /\ Parent(d) = g}
  OBVIOUS
<1>6. formals = {FormalsOf(g)[i] : i \in 1 .. FormalCount(g)}
  BY <1>3, <1>5, FormalsAreMapped
<1>7. PICK args : args = [x \in {Name(d) : d \in formals} |->
                            [ty |-> LowType(type[CHOOSE d \in formals : Name(d) = x]),
                             def |-> CHOOSE d \in formals : Name(d) = x, fn |-> g]]
  OBVIOUS
<1>8. named' = Onto(args, named)
  BY <1>1, <1>6, <1>7 DEF MapFormals
<1>9. PICK N : N = named'
  OBVIOUS
<1>10. /\ DOMAIN N = DOMAIN args \cup DOMAIN named
       /\ \A x \in DOMAIN N : N[x] = IF x \in DOMAIN args THEN args[x] ELSE named[x]
  BY <1>8, <1>9 DEF Onto
<1>11. \A x \in DOMAIN args : args[x].def \in formals /\ Name(args[x].def) = x /\ args[x].fn = g
  BY <1>7
<1>12. \A x : x \in DOMAIN args <=> \E d \in formals : Name(d) = x
  BY <1>7
<1>13. \A k \in B : Kind(k) \in Loops => LoopBody(k) \in Path(g)
  <2>1. \A k \in B : Kind(k) \in Loops => k \in BindersAbove(g)
    BY <1>1, <1>2, <1>3, BindersHere
  <2> QED BY <2>1 DEF BindersAbove, InBody, Callables, Loops
<1>14. ASSUME NEW x \in DOMAIN N PROVE Held(N[x], x, B)'
  <2>1. PICK v, B1 : v = N[x] /\ B1 = Binders
    OBVIOUS
  <2>2. CASE x \in DOMAIN args
    <3>1. PICK d \in Node : d = v.def
      BY <1>5, <1>10, <1>11, <2>1, <2>2
    <3>2. Kind(d) = "formal" /\ Parent(d) = g /\ Name(d) = x /\ v.fn = g
      BY <1>5, <1>10, <1>11, <2>1, <2>2, <3>1
    <3>3. d # 1
      BY <3>2, ProgramFacts
    <3>4. Path(g) \subseteq Path(d)
      BY <3>2, <3>3, PathFacts
    <3>5. FormalHeld(v, x, B)'
      <4>1. \A k \in B : Kind(k) \in Loops => LoopBody(k) \in Path(d)
        BY <1>13, <3>4
      <4>2. \A n : /\ Kind(n)' = Kind(n) /\ Parent(n)' = Parent(n) /\ Path(n)' = Path(n)
                   /\ LoopBody(n)' = LoopBody(n)
        BY SameTree, SameOperands DEF Path
      <4> QED BY <1>3, <3>1, <3>2, <4>1, <4>2 DEF FormalHeld
    <3>6. Name(v.def)' = x /\ Mapped(v.def)' /\ v.def \in Node' /\ Kind(v.def)' = "formal"
      <4>1. Mapped(d)
        BY <1>3, <3>2 DEF Mapped
      <4> QED BY <3>1, <3>2, <4>1, SameTree, SameNames DEF Name
    <3>7. Held(v, x, B)'
      BY <3>5, <3>6 DEF Held
    <3> QED BY <2>1, <3>7
  <2>3. CASE x \notin DOMAIN args
    <3>1. v = named[x] /\ x \in DOMAIN named
      BY <1>10, <2>1, <2>3
    <3>2. Held(v, x, B1)
      BY <2>1, <3>1 DEF NamesAreHeld
    <3>3. v # NullValue /\ Kind(v.def) = "iterator_definition" => Parent(v.def) \in B
      BY <1>2, <2>1, <3>2 DEF Held, IteratorHeld
    <3>4. ~Binds(g, x)
      BY <1>3, <1>5, <1>12, <2>3 DEF Binds
    <3>5. Held(v, x, B)'
      BY <1>2, <1>3, <2>1, <3>2, <3>3, <3>4, HeldStays
    <3> QED BY <2>1, <3>5
  <2> QED BY <2>2, <2>3
<1>15. NamesAreHeld'
  BY <1>4, <1>9, <1>14, HeldAfter
<1> QED BY <1>1, <1>3, <1>15, KeptStay

LEMMA NamesAfter ==
  ASSUME prog \in Programs, WalkInv, BlocksAreTheirs, NamesAreHeld, KeptAreHeld, InPlace,
         keptValue \in [Node -> Value], prog' = prog, NameMoves
  PROVE  NamesAreHeld' /\ KeptAreHeld'
<1>1. CASE (Stays /\ KeepsNames) \/ (Turns /\ KeepsNames /\ Kind(gcur) \notin Loops /\ ~FunctionOpens)
  BY <1>1, NamesStay
<1>2. CASE Turns /\ Renames
  BY <1>2, NamesWhenLoopOpens, NamesWhenLoopCloses, NamesWhenIterationBegins, NamesWhenFunctionOpens DEF Renames
<1> QED BY <1>1, <1>2 DEF NameMoves

\* A loop's name stays in the map.
LEMMA IteratorsStayNamed ==
  ASSUME prog \in Programs, WalkInv, IteratorsAreNamed, prog' = prog, NameMoves
  PROVE  IteratorsAreNamed'
<1>1. /\ gcur \in Node /\ step \in [Node -> Nat] /\ Node' = Node
      /\ \A k : Kind(k)' = Kind(k) /\ Name(IteratorOf(k))' = Name(IteratorOf(k))
  BY SameTree DEF WalkInv, Name, IteratorOf, Kind, Child
<1>2. DOMAIN named \subseteq DOMAIN named'
  BY DEF NameMoves, KeepsNames, Renames, LoopOpens, MapFormals, Bind, Onto
<1>3. ASSUME NEW k \in Node, Iterates(k)' PROVE Name(IteratorOf(k)) \in DOMAIN named'
  <2>1. Kind(k) \in Loops /\ step'[k] = 2
    BY <1>1, <1>3 DEF Iterates
  <2>2. CASE Iterates(k)
    BY <1>2, <2>2 DEF IteratorsAreNamed
  <2>3. CASE ~Iterates(k)
    <3>1. step[k] # 2
      BY <2>1, <2>3 DEF Iterates
    <3>2. Turns /\ k = gcur
      BY <1>1, <2>1, <3>1, TurnFacts DEF NameMoves, Stays
    <3>3. IterationBegins
      <4>1. ~KeepsNames \/ Kind(gcur) \in Loops
        BY <2>1, <3>2
      <4>2. Renames
        BY <2>1, <3>1, <3>2 DEF NameMoves, Stays
      <4>3. ~LoopOpens
        BY <1>1, <2>1, <3>2 DEF LoopOpens, Passes, Descend
      <4> QED BY <2>1, <3>1, <3>2, <4>2, <4>3 DEF Renames, FunctionOpens, LoopCloses, Callables, Loops
    <3>4. named' = Bind(Name(IteratorOf(gcur)), Of(LowType(type[IteratorOf(gcur)]), IteratorOf(gcur)))
      BY <2>1, <3>1, <3>2, <3>3 DEF NameMoves, Renames, Stays, LoopOpens, Passes, Descend, FunctionOpens, LoopCloses,
                             IterationBegins, Callables, Loops
    <3> QED BY <3>2, <3>4 DEF Bind, Onto
  <2> QED BY <2>2, <2>3
<1> QED BY <1>1, <1>3 DEF IteratorsAreNamed

-----------------------------------------------------------------------------
(* Where the code goes                                                     *)

LEMMA CallableAfter ==
  ASSUME prog \in Programs, WalkInv, Turns, prog' = prog
  PROVE  /\ (\E i : Descend(i)) => CallableIn' = CallableAround(gcur)
         /\ Ascend => gcur # 1 /\ CallableIn' = CallableAround(Handler(gcur))
         /\ Kind(gcur) \notin Callables => CallableIn = CallableAround(gcur)
         /\ Kind(gcur) \notin Callables /\ gcur # 1 => CallableAround(gcur) = CallableAround(Handler(gcur))
<1>1. gcur \in Node /\ gcur' \in Node
  BY TurnFacts DEF WalkInv
<1>2. PICK c \in Node : c = gcur'
  BY <1>1
<1>3. CallableIn' = IF Kind(c) \in Callables /\ step'[c] = 0 THEN CallableAround(Handler(c)) ELSE CallableAround(c)
  <2>1. \A n : Kind(n)' = Kind(n) /\ Handler(n)' = Handler(n) /\ CallableAround(n)' = CallableAround(n)
    BY SameTree, SameOperands, SameNames
  <2>2. Handler(gcur)' = Handler(c) /\ Kind(gcur)' = Kind(c)
    BY <1>2 DEF Handler, Kind, Parent
  <2>3. CallableAround(gcur)' = CallableAround(c) /\ CallableAround(Handler(gcur))' = CallableAround(Handler(c))
    BY <1>2, <2>2 DEF CallableAround, Below, Path, Kind
  <2> QED BY <1>2, <2>2, <2>3 DEF CallableIn
<1>4. ASSUME NEW i, Descend(i) PROVE CallableIn' = CallableAround(gcur)
  <2>1. c # 1 /\ Handler(c) = gcur /\ step[c] = 0 /\ c # gcur
    BY <1>2, <1>4, OperandIsNew
  <2>2. step'[c] = 0
    BY <1>1, <2>1, TurnFacts
  <2> QED BY <1>3, <2>1, <2>2, CallableFacts
<1>5. ASSUME Ascend PROVE gcur # 1 /\ CallableIn' = CallableAround(Handler(gcur))
  <2>1. gcur # 1 /\ c = Handler(gcur) /\ step' = step
    BY <1>2, <1>5 DEF Ascend
  <2>2. c \in Path(gcur) /\ c # gcur /\ Kind(c) # "iterator_definition"
    BY <1>1, <2>1, HandlerOf, OperandPath
  <2>3. step'[c] # 0
    BY <2>1, <2>2, InProgress
  <2> QED BY <1>3, <2>1, <2>3
<1>6. Kind(gcur) \notin Callables => CallableIn = CallableAround(gcur)
  BY DEF CallableIn
<1>7. Kind(gcur) \notin Callables /\ gcur # 1 => CallableAround(gcur) = CallableAround(Handler(gcur))
  BY <1>1, CallableFacts
<1> QED BY <1>4, <1>5, <1>6, <1>7

\* The insertion point after a turn.
LEMMA PointInPlace ==
  ASSUME prog \in Programs, WalkInv, InPlace, Turns, prog' = prog, NestedFunctions = {}, CallableIn' # 0
  PROVE  ip' # NoBlock /\ CallableAround(ip'[1]) = CallableIn'
<1>1. gcur \in Node /\ 0 \notin Node
  BY ProgramFacts DEF WalkInv
<1>2. /\ CallableIn # 0 => ip # NoBlock /\ CallableAround(ip[1]) = CallableIn
      /\ \A g \in Node : Kind(g) = "lambda" /\ step[g] = 1 /\ CallableAround(Handler(g)) # 0 =>
           keptBlock[g] # NoBlock /\ CallableAround(keptBlock[g][1]) = CallableAround(Handler(g))
  BY DEF InPlace
<1>3. CASE (\E i : Passes(i)) \/ Returns
  <2>1. ip' = ip /\ Kind(gcur) \notin Callables /\ ((\E i : Descend(i)) \/ Ascend)
    BY <1>3 DEF Passes, Returns, Quietly
  <2>2. CallableIn' = CallableIn
    BY <2>1, CallableAfter
  <2> QED BY <1>2, <2>1, <2>2
<1>4. CASE FunctionOpens
  <2>1. ip' = <<gcur, "entry">> /\ Kind(gcur) \in Callables /\ \E i : Descend(i)
    BY <1>4 DEF FunctionOpens, Entry
  <2>2. CallableIn' = CallableAround(gcur)
    BY <2>1, CallableAfter
  <2> QED BY <1>1, <2>1, <2>2 DEF NoBlock
<1>5. CASE FunctionCloses
  <2>1. /\ Kind(gcur) \in Callables /\ step[gcur] = 1 /\ Ascend
        /\ ip' = (IF Kind(gcur) = "lambda" THEN keptBlock[gcur] ELSE ip)
    BY <1>5 DEF FunctionCloses
  <2>2. gcur # 1 /\ CallableIn' = CallableAround(Handler(gcur))
    BY <2>1, CallableAfter
  <2>3. CASE Kind(gcur) = "lambda"
    BY <1>1, <1>2, <2>1, <2>2, <2>3
  <2>4. CASE Kind(gcur) = "function_definition"
    <3>1. Parent(gcur) = 1
      BY <1>1, <2>4 DEF NestedFunctions
    <3>2. Handler(gcur) = 1 /\ 1 \in Node
      BY <3>1, ProgramFacts DEF Handler
    <3>3. CallableAround(1) = 0
      BY <3>2, CallableFacts
    <3> QED BY <2>2, <3>2, <3>3
  <2> QED BY <2>1, <2>3, <2>4 DEF Callables
<1>6. CASE ThenBegins \/ ElseBegins \/ IterationBegins
  <2>1. \E l : ip' = <<gcur, l>>
    BY <1>6 DEF ThenBegins, ElseBegins, IterationBegins, IfBlock, LoopBlock
  <2>2. \E i : Descend(i)
    BY <1>6 DEF ThenBegins, ElseBegins, IterationBegins
  <2>3. CallableIn' = CallableAround(gcur)
    BY <2>2, CallableAfter
  <2> QED BY <1>1, <2>1, <2>3 DEF NoBlock
<1>7. CASE ElseFails \/ BranchesMerge \/ LoopCloses
  <2>1. \E l : ip' = <<gcur, l>>
    BY <1>7 DEF ElseFails, BranchesMerge, LoopCloses, IfBlock, LoopBlock
  <2>2. Ascend /\ Kind(gcur) \notin Callables
    BY <1>7 DEF ElseFails, BranchesMerge, LoopCloses, Loops, Callables
  <2>3. CallableIn' = CallableAround(gcur)
    BY <2>2, CallableAfter
  <2> QED BY <1>1, <2>1, <2>3 DEF NoBlock
<1> QED BY <1>3, <1>4, <1>5, <1>6, <1>7 DEF Turns

LEMMA BlocksInPlace ==
  ASSUME prog \in Programs, WalkInv, BlocksAreTheirs, KeptAreTheirs, LoopsAreSteered, InPlace, Turns,
         prog' = prog, NestedFunctions = {}, NEW b \in DOMAIN blocks', CallableAround(b[1]) # 0
  PROVE  blocks'[b].fn = CallableAround(b[1])
<1>1. gcur \in Node
  BY DEF WalkInv
<1>2. CASE b \in DOMAIN blocks
  <2>1. blocks'[b].fn = blocks[b].fn
    BY <1>2, PlaceAfter DEF Keeps
  <2> QED BY <1>2, <2>1 DEF InPlace
<1>3. CASE b \notin DOMAIN blocks
  <2>1. Creates /\ b \in MadeBlocks
    BY <1>3, PlaceAfter DEF Keeps
  <2>2. b[1] = gcur
    BY <2>1 DEF MadeBlocks
  <2>3. CASE FunctionOpens
    <3>1. NewLabels = {"entry"}
      BY <1>1, <2>3, LabelsAfter
    <3>2. b = Entry(gcur)
      BY <2>1, <3>1 DEF MadeBlocks, Entry
    <3>3. blocks'[b] = NewBlock(gcur)
      BY <2>3, <3>2, FunctionOpensBlocks
    <3>4. CallableAround(gcur) = gcur
      BY <1>1, <2>3, CallableFacts DEF FunctionOpens
    <3> QED BY <2>2, <3>3, <3>4 DEF NewBlock
  <2>4. ASSUME Kind(gcur) \notin Callables, blocks'[b].fn = CurrentFunction
        PROVE  blocks'[b].fn = CallableAround(b[1])
    <3>1. CallableIn = CallableAround(gcur)
      BY <2>4 DEF CallableIn
    <3>2. ip # NoBlock /\ CallableAround(ip[1]) = CallableAround(gcur)
      BY <2>2, <3>1 DEF InPlace
    <3>3. ip \in DOMAIN blocks
      BY <3>2 DEF BlocksAreTheirs
    <3>4. blocks[ip].fn = CallableAround(gcur)
      BY <2>2, <3>2, <3>3 DEF InPlace
    <3> QED BY <2>2, <2>4, <3>2, <3>4 DEF CurrentFunction
  <2>5. CASE ThenBegins
    <3>1. NewLabels = {"then", "else", "cont"}
      BY <1>1, <2>5, LabelsAfter
    <3>2. b \in {IfBlock("then"), IfBlock("else"), IfBlock("cont")}
      BY <2>1, <3>1 DEF MadeBlocks, IfBlock
    <3>3. blocks'[b] = NewBlock(CurrentFunction)
      BY <2>5, <3>2, ThenBeginsBlocks
    <3> QED BY <2>4, <2>5, <3>3 DEF NewBlock, ThenBegins, Callables
  <2>6. CASE IterationBegins
    <3>1. NewLabels = {"check", "loop", "update", "loopend"}
      BY <1>1, <2>6, LabelsAfter
    <3>2. b \in {LoopBlock("check"), LoopBlock("loop"), LoopBlock("update"), LoopBlock("loopend")}
      BY <2>1, <3>1 DEF MadeBlocks, LoopBlock
    <3>3. blocks'[b].fn = CurrentFunction
      BY <2>6, <3>2, IterationBeginsBlocks DEF NewBlock
    <3> QED BY <2>4, <2>6, <3>3 DEF IterationBegins, Loops, Callables
  <2> QED BY <2>1, <2>3, <2>5, <2>6 DEF Creates
<1> QED BY <1>2, <1>3

LEMMA KeptInPlace ==
  ASSUME prog \in Programs, WalkInv, KeptAreTheirs, InPlace, Turns, prog' = prog, NestedFunctions = {},
         NEW g \in Node, Kind(g) = "lambda", step'[g] = 1, CallableAround(Handler(g)) # 0
  PROVE  keptBlock'[g] # NoBlock /\ CallableAround(keptBlock'[g][1]) = CallableAround(Handler(g))
<1>1. keptBlock \in [Node -> DOMAIN blocks \cup {NoBlock}] /\ gcur \in Node /\ step \in [Node -> Nat]
  BY DEF KeptAreTheirs, WalkInv
<1>2. CASE step[g] = 1 /\ keptBlock'[g] = keptBlock[g]
  BY <1>2 DEF InPlace
<1>3. CASE g = gcur /\ FunctionOpens
  <2>1. keptBlock'[g] = ip /\ CallableIn = CallableAround(Handler(g))
    BY <1>1, <1>3 DEF FunctionOpens, CallableIn, Callables
  <2> QED BY <2>1 DEF InPlace
<1>4. g # gcur => step[g] = 1 /\ keptBlock'[g] = keptBlock[g]
  <2>1. g # gcur => step[g] = 1
    BY TurnFacts
  <2>2. g # gcur => keptBlock'[g] = keptBlock[g]
    BY <1>1 DEF Turns, Passes, Returns, Quietly, FunctionOpens, FunctionCloses, ThenBegins, ElseBegins, ElseFails, BranchesMerge,
                IterationBegins, LoopCloses
  <2> QED BY <2>1, <2>2
<1>5. g = gcur /\ ~FunctionOpens => step[g] = 1 /\ keptBlock'[g] = keptBlock[g]
  BY DEF Turns, Passes, Returns, Quietly, FunctionCloses, ThenBegins, ElseBegins, ElseFails, BranchesMerge,
         IterationBegins, LoopCloses, Callables, Loops, Ascend
<1> QED BY <1>2, <1>3, <1>4, <1>5

LEMMA PlacesStay ==
  ASSUME prog \in Programs, WalkInv, BlocksAreTheirs, KeptAreTheirs, LoopsAreSteered, InPlace, Stays \/ Turns,
         prog' = prog
  PROVE  InPlace'
<1>1. /\ Node' = Node /\ NestedFunctions' = NestedFunctions /\ NoBlock' = NoBlock
      /\ \A n : Kind(n)' = Kind(n) /\ Handler(n)' = Handler(n) /\ CallableAround(n)' = CallableAround(n)
  BY SameTree, SameOperands, SameNames DEF NoBlock
<1>2. CASE Stays
  <2>1. gcur' = gcur /\ step' = step /\ ip' = ip /\ blocks' = blocks /\ keptBlock' = keptBlock
    BY <1>2 DEF Stays, Quietly
  <2>2. Kind(gcur)' = Kind(gcur) /\ Handler(gcur)' = Handler(gcur)
    BY <2>1 DEF Kind, Handler, Parent
  <2>3. CallableAround(gcur)' = CallableAround(gcur) /\ CallableAround(Handler(gcur))' = CallableAround(Handler(gcur))
    BY <2>1, <2>2 DEF CallableAround, Below, Path, Kind
  <2>4. CallableIn' = CallableIn
    BY <2>1, <2>2, <2>3 DEF CallableIn
  <2>5. /\ CallableAround(ip[1])' = CallableAround(ip[1])
        /\ \A g : CallableAround(keptBlock[g][1])' = CallableAround(keptBlock[g][1])
    BY <2>1 DEF CallableAround, Below, Path, Kind
  <2>6. \A g : CallableAround(Handler(g))' = CallableAround(Handler(g)) /\ CallableAround(g[1])' = CallableAround(g[1])
    BY <1>1 DEF CallableAround, Below, Path, Kind, Handler, Parent
  <2> QED BY <1>1, <2>1, <2>4, <2>5, <2>6 DEF InPlace
<1>3. CASE Turns
  <2> SUFFICES ASSUME NestedFunctions = {} PROVE InPlace'
    BY <1>1 DEF InPlace
  <2>1. CallableIn' # 0 => ip' # NoBlock /\ CallableAround(ip'[1]) = CallableIn'
    BY <1>3, PointInPlace
  <2>2. \A b \in DOMAIN blocks' : CallableAround(b[1]) # 0 => blocks'[b].fn = CallableAround(b[1])
    BY <1>3, BlocksInPlace
  <2>3. \A g \in Node : Kind(g) = "lambda" /\ step'[g] = 1 /\ CallableAround(Handler(g)) # 0 =>
          keptBlock'[g] # NoBlock /\ CallableAround(keptBlock'[g][1]) = CallableAround(Handler(g))
    BY <1>3, KeptInPlace
  <2>4. CallableAround(ip[1])' = CallableAround(ip'[1])
    BY DEF CallableAround, Below, Path, Kind
  <2>5. \A g : /\ CallableAround(keptBlock[g][1])' = CallableAround(keptBlock'[g][1])
               /\ CallableAround(Handler(g))' = CallableAround(Handler(g)) /\ CallableAround(g[1])' = CallableAround(g[1])
    BY DEF CallableAround, Below, Path, Kind, Handler, Parent
  <2> QED BY <1>1, <2>1, <2>2, <2>3, <2>4, <2>5 DEF InPlace
<1> QED BY <1>2, <1>3

-----------------------------------------------------------------------------
(* Before and after                                                        *)

LEMMA AboveStays ==
  ASSUME prog \in Programs, WalkInv, StepsAbove, Stays \/ Turns, prog' = prog
  PROVE  StepsAbove'
<1>1. /\ gcur \in Node /\ step \in [Node -> Nat] /\ Node' = Node
      /\ \A n : Kind(n)' = Kind(n) /\ Path(n)' = Path(n)
  BY SameTree DEF WalkInv, Path
<1>2. \A p \in Node : step[p] # 0 => step'[p] # 0
  BY StepsStay
<1>3. ASSUME NEW p \in Node, step'[p] # 0, NEW q \in Path(p), Kind(q) # "iterator_definition"
      PROVE  step'[q] # 0
  <2>1. q \in Node
    BY <1>3, PathFacts
  <2>2. CASE step[p] # 0
    BY <1>2, <1>3, <2>1, <2>2 DEF StepsAbove
  <2>3. CASE step[p] = 0
    <3>1. p = gcur
      BY <1>3, <2>3, TurnFacts DEF Stays
    <3>2. CASE q = gcur
      BY <1>3, <3>1, <3>2
    <3>3. CASE q # gcur
      BY <1>2, <1>3, <2>1, <3>1, <3>3, InProgress
    <3> QED BY <3>2, <3>3
  <2> QED BY <2>2, <2>3
<1>4. \A p \in Node : step'[p] # 0 => \A q \in Path(p) : Kind(q) = "iterator_definition" \/ step'[q] # 0
  BY <1>3
<1> QED BY <1>1, <1>4 DEF StepsAbove

\* What is below the first of two siblings comes before what is below the second.
LEMMA SubtreesInOrder ==
  ASSUME prog \in Programs, NEW x \in Node \ {1}, NEW y \in Node \ {1}, Parent(x) = Parent(y), x < y,
         NEW e \in Node, NEW n \in Node, x \in Path(e), y \in Path(n)
  PROVE  e <= n
<1>1. /\ Len(prog) \in Nat /\ Node = 1 .. Len(prog)
      /\ \A m \in Node : prog[m].last \in m .. Len(prog)
  BY TreeOrder
<1>2. x # y /\ y \in Path(y)
  BY <1>1, PathFacts
<1>3. x \notin Path(y)
  BY <1>2, SiblingsApart
<1>4. prog[x].last < y
  BY <1>1, <1>3 DEF Path
<1>5. e <= prog[x].last /\ y <= n
  BY <1>1 DEF Path
<1> QED BY <1>1, <1>4, <1>5

\* What has taken a step is before what the walk comes to, in the order of the walk: that of
\* the text, but for loops that collect.
LEMMA StepsPrecede ==
  ASSUME prog \in Programs, WalkInv, StepsAbove, NEW n \in Node, n = gcur, step[n] = 0,
         Kind(n) # "iterator_definition", NEW e \in Node \ {1}, step[Parent(e)] # 0,
         Kind(Parent(e)) \in Callables \/ (Kind(e) = "iterator_definition" /\ Iterates(Parent(e)))
  PROVE  Precedes(e, n)
<1>1. /\ Len(prog) \in Nat /\ Node = 1 .. Len(prog) /\ 1 \in Node /\ Kind(1) = "root"
      /\ Parent(e) \in Node /\ step \in [Node -> Nat]
  BY ProgramFacts DEF WalkInv
<1>2. PICK p \in Node : p = Parent(e) /\ step[p] # 0 /\ p # n
  BY <1>1
<1>3. p \in Path(e) /\ Path(p) \subseteq Path(e) /\ Path(p) \subseteq Node /\ Path(n) \subseteq Node /\ n \in Path(n)
      /\ p \in Path(p)
  BY <1>1, <1>2, PathFacts
<1>4. \A m \in Path(n) : m <= n
  BY <1>1 DEF Path
<1>5. CASE p \in Path(n) /\ Kind(p) \in Callables
  <2>1. step[p] \in Steps(p) /\ Operand(p, step[p]) \in Path(n)
    BY <1>2, <1>5, InProgress DEF Callables
  <2>2. LastChild(p) \in Path(n)
    BY <1>5, <2>1 DEF Operand
  <2>3. e <= LastChild(p)
    <3>1. PICK j \in 1 .. Len(Children(p)) : Child(p, j) = e
      BY <1>1, <1>2, TreeFacts
    <3>2. Len(Children(p)) \in Nat /\ LastChild(p) = Child(p, Len(Children(p)))
      BY <1>2, ProgramFacts DEF LastChild
    <3>3. j = Len(Children(p)) \/ j < Len(Children(p))
      BY <3>1, <3>2
    <3>4. e = LastChild(p) \/ e < LastChild(p)
      BY <1>2, <3>1, <3>2, <3>3, TreeFacts
    <3> QED BY <1>1, <1>3, <2>2, <3>4
  <2>4. LastChild(p) \in Node
    BY <1>3, <2>2
  <2> QED BY <1>1, <1>4, <2>2, <2>3, <2>4 DEF Precedes
<1>7. CASE p \in Path(n) /\ Kind(e) = "iterator_definition" /\ Iterates(p)
  <2>1. Kind(p) \in Loops /\ Kind(p) # "iterator_definition" /\ Kind(p) \notin Callables /\ e = IteratorOf(p) /\ step[p] = 2
    BY <1>2, <1>7, IteratorShape DEF Iterates, Loops, Callables
  <2>2. Operand(p, step[p]) \in Path(n)
    BY <1>2, <1>7, <2>1, InProgress
  <2>3. LoopBody(p) \in Path(n)
    BY <2>1, <2>2 DEF Operand
  <2>4. CASE Kind(p) = "collect_loop"
    <3>1. e \in Path(e)
      BY PathFacts
    <3> QED BY <1>7, <2>1, <2>3, <2>4, <3>1 DEF Precedes, InBody
  <2>5. CASE Kind(p) = "do_loop"
    <3>1. e = Child(p, 1) /\ LoopBody(p) = Child(p, 2)
      BY <2>1, <2>5 DEF IteratorOf, LoopBody
    <3>2. Len(Children(p)) = 2
      BY <2>1, LoopShape
    <3>3. 1 \in 1 .. Len(Children(p)) /\ 2 \in 1 .. Len(Children(p)) /\ 1 < 2
      BY <3>2
    <3>4. e < LoopBody(p)
      BY <3>1, <3>3, TreeFacts
    <3>5. LoopBody(p) \in Node /\ LoopBody(p) <= n
      BY <1>3, <1>4, <2>3
    <3> QED BY <1>1, <3>4, <3>5 DEF Precedes
  <2> QED BY <2>1, <2>4, <2>5 DEF Loops
<1>6. CASE p \notin Path(n)
  <2> DEFINE S == Path(p) \cap Path(n)
  <2>1. S \in SUBSET (0 .. Len(prog)) /\ 1 \in S
    <3>1. \A m \in Node : 1 \in Path(m)
      BY <1>1, ProgramsAssumption DEF Path, WellFormed
    <3> QED BY <1>1, <1>3, <3>1
  <2>2. PICK a : a \in S /\ \A y \in S : y <= a
    <3> HIDE DEF S
    <3> QED BY <1>1, <2>1, BelowPicks
  <2>3. a \in Node /\ a \in Path(p) /\ a \in Path(n) /\ a # p /\ \A y \in Path(p) : y \in Path(n) => y <= a
    BY <1>3, <1>6, <2>2
  <2>4. a # n
    BY <1>2, <2>3 DEF StepsAbove
  <2>5. PICK x \in Path(p) : x \in Node \ {1} /\ Parent(x) = a
    BY <1>2, <2>3, ChildOnPath
  <2>6. PICK y \in Path(n) : y \in Node \ {1} /\ Parent(y) = a
    BY <2>3, <2>4, ChildOnPath
  <2>7. a < x /\ a < y
    BY <1>1, <2>5, <2>6, TreeOrder
  <2>8. x \notin Path(n) /\ x # y
    <3>1. x \notin Path(n)
      BY <1>1, <2>3, <2>5, <2>7
    <3> QED BY <2>6, <3>1
  <2>9. x < y => Precedes(e, n)
    <3>1. x \in Path(e)
      BY <1>3, <2>5
    <3>2. x < y => e <= n
      BY <2>5, <2>6, <3>1, SubtreesInOrder
    <3> QED BY <3>2 DEF Precedes
  <2>10. Kind(x) = "iterator_definition" \/ step[x] # 0
    BY <1>2, <2>5 DEF StepsAbove
  <2>11. y = gcur \/ Kind(y) = "iterator_definition" \/ step[y] # 0
    BY <2>6, InProgress
  <2>12. CASE Kind(a) = "iterator_definition"
    <3>1. Kind(x) # "iterator_definition" /\ Kind(y) # "iterator_definition"
      BY <2>5, <2>6, <2>12, IteratorShape DEF Loops
    <3>2. PICK k \in Node : k = Parent(a) /\ Kind(k) \in Loops /\ a = IteratorOf(k) /\ Handler(x) = k /\ Handler(y) = k
      BY <2>3, <2>5, <2>6, <2>12, IteratorShape DEF Handler
    <3>3. Visited(x) /\ Visited(y)
      BY <2>5, <2>6, <2>10, <2>11, <3>1 DEF WalkInv, WalkIsDown
    <3>4. \A i : Operand(k, i) = IF i = 1 THEN Child(a, 1) ELSE LoopBody(k)
      BY <3>2 DEF Operand, Loops, Callables
    <3>5. Parent(LoopBody(k)) = k /\ a # k
      BY <2>12, <3>2, LoopShape DEF Loops
    <3>6. x = Child(a, 1) /\ y = Child(a, 1)
      BY <2>5, <2>6, <3>2, <3>3, <3>4, <3>5 DEF Visited
    <3> QED BY <2>8, <3>6
  <2>13. CASE Kind(a) # "iterator_definition" /\ Kind(x) = "iterator_definition"
    <3>1. Kind(a) \in Loops /\ x = IteratorOf(a)
      BY <2>5, <2>13, IteratorShape
    <3>2. Len(Children(a)) = 2
      BY <2>3, <3>1, LoopShape
    <3>3. y \in {Child(a, 1), Child(a, 2)}
      <4>1. PICK j \in 1 .. Len(Children(a)) : Child(a, j) = y
        BY <2>3, <2>6, TreeFacts
      <4> QED BY <3>2, <4>1
    <3>4. y = LoopBody(a)
      BY <2>8, <3>1, <3>3 DEF LoopBody, IteratorOf
    <3>5. CASE Kind(a) = "collect_loop"
      <4>1. InBody(n, a) /\ IteratorOf(a) \in Path(e)
        BY <1>3, <2>5, <2>6, <3>1, <3>4 DEF InBody
      <4> QED BY <2>3, <3>5, <4>1 DEF Precedes
    <3>6. CASE Kind(a) = "do_loop"
      <4>1. x = Child(a, 1) /\ y = Child(a, 2)
        BY <3>1, <3>4, <3>6 DEF LoopBody, IteratorOf
      <4>2. 1 \in 1 .. Len(Children(a)) /\ 2 \in 1 .. Len(Children(a)) /\ 1 < 2
        BY <3>2
      <4>3. x < y
        BY <2>3, <4>1, <4>2, TreeFacts
      <4> QED BY <2>9, <4>3
    <3> QED BY <3>1, <3>5, <3>6 DEF Loops
  <2>14. CASE Kind(a) # "iterator_definition" /\ Kind(x) # "iterator_definition"
    <3>1. Handler(x) = a /\ step[a] \in Steps(a) /\ Operand(a, step[a]) \in Path(n)
      BY <2>3, <2>4, <2>5, <2>14, InProgress DEF Handler
    <3>2. PICK k \in 1 .. step[a] : x = Operand(a, k)
      BY <2>5, <2>10, <2>14, <3>1 DEF WalkInv, WalkIsDown, Visited
    <3>3. k # step[a] /\ step[a] \in Nat
      BY <1>1, <2>3, <2>8, <3>1, <3>2
    <3>4. k \in Nat /\ k < step[a]
      BY <3>2, <3>3
    <3>5. Kind(a) \notin Callables
      BY <3>1, <3>2, <2>8 DEF Operand
    <3>6. Kind(a) \notin Loops
      <4>1. ASSUME Kind(a) \in Loops PROVE FALSE
        <5>1. \A i : Operand(a, i) = IF i = 1 THEN Child(IteratorOf(a), 1) ELSE LoopBody(a)
          BY <3>5, <4>1 DEF Operand
        <5>2. Parent(Child(IteratorOf(a), 1)) = IteratorOf(a) /\ IteratorOf(a) # a
          BY <2>3, <2>14, <4>1, LoopShape
        <5>3. k # 1
          BY <2>5, <3>2, <5>1, <5>2
        <5>4. step[a] # 1
          BY <3>2, <3>4
        <5> QED BY <2>8, <3>1, <3>2, <5>1, <5>3, <5>4
      <4> QED BY <4>1
    <3>7. Steps(a) = 1 .. Len(Children(a)) /\ \A i : Operand(a, i) = Child(a, i)
      BY <3>5, <3>6 DEF Steps, Operand
    <3>8. Len(Children(a)) \in Nat
      BY <2>3, ProgramFacts
    <3>9. PICK z : z = Child(a, step[a])
      OBVIOUS
    <3>10. z \in Node \ {1} /\ Parent(z) = a /\ z \in Path(n) /\ k \in 1 .. Len(Children(a))
      BY <2>3, <3>1, <3>4, <3>7, <3>8, <3>9, <3>2, TreeFacts
    <3>11. x < z
      BY <2>3, <3>1, <3>2, <3>4, <3>7, <3>9, <3>10, TreeFacts
    <3>12. z = y
      BY <2>6, <3>10, SiblingsApart
    <3> QED BY <2>9, <3>11, <3>12
  <2> QED BY <2>12, <2>13, <2>14
<1> QED BY <1>2, <1>5, <1>6, <1>7

-----------------------------------------------------------------------------
(* Externs                                                                 *)

LEMMA ExternRuns ==
  ASSUME Next, Kind(cur) = "extern_function", pc[cur] = "enter"
  PROVE  pc' = pc \/ pc' = [pc EXCEPT ![cur] = "done"]
<1>1. ~(VisitChild \/ SkipVisitedChild \/ RejectArgument \/ VisitArgument \/ VisitOtherBranch \/ LeaveFunctionCall)
  BY DEF VisitChild, SkipVisitedChild, MoreChildren, RejectArgument, VisitArgument, VisitOtherBranch,
         LeaveFunctionCall, ArgumentsPassed, Passing, Running
<1>2. ~(LeaveOperator \/ LeaveIf \/ LeaveCallable \/ LeaveLoop \/ LeaveVariableDefinition \/ LeaveUntyped \/ LeaveIterator)
  BY DEF LeaveOperator, LeaveIf, LeaveCallable, LeaveLoop, LeaveVariableDefinition, LeaveUntyped, LeaveIterator,
         Leaving, Running
<1>3. ~(VisitUnscoped \/ VisitFunctionBody \/ VisitScopedExpression \/ VisitLambda \/ VisitLiteral)
  BY DEF VisitUnscoped, VisitFunctionBody, VisitScopedExpression, VisitLambda, VisitLiteral,
         Entering, Running, Unscoped, ScopedExpressions
<1>4. ~(VisitFunctionDefinition \/ VisitVariableDefinition \/ ResolveVariable \/ VisitFunctionCall)
  BY DEF VisitFunctionDefinition, VisitVariableDefinition, ResolveVariable, VisitFunctionCall, Entering, Leaving, Running
<1>5. CASE RejectDefinition
  BY <1>5 DEF RejectDefinition, Stop
<1>6. CASE VisitFormalOrExtern
  BY <1>6 DEF VisitFormalOrExtern, Return
<1> QED BY <1>1, <1>2, <1>3, <1>4, <1>5, <1>6 DEF Next

LEMMA ExternsStayLeaves ==
  ASSUME ResultInductive, ExternsAreLeaves, [Next]_vars
  PROVE  ExternsAreLeaves'
<1>1. CASE UNCHANGED vars
  BY <1>1 DEF ExternsAreLeaves, Optional, vars, Node, Kind, Parent
<1>2. CASE Next
  <2>1. /\ prog' = prog /\ prog \in Programs /\ cur \in Node /\ pc[cur] \notin {"idle", "done"} /\ PcMoves
        /\ pc \in [Node -> Progress] /\ at \in [Node -> Nat]
        /\ \A n \in Node \ {cur} : pc'[n] = pc[n] \/ (pc'[n] = "enter" /\ pc[n] = "idle")
    <3>1. ResultsMove
      BY <1>2, NextResults
    <3> QED BY <3>1, OthersStay DEF ResultsMove, TablesMove, ResultInductive, LexicalInductive, WalkInductive,
                                  Inductive, TypeOK
  <2>2. Kind(cur) = "extern_function" => pc' = pc \/ pc' = [pc EXCEPT ![cur] = "done"]
    BY <1>2, <2>1, ExternRuns DEF ExternsAreLeaves
  <2>3. ASSUME NEW n \in Node, Kind(n) = "extern_function"
        PROVE  pc'[n] \in {"idle", "enter", "done"}
    <3>1. pc[n] \in {"idle", "enter", "done"}
      BY <2>3 DEF ExternsAreLeaves
    <3> QED BY <2>1, <2>2, <2>3, <3>1
  <2>4. ASSUME NEW n \in Node, Kind(n) = "formal", Kind(Parent(n)) = "extern_function"
        PROVE  pc'[n] = "idle"
    <3>1. pc[n] = "idle" /\ n # cur
      BY <2>1, <2>4 DEF ExternsAreLeaves, Optional
    <3>2. SUFFICES ASSUME pc'[n] # pc[n] PROVE FALSE
      BY <3>1
    <3>3. at[cur] < Len(Children(cur)) /\ n = NextChild
      BY <2>1, <2>4, <3>1, <3>2 DEF PcMoves
    <3>4. at[cur] + 1 \in 1 .. Len(Children(cur))
      <4>1. Len(Children(cur)) \in Nat /\ at[cur] \in Nat
        BY <2>1, ProgramFacts
      <4> QED BY <3>3, <4>1
    <3>5. Parent(n) = cur
      BY <2>1, <3>3, <3>4, TreeFacts DEF NextChild
    <3> QED BY <2>1, <2>2, <2>4, <3>1, <3>2, <3>5
  <2>5. Node' = Node /\ \A n : Kind(n)' = Kind(n) /\ Parent(n)' = Parent(n) /\ Kind(Parent(n))' = Kind(Parent(n))
    BY <2>1, SameTree DEF Kind, Parent
  <2> QED BY <2>3, <2>4, <2>5 DEF ExternsAreLeaves, Optional
<1> QED BY <1>1, <1>2

-----------------------------------------------------------------------------
(* What a variable means                                                   *)

\* A body an iterator of the variable's name is bound in.
Rebinds(l, n) == l \in Path(n) /\ InBody(n, l) /\ Name(IteratorOf(l)) = Name(n)

LEMMA IntendedIs ==
  ASSUME prog \in Programs, NEW n \in Node, Kind(n) = "variable", NEW r \in Node, r = resolved[n],
         Kind(r) \in VariableKinds, Name(r) = Name(n), BlockAround(r) \in Path(n),
         Kind(r) = "iterator_definition" => r \notin Path(n)
  PROVE  \/ /\ Intended(n) = r /\ Kind(r) \in {"formal", "variable_definition"}
            /\ \A l : Rebinds(l, n) => ~(l > Parent(r))
         \/ \E k \in Path(n) : /\ Rebinds(k, n) /\ Intended(n) = IteratorOf(k)
                               /\ \A l : Rebinds(l, n) => l <= k
<1>1. /\ Len(prog) \in Nat /\ Node = 1 .. Len(prog) /\ Path(n) \subseteq Node /\ n \in Path(n)
      /\ \A m \in Path(n) : m <= n
  BY ProgramFacts, PathFacts DEF Path
<1>2. r # 1 /\ Parent(r) \in Node
  BY ProgramFacts DEF VariableKinds
<1> DEFINE around == {l \in Path(n) : InBody(n, l) /\ Name(IteratorOf(l)) = Name(n) /\ l > Parent(r)}
<1>3. Intended(n) = IF around = {} THEN r ELSE IteratorOf(Below(around))
  BY DEF Intended
<1>4. \A l : l \in around <=> Rebinds(l, n) /\ l > Parent(r)
  BY DEF Rebinds
<1>5. around \in SUBSET (0 .. Len(prog))
  BY <1>1
<1>6. CASE around # {}
  <2>1. PICK k : k = Below(around) /\ k \in around /\ \A l \in around : l <= k
    <3> HIDE DEF around
    <3> QED BY <1>1, <1>5, <1>6, BelowPicks
  <2>2. k \in Path(n) /\ Rebinds(k, n) /\ k > Parent(r) /\ k \in Nat
    BY <1>1, <1>4, <1>5, <2>1
  <2>3. ASSUME NEW l, Rebinds(l, n) PROVE l <= k
    <3>1. l \in Nat
      BY <1>1, <2>3 DEF Rebinds
    <3>2. l > Parent(r) => l <= k
      BY <1>4, <2>1, <2>3
    <3> HIDE DEF around
    <3> QED BY <1>1, <1>2, <2>2, <3>1, <3>2
  <2> HIDE DEF around
  <2> QED BY <1>3, <1>6, <2>1, <2>2, <2>3
<1>7. CASE around = {} /\ Kind(r) # "iterator_definition"
  BY <1>3, <1>4, <1>7 DEF VariableKinds
<1>8. CASE around = {} /\ Kind(r) = "iterator_definition"
  <2>1. PICK k \in Node : k = Parent(r) /\ Kind(k) \in Loops /\ r = IteratorOf(k)
    BY <1>2, <1>8, IteratorShape
  <2>2. BlockAround(r) = k
    BY <1>2, <2>1, BlockOfParent DEF Openers, ScopedExpressions, Loops
  <2>3. k \in Path(n) /\ k # n
    BY <2>1, <2>2 DEF Loops
  <2>4. PICK y \in Path(n) : y \in Node \ {1} /\ Parent(y) = k
    BY <2>1, <2>3, ChildOnPath
  <2>5. PICK j \in 1 .. Len(Children(k)) : Child(k, j) = y
    BY <2>1, <2>4, TreeFacts
  <2>6. j \in {1, 2}
    <3>1. Len(Children(k)) = 2
      BY <2>1, LoopShape
    <3> QED BY <2>5, <3>1
  <2>7. y # r
    BY <1>8, <2>4
  <2>8. y = LoopBody(k)
    BY <2>1, <2>5, <2>6, <2>7 DEF IteratorOf, LoopBody
  <2>9. Rebinds(k, n) /\ Intended(n) = IteratorOf(k)
    BY <1>3, <1>8, <2>1, <2>3, <2>4, <2>8 DEF Rebinds, InBody
  <2>10. ASSUME NEW l, Rebinds(l, n) PROVE l <= k
    <3>1. l \in Nat
      BY <1>1, <2>10 DEF Rebinds
    <3>2. ~(l > k)
      BY <1>4, <1>8, <2>1, <2>10
    <3> QED BY <1>1, <2>1, <3>1, <3>2
  <2> QED BY <2>3, <2>9, <2>10
<1> HIDE DEF around
<1> QED BY <1>6, <1>7, <1>8

\* A formal a variable is resolved to is one of a function, and the only one it has of the name.
LEMMA FormalIsTheOnly ==
  ASSUME ResultInductive, ExternsAreLeaves, status = "accepted", NEW d \in Node, Kind(d) = "formal",
         d \in defs[BlockAround(d)]
  PROVE  /\ Kind(Parent(d)) \in Callables /\ BlockAround(d) = Parent(d) /\ CallableAround(d) = Parent(d)
         /\ \A e \in Node : Kind(e) = "formal" /\ Parent(e) = Parent(d) /\ Name(e) = Name(d) => e = d
<1>1. /\ prog \in Programs /\ WalkInductive /\ DeclaredInTime /\ TablesInv /\ ScopeUnique
      /\ pc[1] = "done" /\ 1 \in Node
  <2>1. /\ prog \in Programs /\ WalkInductive /\ DeclaredInTime /\ TablesInv /\ ScopeUnique /\ ProgressInv
    BY DEF ResultInductive, ResultsInv, LexicalInductive, WalkInductive, Inductive
  <2> QED BY <2>1, ProgramFacts DEF ProgressInv
<1>2. d # 1 /\ Parent(d) \in Node
  BY <1>1, ProgramFacts
<1>3. BlockAround(d) \in Node
  BY <1>1, <1>2, BlockFacts
<1>4. Kind(Parent(d)) \in Callables
  <2>1. Placement(prog, d)
    BY <1>1, ProgramsAssumption DEF WellFormed, Node
  <2>2. Kind(Parent(d)) \in Callables \cup {"extern_function"}
    BY <1>2, <2>1 DEF Placement, Kind, Parent
  <2>3. pc[d] # "idle"
    BY <1>1, <1>3 DEF DeclaredInTime, Active
  <2> QED BY <2>2, <2>3 DEF ExternsAreLeaves, Optional
<1>5. BlockAround(d) = Parent(d)
  BY <1>1, <1>2, <1>4, BlockOfParent DEF Openers
<1>6. CallableAround(d) = Parent(d)
  BY <1>1, <1>2, <1>4, CallableFacts DEF Callables
<1>7. ASSUME NEW e \in Node, Kind(e) = "formal", Parent(e) = Parent(d), Name(e) = Name(d)
      PROVE  e = d
  <2>1. e # 1
    BY <1>1, <1>7, ProgramFacts
  <2>2. BlockAround(e) = Parent(d)
    BY <1>1, <1>4, <1>7, <2>1, BlockOfParent DEF Openers
  <2>3. ~Optional(e)
    BY <1>4, <1>7 DEF Optional, Callables
  <2>4. 1 \in Path(e)
    BY <1>1, <1>7, ProgramFacts, ProgramsAssumption DEF Path, WellFormed
  <2>5. pc[e] = "done"
    BY <1>1, <2>3, <2>4, DoneBelow
  <2>6. e \in defs[Parent(d)]
    BY <1>1, <1>7, <2>2, <2>5 DEF TablesInv, Declared, Past, PastAt, DefinitionKinds, VariableKinds
  <2> QED BY <1>1, <1>2, <1>5, <1>7, <2>6 DEF ScopeUnique
<1> QED BY <1>4, <1>5, <1>6, <1>7

LEMMA VariableHere ==
  ASSUME WalkInv, value \in [Node -> Value], Generate, Kind(gcur) = "variable"
  PROVE  \/ value' = value
         \/ LET o == VariableOutcome(gcur) IN o.v # Dead /\ value' = [value EXCEPT ![gcur] = o.v]
<1>1. CASE EmitLeaf
  BY <1>1 DEF EmitLeaf, Finish, Give, Die, Emitting, Generating
<1>2. ~(EmitOperator \/ EmitList \/ EmitSet \/ EmitCall \/ EmitBody \/ EmitNothing \/ EmitRoot)
  BY DEF EmitOperator, EmitList, EmitSet, EmitCall, EmitBody, EmitNothing, EmitRoot, Emitting, Generating
<1>3. ~(EmitExtern \/ DeclareGlobal \/ OpenVariable \/ EmitVariable \/ OpenFunction \/ CloseFunction)
  BY DEF EmitExtern, DeclareGlobal, OpenVariable, EmitVariable, OpenFunction, CloseFunction, Generating, Callables
<1>4. ~(OpenIf \/ BeginThen \/ BeginElse \/ MergeBranches \/ OpenLoop \/ BeginIteration \/ CloseLoop)
  BY DEF OpenIf, BeginThen, BeginElse, MergeBranches, OpenLoop, BeginIteration, CloseLoop, Generating, Loops
<1>5. CASE VisitOperand
  BY <1>5 DEF VisitOperand, Visit
<1> QED BY <1>1, <1>2, <1>3, <1>4, <1>5 DEF Generate

\* What the walk finds under the name of the variable it is at.
LEMMA EntryPrecedes ==
  ASSUME prog \in Programs, WalkInv, StepsAbove, NEW n \in Node, n = gcur, Kind(n) = "variable",
         NEW v, v # NullValue, Held(v, Name(n), Binders)
  PROVE  /\ v.def \in Node /\ Mapped(v.def) /\ Name(v.def) = Name(n) /\ Precedes(v.def, n)
         /\ Kind(v.def) = "iterator_definition" => Rebinds(Parent(v.def), n) /\ v.def = IteratorOf(Parent(v.def))
<1>1. PICK e \in Node : e = v.def /\ Mapped(e) /\ Name(e) = Name(n)
  BY DEF Held
<1>2. /\ Len(prog) \in Nat /\ Node = 1 .. Len(prog) /\ Path(n) \subseteq Node /\ n \in Path(n)
      /\ \A m \in Path(n) : m <= n
  BY ProgramFacts, PathFacts DEF Path
<1>3. CASE Kind(e) = "formal"
  <2>1. e # 1 /\ Kind(Parent(e)) \in Callables /\ step[Parent(e)] # 0
    BY <1>1, <1>3, ProgramFacts DEF Held, FormalHeld, Mapped
  <2>2. step[n] = 0
    BY DEF WalkInv, StepsAreTaken, Visiting, Plain, Operators, Statements, Constructs, Callables, Loops
  <2>3. Precedes(e, n)
    BY <2>1, <2>2, StepsPrecede
  <2> QED BY <1>1, <1>3, <2>3
<1>4. CASE Kind(e) = "iterator_definition"
  <2>1. PICK k \in Node : k = Parent(e) /\ Kind(k) \in Loops /\ e = IteratorOf(k)
    BY <1>4, IteratorShape
  <2>2. k \in Binders /\ k # gcur
    BY <1>1, <1>4, <2>1 DEF Held, IteratorHeld, Loops
  <2>3. InBody(n, k) /\ k \in Path(n)
    <3>1. k \in BindersAbove(gcur)
      BY <2>2, BindersHere
    <3> QED BY <2>1, <3>1 DEF BindersAbove, Callables, Loops
  <2>4. Rebinds(k, n)
    BY <1>1, <2>1, <2>3 DEF Rebinds
  <2>5. CASE Kind(k) = "collect_loop"
    <3>1. IteratorOf(k) \in Path(e)
      BY <2>1, PathFacts
    <3> QED BY <1>1, <2>1, <2>3, <2>4, <2>5, <3>1 DEF Precedes
  <2>6. CASE Kind(k) = "do_loop"
    <3>1. e = Child(k, 1) /\ LoopBody(k) = Child(k, 2) /\ LoopBody(k) \in Path(n)
      BY <2>1, <2>3, <2>6 DEF IteratorOf, LoopBody, InBody
    <3>2. Len(Children(k)) = 2
      BY <2>1, LoopShape
    <3>3. 1 \in 1 .. Len(Children(k)) /\ 2 \in 1 .. Len(Children(k)) /\ 1 < 2
      BY <3>2
    <3>4. e < LoopBody(k)
      BY <3>1, <3>3, TreeFacts
    <3>5. PICK b \in Node : b = LoopBody(k) /\ b <= n
      BY <1>2, <3>1
    <3>6. e <= n
      BY <1>2, <3>4, <3>5
    <3> QED BY <1>1, <2>1, <2>4, <3>6 DEF Precedes
  <2> QED BY <2>1, <2>5, <2>6 DEF Loops
<1> QED BY <1>1, <1>3, <1>4 DEF Mapped

\* A variable that is named is what it means.
LEMMA EntryMeans ==
  ASSUME prog \in Programs, WalkInv, StepsAbove, NestedFunctions = {}, NEW n \in Node, n = gcur, Kind(n) = "variable",
         NEW v, v # NullValue, Held(v, Name(n), Binders),
         NEW d \in Node, d = Intended(n), Name(d) = Name(n),
         NEW f, f = CallableAround(n), f # 0, CallableAround(d) = f, ~Disturbed(n),
         \/ /\ Kind(d) \in {"formal", "variable_definition"}
            /\ \A l : Rebinds(l, n) => ~(l > Parent(d))
         \/ \E k \in Path(n) : Rebinds(k, n) /\ d = IteratorOf(k) /\ \A l : Rebinds(l, n) => l <= k,
         Kind(d) = "formal" => /\ Parent(d) = f
                               /\ \A e \in Node : Kind(e) = "formal" /\ Parent(e) = f /\ Name(e) = Name(d) => e = d
  PROVE  Meaning(v, f) = d
<1>1. PICK e \in Node : e = v.def /\ Mapped(e) /\ Name(e) = Name(n) /\ Precedes(e, n)
  BY EntryPrecedes
<1>2. /\ Kind(e) = "iterator_definition" => Rebinds(Parent(e), n) /\ e = IteratorOf(Parent(e))
      /\ Kind(e) = "formal" => v.fn = Parent(e) /\ FormalHeld(v, Name(n), Binders)
      /\ Kind(e) = "iterator_definition" => IteratorHeld(v, Name(n), Binders)
  BY <1>1, EntryPrecedes DEF Held, FormalHeld
<1>3. /\ Len(prog) \in Nat /\ Node = 1 .. Len(prog) /\ e # 0 /\ Path(n) \subseteq Node
  BY ProgramFacts, PathFacts
<1>4. Kind(e) \in {"formal", "iterator_definition"}
  BY <1>1 DEF Mapped
<1>5. ~(Kind(d) = "variable_definition")
  BY <1>1 DEF Disturbed
<1>6. CASE Kind(d) = "formal"
  <2>1. CASE Kind(e) = "formal"
    <3>1. CASE v.fn = f
      BY <1>1, <1>2, <1>6, <2>1, <3>1 DEF Meaning
    <3>2. CASE v.fn # f
      <4>1. {c \in Node : Kind(c) = "formal" /\ Kind(v.def) = "formal" /\ Parent(c) = f /\ Name(c) = Name(v.def)} = {d}
        BY <1>1, <1>6, <2>1
      <4>2. Meaning(v, f) = CHOOSE c \in {d} : TRUE
        BY <1>1, <1>3, <3>2, <4>1 DEF Meaning
      <4> QED BY <4>2
    <3> QED BY <3>1, <3>2
  <2>2. CASE Kind(e) = "iterator_definition"
    <3>1. PICK k \in Node : k = Parent(e) /\ Kind(k) \in Loops /\ Rebinds(k, n)
      BY <1>2, <2>2, IteratorShape
    <3>2. ~(k > f)
      <4>1. Kind(d) # "iterator_definition"
        BY <1>6
      <4>2. \A l \in Path(n) : Rebinds(l, n) => Kind(IteratorOf(l)) = "iterator_definition"
        BY <1>3, LoopShape DEF Rebinds, InBody
      <4> QED BY <1>6, <3>1, <4>1, <4>2
    <3>3. f \in Path(n) /\ Kind(f) \in Callables /\ f # n
      BY CallableFacts DEF Callables
    <3>4. f \in Binders
      BY <3>3, BindersHere DEF BindersAbove
    <3>5. Binds(f, Name(n))
      BY <1>6, <3>3 DEF Binds
    <3>6. f <= k
      BY <1>1, <1>2, <2>2, <3>1, <3>4, <3>5 DEF IteratorHeld
    <3>7. f \in Nat /\ k \in Nat /\ f # k
      BY <1>3, <3>1, <3>3 DEF Callables, Loops
    <3> QED BY <3>2, <3>6, <3>7
  <2> QED BY <1>4, <2>1, <2>2
<1>7. CASE Kind(d) # "formal"
  <2>1. PICK k \in Path(n) : Rebinds(k, n) /\ d = IteratorOf(k) /\ \A l : Rebinds(l, n) => l <= k
    BY <1>5, <1>7
  <2>2. k \in Node /\ Kind(k) \in Loops /\ k # n /\ Parent(d) = k /\ Kind(d) = "iterator_definition"
    <3>1. k \in Node /\ Kind(k) \in Loops
      BY <1>3, <2>1 DEF Rebinds, InBody
    <3> QED BY <2>1, <3>1, LoopShape DEF Loops
  <2>3. k \in Binders /\ Binds(k, Name(n))
    <3>1. k \in Binders
      BY <2>1, <2>2, BindersHere DEF BindersAbove, Rebinds
    <3> QED BY <2>1, <2>2, <3>1 DEF Binds, Rebinds
  <2>4. CASE Kind(e) = "formal"
    <3>1. LoopBody(k) \in Path(e)
      BY <1>1, <1>2, <2>2, <2>3, <2>4 DEF FormalHeld
    <3> QED BY <1>1, <2>2, <2>4, <3>1 DEF Disturbed
  <2>5. CASE Kind(e) = "iterator_definition"
    <3>1. PICK j \in Node : j = Parent(e) /\ e = IteratorOf(j) /\ Rebinds(j, n)
      BY <1>2, <2>5, IteratorShape
    <3>2. k <= j /\ j <= k
      BY <1>1, <1>2, <2>1, <2>3, <2>5, <3>1 DEF IteratorHeld
    <3>3. k = j
      BY <1>3, <2>2, <3>1, <3>2
    <3>4. e = d
      BY <2>1, <3>1, <3>3
    <3>5. v.fn = f
      BY <1>1, <1>2, <2>5, <3>4 DEF IteratorHeld
    <3> QED BY <1>1, <3>4, <3>5 DEF Meaning
  <2> QED BY <1>4, <2>4, <2>5
<1> QED BY <1>6, <1>7

\* A variable that is not named is loaded, in the function it stands in.
LEMMA LoadedMeans ==
  ASSUME prog \in Programs, WalkInv, BlocksAreTheirs, IteratorsAreNamed, InPlace, NestedFunctions = {},
         NEW n \in Node, n = gcur, Kind(n) = "variable", Name(n) \notin DOMAIN named,
         NEW v, v = Loaded(resolved[n]), v # NullValue, v # Dead,
         NEW f, f = CallableAround(n), f # 0,
         \/ Intended(n) = resolved[n]
         \/ \E k \in Path(n) : Rebinds(k, n)
  PROVE  Meaning(v, f) = Intended(n)
<1>1. ASSUME NEW k \in Path(n), Rebinds(k, n) PROVE FALSE
  <2>1. k \in Node /\ Kind(k) \in Loops
    BY <1>1, PathFacts DEF Rebinds, InBody
  <2>2. k \in BindersAbove(gcur)
    BY <1>1, <2>1 DEF BindersAbove, Rebinds, Loops
  <2>3. k \in Binders
    BY <2>2, BindersHere
  <2>4. Iterates(k)
    BY <2>1, <2>3 DEF Binders, Defines, Callables, Loops
  <2> QED BY <1>1, <2>1, <2>4 DEF IteratorsAreNamed, Rebinds
<1>2. blocks[ip].fn = f /\ ip # NoBlock
  <2>1. CallableIn = f
    BY DEF CallableIn, Callables
  <2>2. ip # NoBlock /\ CallableAround(ip[1]) = f /\ ip \in DOMAIN blocks
    BY <2>1 DEF InPlace, BlocksAreTheirs
  <2> QED BY <2>2 DEF InPlace
<1>3. v = Of(slot[resolved[n]], resolved[n])
  BY <1>2 DEF Loaded, AtBlock
<1>4. v.fn = f /\ v.def = resolved[n]
  BY <1>2, <1>3 DEF Of, CurrentFunction
<1> QED BY <1>1, <1>4 DEF Meaning

\* What the property says of a variable that has a value.
MeansItsDefinition(n, v) ==
  CallableAround(n) # 0 /\ CallableAround(Intended(n)) = CallableAround(n) /\ ~Disturbed(n)
    => Meaning(v, CallableAround(n)) = Intended(n)

\* The value the handler of a variable returns means what the program says.
LEMMA VariableMeans ==
  ASSUME GeneratorInductive, CallInv, NamesInv, status = "accepted", NestedFunctions = {},
         NEW n \in Node, n = gcur, Kind(n) = "variable",
         NEW v, v = VariableOutcome(n).v, v # NullValue, v # Dead
  PROVE  MeansItsDefinition(n, v)
<1> SUFFICES ASSUME NEW f, f = CallableAround(n), f # 0, CallableAround(Intended(n)) = f, ~Disturbed(n)
             PROVE  Meaning(v, f) = Intended(n)
  BY DEF MeansItsDefinition
<1>1. /\ prog \in Programs /\ WalkInv /\ BlocksAreTheirs /\ ResultInductive /\ LexicalResolution /\ ResolvedRight
      /\ resolved[n] \in Node /\ resolved[n] # 0
  <2>1. resolved[n] \in Node /\ prog \in Programs /\ WalkInv /\ BlocksAreTheirs
    BY WhatIsAccepted
  <2>2. 0 \notin Node
    BY <2>1, ProgramFacts
  <2> QED BY <2>1, <2>2 DEF GeneratorInductive, ResultInductive, ResultsInv, LexicalInductive
<1>2. PICK r \in Node : r = resolved[n]
  BY <1>1
<1>3. /\ Kind(r) \in VariableKinds /\ Name(r) = Name(n) /\ BlockAround(r) \in Path(n)
      /\ r \in defs[BlockAround(r)]
      /\ Kind(r) = "iterator_definition" => r \notin Path(n)
  BY <1>1, <1>2 DEF LexicalResolution, ResolvedRight, CallInv, ResolvedBehind
<1>4. \/ /\ Intended(n) = r /\ Kind(r) \in {"formal", "variable_definition"}
         /\ \A l : Rebinds(l, n) => ~(l > Parent(r))
      \/ \E k \in Path(n) : /\ Rebinds(k, n) /\ Intended(n) = IteratorOf(k)
                            /\ \A l : Rebinds(l, n) => l <= k
  BY <1>1, <1>2, <1>3, IntendedIs
<1>5. CASE Name(n) \in DOMAIN named
  <2>1. Held(v, Name(n), Binders)
    BY <1>5 DEF VariableOutcome, Outcome, NamesInv, NamesAreHeld
  <2>2. ASSUME NEW k \in Path(n), Rebinds(k, n)
        PROVE  IteratorOf(k) \in Node /\ Kind(IteratorOf(k)) = "iterator_definition"
    <3>1. k \in Node /\ Kind(k) \in Loops
      BY <1>1, <2>2, PathFacts DEF Rebinds, InBody
    <3> QED BY <1>1, <3>1, LoopShape
  <2>3. PICK d \in Node : d = Intended(n)
    BY <1>4, <2>2
  <2>4. Name(d) = Name(n)
    BY <1>3, <1>4, <2>3 DEF Rebinds
  <2>5. \/ /\ Kind(d) \in {"formal", "variable_definition"}
           /\ \A l : Rebinds(l, n) => ~(l > Parent(d))
        \/ \E k \in Path(n) : Rebinds(k, n) /\ d = IteratorOf(k) /\ \A l : Rebinds(l, n) => l <= k
    BY <1>4, <2>3
  <2>6. Kind(d) = "formal" => d = r
    BY <1>4, <2>2, <2>3
  <2>7. Kind(d) = "formal" => /\ Parent(d) = f
                              /\ \A e \in Node : Kind(e) = "formal" /\ Parent(e) = f /\ Name(e) = Name(d) => e = d
    <3>1. ASSUME Kind(d) = "formal" PROVE d \in defs[BlockAround(d)]
      BY <1>3, <2>6, <3>1
    <3>2. ExternsAreLeaves
      BY DEF NamesInv
    <3> QED BY <1>1, <2>3, <3>1, <3>2, FormalIsTheOnly
  <2>8. StepsAbove
    BY DEF NamesInv
  <2>9. CallableAround(d) = f
    BY <2>3
  <2> QED BY <1>1, <2>1, <2>3, <2>4, <2>5, <2>7, <2>8, <2>9, EntryMeans
<1>6. CASE Name(n) \notin DOMAIN named
  <2>1. v = Loaded(resolved[n])
    BY <1>6 DEF VariableOutcome, Outcome
  <2>2. IteratorsAreNamed /\ InPlace
    BY DEF NamesInv
  <2>3. Intended(n) = resolved[n] \/ \E k \in Path(n) : Rebinds(k, n)
    BY <1>2, <1>4
  <2> QED BY <1>1, <1>6, <2>1, <2>2, <2>3, LoadedMeans
<1> QED BY <1>5, <1>6

\* What a program says stays the same.
LEMMA SameMeaning ==
  ASSUME prog' = prog, resolved' = resolved
  PROVE  /\ Node' = Node /\ NullValue' = NullValue /\ NestedFunctions' = NestedFunctions
         /\ \A n : /\ Kind(n)' = Kind(n) /\ CallableAround(n)' = CallableAround(n)
                   /\ Intended(n)' = Intended(n)
                   /\ CallableAround(Intended(n))' = CallableAround(Intended(n)) /\ Disturbed(n)' <=> Disturbed(n)
<1>1. /\ Node' = Node /\ NullValue' = NullValue /\ NestedFunctions' = NestedFunctions
      /\ \A n : Kind(n)' = Kind(n) /\ CallableAround(n)' = CallableAround(n)
  BY SameTree, SameOperands, SameNames DEF NullValue, Failed
<1>2. \A n : Intended(n)' = Intended(n)
  BY DEF Intended, InBody, LoopBody, IteratorOf, Loops, Child, Kind, Parent, Name, Path, Below
<1>3. \A n : CallableAround(Intended(n))' = CallableAround(Intended(n))
  BY DEF CallableAround, Intended, InBody, LoopBody, IteratorOf, Loops, Child, Kind, Parent, Name, Path, Below
<1>4. \A n : Disturbed(n)' <=> Disturbed(n)
  BY DEF Disturbed, Precedes, Mapped, Node, Intended, InBody, LoopBody, IteratorOf, Loops, Child, Kind, Parent, Name,
         Path, Below
<1> QED BY <1>1, <1>2, <1>3, <1>4

LEMMA ReferencesMeanAfter ==
  ASSUME GeneratorInductive, ValuesInv, CallInv, NamesInv, ReferencesMeanTheirDefinition,
         status = "accepted", Generate, UNCHANGED vars
  PROVE  ReferencesMeanTheirDefinition'
<1>1. /\ prog \in Programs /\ WalkInv /\ gcur \in Node /\ prog' = prog /\ resolved' = resolved
      /\ value \in [Node -> Value]
  BY WhatIsAccepted DEF vars, WalkInv, ValuesInv
<1>2. \A n \in Node : n # gcur => value'[n] = value[n]
  BY <1>1, ValuesHere
<1>3. ASSUME NEW n \in Node, Kind(n) = "variable", value'[n] # NullValue, NestedFunctions = {}
      PROVE  MeansItsDefinition(n, value'[n])
  <2>1. CASE value'[n] = value[n]
    BY <1>3, <2>1 DEF ReferencesMeanTheirDefinition, MeansItsDefinition
  <2>2. CASE n = gcur /\ value' # value
    <3>1. PICK o : o = VariableOutcome(n) /\ o.v # Dead /\ value' = [value EXCEPT ![gcur] = o.v]
      BY <1>1, <1>3, <2>2, VariableHere
    <3>2. PICK v : v = VariableOutcome(n).v /\ v = value'[n] /\ v # Dead
      BY <1>1, <2>2, <3>1
    <3> QED BY <1>3, <2>2, <3>2, VariableMeans
  <2> QED BY <1>2, <2>1, <2>2
<1>4. \A n \in Node : Meaning(value[n], CallableAround(n))' = Meaning(value'[n], CallableAround(n))
  BY <1>1 DEF Meaning, CallableAround, Node, Kind, Parent, Name, Path, Below
<1> QED BY <1>1, <1>3, <1>4, SameMeaning DEF ReferencesMeanTheirDefinition, MeansItsDefinition

\* The analyzer leaves what names stand for alone.
LEMMA NamesUntouched ==
  ASSUME NamesInv, prog' = prog, UNCHANGED gvars
  PROVE  /\ NamesAreHeld' /\ KeptAreHeld' /\ IteratorsAreNamed' /\ InPlace' /\ StepsAbove'
<1>1. /\ step' = step /\ gcur' = gcur /\ named' = named /\ keptValue' = keptValue
      /\ blocks' = blocks /\ ip' = ip /\ keptBlock' = keptBlock
  BY DEF gvars, lookups, code, kept
<1>2. /\ Node' = Node /\ NestedFunctions' = NestedFunctions /\ NullValue' = NullValue /\ NoBlock' = NoBlock
      /\ \A n : /\ Kind(n)' = Kind(n) /\ Parent(n)' = Parent(n) /\ Path(n)' = Path(n) /\ Name(n)' = Name(n)
                /\ Handler(n)' = Handler(n) /\ LoopBody(n)' = LoopBody(n) /\ Mapped(n)' = Mapped(n)
                /\ Name(IteratorOf(n))' = Name(IteratorOf(n)) /\ CallableAround(n)' = CallableAround(n)
                /\ BindersAbove(n)' = BindersAbove(n)
      /\ \A k, x : Binds(k, x)' = Binds(k, x)
  BY SameTree, SameOperands, SameNames DEF Name, IteratorOf, Kind, Child, NullValue, Failed, NoBlock
<1>3. Binders' = Binders
  BY <1>1, <1>2 DEF Binders, Defines, Iterates, Path
<1>4. ASSUME NEW v, NEW x, NEW B, Held(v, x, B) PROVE Held(v, x, B)'
  BY <1>1, <1>2, <1>4, SameTree, SameNames DEF Held, FormalHeld, IteratorHeld
<1>5. NamesAreHeld'
  <2>1. PICK N : N = named /\ N = named'
    BY <1>1
  <2>2. PICK B : B = Binders /\ B = Binders'
    BY <1>3
  <2>3. \A x \in DOMAIN N : Held(N[x], x, B)'
    BY <1>4, <2>1, <2>2 DEF NamesInv, NamesAreHeld
  <2> QED BY <2>1, <2>2, <2>3, HeldAfter
<1>6. KeptAreHeld'
  <2>1. PICK V : V = keptValue /\ V = keptValue'
    BY <1>1
  <2>2. \A l \in Node : Kind(l) \in Loops /\ step'[l] # 0 => Held(V[l], Name(IteratorOf(l)), BindersAbove(l))'
    <3> SUFFICES ASSUME NEW l \in Node, Kind(l) \in Loops, step'[l] # 0
                 PROVE  Held(V[l], Name(IteratorOf(l)), BindersAbove(l))'
      OBVIOUS
    <3>1. PICK x : x = Name(IteratorOf(l)) /\ x = Name(IteratorOf(l))'
      BY <1>2
    <3>2. PICK B : B = BindersAbove(l) /\ B = BindersAbove(l)'
      BY <1>2
    <3>3. Held(V[l], x, B)
      BY <1>1, <2>1, <3>1, <3>2 DEF NamesInv, KeptAreHeld
    <3>4. Held(V[l], x, B)'
      BY <1>4, <3>3
    <3> QED BY <3>1, <3>2, <3>4 DEF Held, FormalHeld, IteratorHeld
  <2> QED BY <2>1, <2>2, KeptHeldAfter
<1>7. IteratorsAreNamed'
  BY <1>1, <1>2 DEF NamesInv, IteratorsAreNamed, Iterates
<1>8. InPlace'
  <2>1. CallableIn' = CallableIn
    BY <1>1 DEF CallableIn, CallableAround, Handler, Kind, Parent, Path, Below
  <2>2. /\ CallableAround(ip[1])' = CallableAround(ip[1])
        /\ \A g : /\ CallableAround(keptBlock[g][1])' = CallableAround(keptBlock[g][1])
                  /\ CallableAround(Handler(g))' = CallableAround(Handler(g))
                  /\ CallableAround(g[1])' = CallableAround(g[1])
    BY <1>1 DEF CallableAround, Below, Path, Kind, Handler, Parent
  <2> QED BY <1>1, <1>2, <2>1, <2>2 DEF NamesInv, InPlace
<1>9. StepsAbove'
  BY <1>1, <1>2 DEF NamesInv, StepsAbove
<1> QED BY <1>5, <1>6, <1>7, <1>8, <1>9

MeaningInv == NamesInv /\ ReferencesMeanTheirDefinition

LEMMA MeaningPreserved ==
  ASSUME GeneratorInductive, ValuesInv, CallInv, MeaningInv, [CompilerNext]_<<vars, gvars>>
  PROVE  MeaningInv'
<1>1. prog' = prog /\ prog \in Programs /\ WalkInv /\ BlocksAreTheirs /\ KeptAreTheirs /\ LoopsAreSteered
  BY PhiPreserved DEF GeneratorInductive, PhiInductive
<1>2. ExternsAreLeaves'
  <2>1. ResultInductive /\ ExternsAreLeaves /\ [Next]_vars
    BY DEF GeneratorInductive, MeaningInv, NamesInv, CompilerNext
  <2> QED BY <2>1, ExternsStayLeaves
<1>3. CASE UNCHANGED <<vars, gvars>>
  <2>1. NamesInv'
    BY <1>1, <1>2, <1>3, NamesUntouched DEF MeaningInv, NamesInv
  <2>2. ReferencesMeanTheirDefinition'
    <3>1. value' = value /\ resolved' = resolved
      BY <1>3 DEF vars, gvars
    <3>2. \A n \in Node : Meaning(value[n], CallableAround(n))' = Meaning(value[n], CallableAround(n))
      BY <1>1, <3>1 DEF Meaning, CallableAround, Node, Kind, Parent, Name, Path, Below
    <3> QED BY <1>1, <3>1, <3>2, SameMeaning DEF MeaningInv, ReferencesMeanTheirDefinition
  <2> QED BY <2>1, <2>2 DEF MeaningInv
<1>4. CASE Next /\ UNCHANGED gvars
  <2>1. NamesInv'
    BY <1>1, <1>2, <1>4, NamesUntouched DEF MeaningInv, NamesInv
  <2>2. status = "running"
    BY <1>4 DEF Next, VisitUnscoped, VisitFunctionBody, VisitScopedExpression, VisitLambda, RejectDefinition,
       VisitFormalOrExtern, VisitFunctionDefinition, VisitVariableDefinition, VisitLiteral, VisitChild, SkipVisitedChild,
       LeaveOperator, LeaveIf, LeaveCallable, LeaveLoop, LeaveVariableDefinition, LeaveUntyped, LeaveIterator,
       ResolveVariable, VisitFunctionCall, RejectArgument, VisitArgument, VisitOtherBranch, LeaveFunctionCall,
       Entering, Leaving, Running, MoreChildren, Passing, ArgumentsPassed
  <2>3. value' = [n \in Node |-> NullValue]
    BY <1>4, <2>2 DEF CallInv, NotBegun, gvars
  <2>4. Node' = Node /\ NullValue' = NullValue
    BY <1>1, SameTree DEF NullValue, Failed
  <2>5. ReferencesMeanTheirDefinition'
    BY <2>3, <2>4 DEF ReferencesMeanTheirDefinition
  <2> QED BY <2>1, <2>5 DEF MeaningInv
<1>5. CASE status = "accepted" /\ Generate /\ UNCHANGED vars
  <2>1. Moves /\ NameMoves
    BY <1>1, <1>5, GenerateMoves, GenerateNames
  <2>2. NamesAreHeld' /\ KeptAreHeld'
    BY <1>1, <2>1, NamesAfter DEF MeaningInv, NamesInv, ValuesInv
  <2>3. IteratorsAreNamed'
    BY <1>1, <2>1, IteratorsStayNamed DEF MeaningInv, NamesInv
  <2>4. InPlace' /\ StepsAbove'
    BY <1>1, <2>1, PlacesStay, AboveStays DEF MeaningInv, NamesInv, Moves
  <2>5. ReferencesMeanTheirDefinition'
    BY <1>5, ReferencesMeanAfter DEF MeaningInv
  <2> QED BY <1>2, <2>2, <2>3, <2>4, <2>5 DEF MeaningInv, NamesInv
<1> QED BY <1>3, <1>4, <1>5 DEF CompilerNext

LEMMA MeaningInitially == CompilerInit => MeaningInv
<1> SUFFICES ASSUME CompilerInit PROVE MeaningInv
  OBVIOUS
<1>1. /\ prog \in Programs /\ gcur = 1 /\ step = [n \in Node |-> 0] /\ value = [n \in Node |-> NullValue]
      /\ named = <<>> /\ ip = NoBlock /\ blocks = <<>> /\ Init
  BY DEF CompilerInit, Init
<1>2. DOMAIN named = {} /\ DOMAIN blocks = {} /\ \A n \in Node : step[n] = 0
  BY <1>1
<1>3. 1 \in Node /\ Kind(1) = "root" /\ Path(1) \subseteq Node
  BY <1>1, ProgramFacts, PathFacts
<1>4. NamesAreHeld /\ KeptAreHeld /\ IteratorsAreNamed /\ StepsAbove
  BY <1>2 DEF NamesAreHeld, KeptAreHeld, IteratorsAreNamed, Iterates, StepsAbove
<1>5. InPlace
  <2>1. CallableIn = 0
    BY <1>1, <1>3, CallableFacts DEF CallableIn, Callables
  <2> QED BY <1>2, <2>1 DEF InPlace
<1>6. ExternsAreLeaves
  BY <1>1, <1>3 DEF ExternsAreLeaves, Init, Optional
<1>7. ReferencesMeanTheirDefinition
  BY <1>1 DEF ReferencesMeanTheirDefinition
<1> QED BY <1>4, <1>5, <1>6, <1>7 DEF MeaningInv, NamesInv

\* In every program without functions in functions, a variable the generator has made code
\* for is what the analyzer resolved it to, or the iterator of a loop further in: although
\* named_values_ is one table for every function and loop, is never restored after a
\* function, and comes before the allocas of scopes, where no other entry has come first.
THEOREM VariablesMeanTheirDefinition == CompilerSpec => []ReferencesMeanTheirDefinition
<1>1. CompilerInit => ValuesInv
  BY InstructionsAreTyped DEF CompilerInit, Init, ValuesInv, SymbolsInv, Value, LowTypes, Pointers
<1>2. ValuesInv /\ GeneratorInductive /\ [CompilerNext]_<<vars, gvars>> => ValuesInv'
  BY ValuesPreserved
<1>3. CallInv /\ ValuesInv /\ GeneratorInductive /\ [CompilerNext]_<<vars, gvars>> => CallInv'
  BY CallsPreserved
<1>4. MeaningInv /\ CallInv /\ ValuesInv /\ GeneratorInductive /\ [CompilerNext]_<<vars, gvars>> => MeaningInv'
  BY MeaningPreserved
<1>5. MeaningInv => ReferencesMeanTheirDefinition
  BY DEF MeaningInv
<1> QED BY <1>1, <1>2, <1>3, <1>4, <1>5, CallsInitially, MeaningInitially, GeneratorIsInductive, PTL DEF CompilerSpec

=============================================================================
