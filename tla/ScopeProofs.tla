----------------------------- MODULE ScopeProofs -----------------------------
(***************************************************************************)
(* Proofs about the scopes of the semantic analyzer, for every set of      *)
(* well-formed programs: the parent pointers of scopes lead outwards only, *)
(* and a name means the closest definition around it.                      *)
(*                                                                         *)
(* For the second, the tables are compared with the tree: the scope a node *)
(* works in is that of the block around it, chains have no gaps, what is   *)
(* declared is in the table of its block, and what the program states      *)
(* before a node has been declared by the time the walk comes to the node. *)
(***************************************************************************)
EXTENDS SemanticsProofs

-----------------------------------------------------------------------------
(* The scopes a handler passes on                                          *)

ScopeInductive == Inductive /\ ScopesLeadOutwards

\* The scope a handler finds at its parent or further up belongs to a node above
\* its own, and that node has opened it.
LEMMA OuterScope ==
  ASSUME ScopeInductive, NEW n \in Node, n # 1,
         NEW o \in {scopeOf[Parent(n)], ScopeAround(n), HomeScope(n)}, o # 0
  PROVE  o \in Node /\ o \in Path(n) /\ o \in chain[o]
<1>1. /\ prog \in Programs /\ TypeOK /\ scopeOf[1] = 1 /\ ScopesLeadOutwards
  BY DEF ScopeInductive, Inductive, Bookkeeping
<1>2. /\ Len(prog) \in Nat /\ Node = 1 .. Len(prog) /\ 1 \in Node /\ Parent(n) \in Node
      /\ Path(Parent(n)) \subseteq Path(n)
  BY <1>1, ProgramFacts, PathFacts
<1>3. ASSUME NEW a \in Path(Parent(n)), scopeOf[a] # 0
      PROVE  scopeOf[a] \in Node /\ scopeOf[a] \in Path(n) /\ scopeOf[a] \in chain[scopeOf[a]]
  <2>1. a \in Node /\ Path(a) \subseteq Path(n)
    BY <1>1, <1>2, PathFacts
  <2> QED BY <1>1, <1>3, <2>1, PathFacts DEF ScopesLeadOutwards
<1>4. Parent(n) \in Path(Parent(n))
  BY <1>1, <1>2, PathFacts
<1>5. \E a \in Path(Parent(n)) : scopeOf[a] # 0 /\ ScopeAround(n) = scopeOf[a]
  <2> DEFINE S == {a \in Path(Parent(n)) : scopeOf[a] # 0}
  <2>1. S \in SUBSET (0 .. Len(prog))
    <3>1. Path(Parent(n)) \subseteq Node
      BY <1>1, <1>2, PathFacts
    <3> QED BY <1>2, <3>1
  <2>2. 1 \in S
    <3>1. prog[1].last = Len(prog)
      BY <1>1, ProgramsAssumption DEF WellFormed
    <3> QED BY <1>1, <1>2, <3>1 DEF Path
  <2>3. Below(S) \in S
    <3> HIDE DEF S
    <3> QED BY <1>2, <2>1, <2>2, BelowPicks
  <2> QED BY <2>3 DEF ScopeAround
<1> QED BY <1>3, <1>4, <1>5 DEF HomeScope

-----------------------------------------------------------------------------
(* What a step may do to the scopes                                        *)

LEMMA OutwardsAfter ==
  ASSUME ScopeInductive, prog' = prog,
         \A s \in Node : /\ chain'[s] \subseteq Path(s)
                         /\ scopeOf'[s] # 0 => /\ scopeOf'[s] \in Path(s)
                                               /\ scopeOf'[s] \in chain'[scopeOf'[s]]
  PROVE  ScopesLeadOutwards'
<1>1. Node' = Node /\ \A s : Path(s)' = Path(s)
  BY DEF Node, Path
<1> QED BY <1>1 DEF ScopesLeadOutwards

\* A step that leaves the scopes alone.
LEMMA KeepScopes ==
  ASSUME ScopeInductive, UNCHANGED <<prog, scopeOf, chain>>
  PROVE  ScopesLeadOutwards'
BY OutwardsAfter DEF ScopeInductive, ScopesLeadOutwards

\* A node shares a scope it has found further up.
LEMMA ShareScope ==
  ASSUME ScopeInductive, cur \in Node, cur # 1,
         NEW o \in {scopeOf[Parent(cur)], ScopeAround(cur), HomeScope(cur)},
         scopeOf' = [scopeOf EXCEPT ![cur] = o], UNCHANGED <<prog, chain>>
  PROVE  ScopesLeadOutwards'
<1>1. scopeOf \in [Node -> MaybeNode] /\ ScopesLeadOutwards
  BY DEF ScopeInductive, Inductive, TypeOK
<1>2. o # 0 => o \in Path(cur) /\ o \in chain[o]
  BY OuterScope
<1>3. \A s \in Node : scopeOf'[s] = IF s = cur THEN o ELSE scopeOf[s]
  BY <1>1
<1> QED BY <1>1, <1>2, <1>3, OutwardsAfter DEF ScopesLeadOutwards

\* A node opens a scope under one it has found further up, or under none.
LEMMA OpenScopeOutwards ==
  ASSUME ScopeInductive, cur \in Node, cur # 1,
         NEW o \in {scopeOf[Parent(cur)], ScopeAround(cur), HomeScope(cur)},
         OpenScope(cur, o), prog' = prog
  PROVE  ScopesLeadOutwards'
<1>1. /\ scopeOf \in [Node -> MaybeNode] /\ chain \in [Node -> SUBSET Node]
      /\ ScopesLeadOutwards /\ prog \in Programs
  BY DEF ScopeInductive, Inductive, TypeOK
<1>2. o # 0 => chain[o] \subseteq Path(cur)
  <2>1. o # 0 => o \in Node /\ o \in Path(cur)
    BY OuterScope
  <2> QED BY <1>1, <2>1, PathFacts DEF ScopesLeadOutwards
<1> DEFINE outer == IF o = 0 THEN {} ELSE chain[o]
<1>3. /\ scopeOf' = [scopeOf EXCEPT ![cur] = cur]
      /\ chain' = [chain EXCEPT ![cur] = {cur} \cup outer] /\ outer \subseteq Path(cur)
  BY <1>2 DEF OpenScope
<1> HIDE DEF outer
<1>4. \A s \in Node : /\ scopeOf'[s] = IF s = cur THEN cur ELSE scopeOf[s]
                      /\ chain'[s] = IF s = cur THEN {cur} \cup outer ELSE chain[s]
  BY <1>1, <1>3
<1>5. cur \in Path(cur)
  BY <1>1, PathFacts
<1>6. ASSUME NEW s \in Node
      PROVE  chain'[s] \subseteq Path(s)
  BY <1>1, <1>3, <1>4, <1>5 DEF ScopesLeadOutwards
<1>7. ASSUME NEW s \in Node, scopeOf'[s] # 0
      PROVE  scopeOf'[s] \in Path(s) /\ scopeOf'[s] \in chain'[scopeOf'[s]]
  <2>1. CASE s = cur
    BY <1>4, <1>5, <2>1
  <2>2. CASE s # cur
    <3>1. scopeOf[s] \in Node /\ scopeOf[s] \in Path(s) /\ scopeOf[s] \in chain[scopeOf[s]]
      BY <1>1, <1>4, <1>7, <2>2 DEF ScopesLeadOutwards, MaybeNode
    <3> QED BY <1>4, <2>2, <3>1
  <2> QED BY <2>1, <2>2
<1> QED BY <1>6, <1>7, OutwardsAfter

LEMMA ReturnsAndStops ==
  ASSUME NEW r, Conclude(r)
  PROVE  UNCHANGED <<prog, scopeOf, chain>>
BY DEF Conclude, Stop, tables

LEMMA OutwardsPreserved == ScopeInductive /\ [Next]_vars => ScopesLeadOutwards'
<1> SUFFICES ASSUME ScopeInductive, [Next]_vars PROVE ScopesLeadOutwards'
  OBVIOUS
<1>1. prog \in Programs
  BY DEF ScopeInductive, Inductive
<1>2. CASE VisitFunctionBody
  <2>1. /\ cur \in Node /\ Kind(cur) # "root"
        /\ scopeOf' = [scopeOf EXCEPT ![cur] = scopeOf[Parent(cur)]] /\ UNCHANGED <<prog, chain>>
    BY <1>2 DEF VisitFunctionBody, Entering, Running, BeginChildren
  <2> QED BY <1>1, <2>1, NotTheRoot, ShareScope
<1>3. CASE VisitScopedExpression
  <2>1. /\ cur \in Node /\ Kind(cur) # "root" /\ prog' = prog
        /\ OpenScope(cur, scopeOf[Parent(cur)])
    BY <1>3 DEF VisitScopedExpression, ScopedExpressions, Entering, Running, BeginChildren
  <2> QED BY <1>1, <2>1, NotTheRoot, OpenScopeOutwards
<1>4. CASE VisitLambda
  <2>1. cur \in Node /\ Kind(cur) # "root" /\ prog' = prog /\ OpenScope(cur, ScopeAround(cur))
    BY <1>4 DEF VisitLambda, Entering, Running, BeginChildren
  <2> QED BY <1>1, <2>1, NotTheRoot, OpenScopeOutwards
<1>5. CASE VisitFunctionDefinition
  <2>1. cur \in Node /\ Kind(cur) # "root" /\ prog' = prog /\ OpenScope(cur, HomeScope(cur))
    BY <1>5 DEF VisitFunctionDefinition, Entering, Running, BeginChildren
  <2> QED BY <1>1, <2>1, NotTheRoot, OpenScopeOutwards
<1>6. CASE VisitVariableDefinition
  <2>1. /\ cur \in Node /\ Kind(cur) # "root"
        /\ scopeOf' = [scopeOf EXCEPT ![cur] = HomeScope(cur)] /\ UNCHANGED <<prog, chain>>
    BY <1>6 DEF VisitVariableDefinition, Entering, Running, BeginChildren
  <2> QED BY <1>1, <2>1, NotTheRoot, ShareScope
<1>7. CASE LeaveIterator
  <2>1. cur \in Node /\ Kind(cur) # "root"
    BY <1>7 DEF LeaveIterator, Leaving, Running
  <2>2. \/ UNCHANGED <<prog, scopeOf, chain>>
        \/ scopeOf' = [scopeOf EXCEPT ![cur] = HomeScope(cur)] /\ UNCHANGED <<prog, chain>>
    BY <1>7 DEF LeaveIterator, Stop, tables
  <2> QED BY <1>1, <2>1, <2>2, NotTheRoot, ShareScope, KeepScopes
<1>8. CASE \/ LeaveOperator \/ LeaveIf \/ LeaveCallable \/ LeaveLoop
           \/ LeaveVariableDefinition \/ LeaveUntyped \/ LeaveFunctionCall
  <2>1. \E r : Conclude(r)
    BY <1>8 DEF LeaveOperator, LeaveIf, LeaveCallable, LeaveLoop, LeaveVariableDefinition,
                LeaveUntyped, LeaveFunctionCall
  <2> QED BY <2>1, ReturnsAndStops, KeepScopes
<1>9. CASE \/ VisitUnscoped \/ RejectDefinition \/ VisitFormalOrExtern \/ VisitLiteral
           \/ VisitChild \/ SkipVisitedChild \/ ResolveVariable \/ VisitFunctionCall
           \/ RejectArgument \/ VisitArgument \/ VisitOtherBranch
  <2>1. VisitUnscoped => UNCHANGED <<prog, scopeOf, chain>>
    BY DEF VisitUnscoped, BeginChildren, tables
  <2>2. RejectDefinition \/ RejectArgument => UNCHANGED <<prog, scopeOf, chain>>
    BY DEF RejectDefinition, RejectArgument, Stop, tables
  <2>3. VisitFormalOrExtern \/ VisitLiteral => UNCHANGED <<prog, scopeOf, chain>>
    BY DEF VisitFormalOrExtern, VisitLiteral, tables
  <2>4. VisitChild \/ SkipVisitedChild => UNCHANGED <<prog, scopeOf, chain>>
    BY DEF VisitChild, SkipVisitedChild, tables
  <2>5. ResolveVariable \/ VisitFunctionCall => UNCHANGED <<prog, scopeOf, chain>>
    BY DEF ResolveVariable, VisitFunctionCall, Stop, tables
  <2>6. VisitArgument \/ VisitOtherBranch => UNCHANGED <<prog, scopeOf, chain>>
    BY DEF VisitArgument, VisitOtherBranch, tables
  <2> QED BY <1>9, <2>1, <2>2, <2>3, <2>4, <2>5, <2>6, KeepScopes
<1>10. CASE UNCHANGED vars
  BY <1>10, KeepScopes DEF vars
<1> QED BY <1>2, <1>3, <1>4, <1>5, <1>6, <1>7, <1>8, <1>9, <1>10 DEF Next

LEMMA OutwardsInitially == Init => ScopesLeadOutwards
<1> SUFFICES ASSUME Init PROVE ScopesLeadOutwards
  OBVIOUS
<1>1. prog \in Programs
  BY DEF Init
<1>2. 1 \in Node /\ 1 \in Path(1)
  BY <1>1, ProgramFacts, PathFacts
<1> QED BY <1>2 DEF Init, ScopesLeadOutwards

\* For every program the parent pointers of scopes lead to scopes of nodes further
\* up, also where a scope is opened under none: the search for a name and the crawl
\* to the first scope move outwards, hence end.
THEOREM ScopesLeadOut == Spec => []ScopesLeadOutwards
<1>1. Init => ScopeInductive
  BY Initially, OutwardsInitially DEF ScopeInductive
<1>2. ScopeInductive /\ [Next]_vars => ScopeInductive'
  BY Preserved, OutwardsPreserved DEF ScopeInductive
<1>3. ScopeInductive => ScopesLeadOutwards
  BY DEF ScopeInductive
<1> QED BY <1>1, <1>2, <1>3, PTL DEF Spec

-----------------------------------------------------------------------------
(* Blocks                                                                  *)

\* Of two nodes above a third, one is above the other.
LEMMA PathLinear ==
  ASSUME prog \in Programs, NEW n \in Node, NEW a \in Path(n), NEW b \in Path(n), a <= b
  PROVE  a \in Path(b)
<1>1. /\ Len(prog) \in Nat /\ Node = 1 .. Len(prog)
      /\ \A m \in Node : prog[m].last \in m .. Len(prog)
  BY TreeOrder
<1> QED BY <1>1 DEF Path

\* The block of a node is the closest opener above it.
LEMMA BlockFacts ==
  ASSUME prog \in Programs, NEW n \in Node, n # 1
  PROVE  /\ BlockAround(n) \in Node /\ BlockAround(n) # n /\ Kind(BlockAround(n)) \in Openers
         /\ BlockAround(n) \in Path(Parent(n)) /\ BlockAround(n) \in Path(n)
         /\ \A b \in Path(n) : b # n /\ Kind(b) \in Openers => b <= BlockAround(n)
<1> DEFINE S == {a \in Path(Parent(n)) : Kind(a) \in Openers}
<1>1. /\ Len(prog) \in Nat /\ Node = 1 .. Len(prog) /\ 1 \in Node /\ Kind(1) = "root"
      /\ Parent(n) \in 1 .. (n - 1) /\ Parent(n) \in Node /\ prog[1].last = Len(prog)
  BY ProgramFacts, TreeOrder, ProgramsAssumption DEF WellFormed
<1>2. /\ Path(Parent(n)) \subseteq Node /\ Path(Parent(n)) \subseteq Path(n)
      /\ \A a \in Path(Parent(n)) : a <= Parent(n)
  BY <1>1, PathFacts DEF Path
<1>3. S \in SUBSET (0 .. Len(prog))
  BY <1>1, <1>2
<1>4. 1 \in S
  BY <1>1 DEF Path, Openers
<1>5. Below(S) \in S /\ \A y \in S : y <= Below(S)
  <2> HIDE DEF S
  <2> QED BY <1>1, <1>3, <1>4, BelowPicks
<1>6. BlockAround(n) = Below(S)
  BY DEF BlockAround
<1>7. \A b \in Path(n) : b # n => b \in Path(Parent(n))
  BY ParentOnPath
<1>8. /\ BlockAround(n) \in Path(Parent(n)) /\ Kind(BlockAround(n)) \in Openers
      /\ \A y \in Path(Parent(n)) : Kind(y) \in Openers => y <= BlockAround(n)
  BY <1>5, <1>6
<1> HIDE DEF S
<1>9. BlockAround(n) \in Node /\ BlockAround(n) # n /\ BlockAround(n) \in Path(n)
  BY <1>1, <1>2, <1>8
<1> QED BY <1>7, <1>8, <1>9

\* A parent that opens a scope is the block, any other is in the same one.
LEMMA BlockOfParent ==
  ASSUME prog \in Programs, NEW n \in Node, n # 1
  PROVE  BlockAround(n) = IF Kind(Parent(n)) \in Openers THEN Parent(n) ELSE BlockAround(Parent(n))
<1> DEFINE p == Parent(n)
<1>1. /\ Len(prog) \in Nat /\ Node = 1 .. Len(prog) /\ Kind(1) = "root"
      /\ p \in 1 .. (n - 1) /\ p \in Node
  BY ProgramFacts, TreeOrder
<1>2. p \in Path(p) /\ Path(p) \subseteq Path(n) /\ \A a \in Path(p) : a \in Node /\ a <= p
  BY <1>1, PathFacts DEF Path
<1>3. /\ BlockAround(n) \in Node /\ Kind(BlockAround(n)) \in Openers /\ BlockAround(n) \in Path(p)
      /\ \A b \in Path(n) : b # n /\ Kind(b) \in Openers => b <= BlockAround(n)
  BY BlockFacts
<1>4. CASE Kind(p) \in Openers
  BY <1>1, <1>2, <1>3, <1>4
<1>5. CASE Kind(p) \notin Openers
  <2>1. p # 1
    BY <1>1, <1>5 DEF Openers
  <2>2. /\ BlockAround(p) \in Node /\ Kind(BlockAround(p)) \in Openers /\ BlockAround(p) \in Path(p)
        /\ \A b \in Path(p) : b # p /\ Kind(b) \in Openers => b <= BlockAround(p)
    BY <1>1, <2>1, BlockFacts
  <2>3. BlockAround(n) <= BlockAround(p)
    BY <1>3, <1>5, <2>2
  <2>4. BlockAround(p) <= BlockAround(n)
    BY <1>1, <1>2, <1>3, <2>2
  <2> QED BY <1>1, <1>3, <1>5, <2>2, <2>3, <2>4
<1> QED BY <1>4, <1>5

-----------------------------------------------------------------------------
(* The inductive invariant of resolution                                   *)

\* A node that has a scope has the one of its block, or opens it itself.
ScopesAreBlocks ==
  \A n \in Node :
    /\ scopeOf[n] # 0 => scopeOf[n] = IF Kind(n) \in Openers THEN n ELSE BlockAround(n)
    /\ Kind(n) \in Openers /\ pc[n] \notin {"idle", "enter"} => scopeOf[n] = n

\* Parent pointers may end early, but they skip no block.
ChainsAreGapless ==
  \A s \in Node : \A a \in chain[s] : \A b \in Path(s) :
    Kind(b) \in Openers /\ a <= b => b \in chain[s]

DefinitionsAreHome == \A s \in Node : \A d \in defs[s] : d \in Node \ {1} /\ s = BlockAround(d)

\* The handler of e has come past the point where it declares e.
PastAt(k, p) == /\ k \in DefinitionKinds /\ p \notin {"idle", "enter"}
                /\ k = "iterator_definition" => p = "done"
Past(e) == PastAt(Kind(e), pc[e])
Declared == \A e \in Node : Past(e) => e \in defs[BlockAround(e)]

\* Only the branches of an if are begun out of order.
InOrder ==
  \A p \in Node : Kind(p) # "if_expr" =>
    \A i, j \in 1 .. Len(Children(p)) :
      i < j /\ pc[Child(p, j)] # "idle" => pc[Child(p, i)] = "done"

OnlyCurEnters == \A n \in Node : pc[n] = "enter" => n = cur

TablesInv == ScopesAreBlocks /\ ChainsAreGapless /\ DefinitionsAreHome /\ Declared
LexicalInductive ==
  /\ WalkInductive /\ ScopesLeadOutwards /\ TablesInv /\ InOrder /\ OnlyCurEnters
  /\ LexicalResolution

LEMMA SameBlocks ==
  ASSUME prog' = prog
  PROVE  /\ \A n : BlockAround(n)' = BlockAround(n) /\ Name(n)' = Name(n)
         /\ \A e, n : StatedBefore(e, n)' <=> StatedBefore(e, n)
<1>1. \A n : Path(n)' = Path(n) /\ Kind(n)' = Kind(n) /\ Parent(n)' = Parent(n)
  BY SameTree
<1>2. \A n : BlockAround(n)' = BlockAround(n) /\ Name(n)' = Name(n)
  BY DEF BlockAround, Name, Path, Kind, Parent, Below
<1>3. \A e, n : StatedBefore(e, n)' <=> StatedBefore(e, n)
  BY <1>1 DEF StatedBefore
<1> QED BY <1>2, <1>3

-----------------------------------------------------------------------------
(* What a running handler finds                                            *)

\* The scopes a handler finds at its parent, or crawling up, are its block's.
LEMMA ParentScope ==
  ASSUME prog \in Programs, ScopesAreBlocks, NEW n \in Node, n # 1
  PROVE  scopeOf[Parent(n)] \in {0, BlockAround(n)}
<1>1. Parent(n) \in Node
  BY ProgramFacts
<1> QED BY <1>1, BlockOfParent DEF ScopesAreBlocks

LEMMA ScopeAroundIsBlock ==
  ASSUME WalkInductive, ScopesAreBlocks, OnlyCurEnters, cur \in Node, cur # 1, Active(cur)
  PROVE  ScopeAround(cur) = BlockAround(cur)
<1> DEFINE b == BlockAround(cur)
           S == {a \in Path(Parent(cur)) : scopeOf[a] # 0}
<1>1. /\ prog \in Programs /\ StackInv /\ Len(prog) \in Nat /\ Node = 1 .. Len(prog)
      /\ Parent(cur) \in Node /\ Kind(1) = "root"
  BY ProgramFacts DEF WalkInductive, Inductive
<1>2. /\ b \in Node /\ b # cur /\ Kind(b) \in Openers /\ b \in Path(Parent(cur)) /\ b \in Path(cur)
      /\ \A a \in Path(cur) : a # cur /\ Kind(a) \in Openers => a <= b
  BY <1>1, BlockFacts
<1>3. scopeOf[b] = b
  <2>1. Active(b) /\ pc[b] # "enter"
    BY <1>1, <1>2 DEF StackInv, OnlyCurEnters
  <2> QED BY <1>2, <2>1 DEF Active, ScopesAreBlocks
<1>4. b \in S
  BY <1>1, <1>2, <1>3
<1>5. S \in SUBSET (0 .. Len(prog))
  <2>1. Path(Parent(cur)) \subseteq Node
    BY <1>1, PathFacts
  <2> QED BY <1>1, <2>1
<1>6. Below(S) \in S /\ \A y \in S : y <= Below(S)
  <2> HIDE DEF S
  <2> QED BY <1>1, <1>4, <1>5, BelowPicks
<1>7. PICK a : a = Below(S)
  OBVIOUS
<1>8. a \in Path(Parent(cur)) /\ scopeOf[a] # 0 /\ b <= a /\ ScopeAround(cur) = scopeOf[a]
  BY <1>4, <1>6, <1>7 DEF ScopeAround
<1> HIDE DEF S, b
<1>9. a \in Node /\ a \in Path(cur) /\ a < cur /\ a # cur /\ a <= Parent(cur)
  <2>1. a \in Node /\ a \in Path(cur) /\ a <= Parent(cur)
    BY <1>1, <1>8, PathFacts DEF Path
  <2>2. Parent(cur) \in 1 .. (cur - 1)
    BY <1>1, TreeOrder
  <2> QED BY <1>1, <2>1, <2>2
<1>10. CASE Kind(a) \in Openers
  <2>1. a <= b
    BY <1>2, <1>9, <1>10
  <2>2. a = b
    BY <1>1, <1>2, <1>8, <1>9, <2>1
  <2> QED BY <1>3, <1>8, <2>2 DEF b
<1>11. CASE Kind(a) \notin Openers
  <2>1. a # 1 /\ b # a
    BY <1>1, <1>2, <1>11 DEF Openers
  <2>2. scopeOf[a] = BlockAround(a)
    BY <1>8, <1>9, <1>11 DEF ScopesAreBlocks
  <2>3. /\ BlockAround(a) \in Node /\ Kind(BlockAround(a)) \in Openers /\ BlockAround(a) \in Path(a)
        /\ \A y \in Path(a) : y # a /\ Kind(y) \in Openers => y <= BlockAround(a)
    BY <1>1, <1>9, <2>1, BlockFacts
  <2>4. b \in Path(a)
    BY <1>1, <1>2, <1>8, <1>9, PathLinear
  <2>5. b <= BlockAround(a)
    BY <1>2, <2>1, <2>3, <2>4
  <2>6. BlockAround(a) # cur
    <3>1. BlockAround(a) <= a
      BY <1>1, <2>3 DEF Path
    <3> QED BY <1>1, <1>9, <2>3, <3>1
  <2>7. BlockAround(a) <= b
    BY <1>1, <1>2, <1>9, <2>3, <2>6, PathFacts
  <2> QED BY <1>1, <1>2, <1>8, <2>2, <2>3, <2>5, <2>7 DEF b
<1> QED BY <1>10, <1>11

LEMMA HomeIsBlock ==
  ASSUME WalkInductive, ScopesAreBlocks, OnlyCurEnters, cur \in Node, cur # 1, Active(cur)
  PROVE  HomeScope(cur) \in {0, BlockAround(cur)}
BY ParentScope, ScopeAroundIsBlock DEF HomeScope, WalkInductive, Inductive

-----------------------------------------------------------------------------
(* What the walk has come to                                               *)

\* Below a node that has ended everything has ended.
LEMMA DoneBelow ==
  ASSUME WalkInductive, NEW x \in Node, NEW m \in Node, x \in Path(m), pc[x] = "done",
         ~Optional(m)
  PROVE  pc[m] = "done"
<1> SUFFICES ASSUME pc[m] # "done" PROVE FALSE
  OBVIOUS
<1>1. /\ prog \in Programs /\ ProgressInv /\ Len(prog) \in Nat /\ Node = 1 .. Len(prog)
      /\ \A n \in Node : prog[n].last \in n .. Len(prog)
  BY TreeOrder DEF WalkInductive, Inductive
<1> DEFINE S == {k \in Path(m) : x <= k /\ pc[k] # "done"}
<1>2. S \in SUBSET Nat /\ m \in S
  <2>1. m \in Path(m) /\ x <= m /\ Path(m) \subseteq Node
    BY <1>1, PathFacts DEF Path
  <2> QED BY <1>1, <2>1
<1>3. PICK k \in S : \A y \in S : k <= y
  <2> HIDE DEF S
  <2> QED BY <1>2, LeastElement
<1>4. k \in Node /\ k \in Path(m) /\ x < k /\ pc[k] # "done"
  <2>1. k \in Path(m) /\ x <= k /\ pc[k] # "done" /\ k # x
    BY <1>3
  <2> QED BY <1>1, <2>1, PathFacts
<1>5. x \in Path(k)
  BY <1>1, <1>4, PathLinear
<1>6. k # 1 /\ Parent(k) \in Node /\ x <= Parent(k) /\ Parent(k) < k /\ Parent(k) \in Path(m)
  <2>1. k # 1
    BY <1>1, <1>4
  <2>2. Parent(k) \in 1 .. (k - 1) /\ x <= Parent(k)
    BY <1>1, <1>4, <1>5, <2>1, TreeOrder DEF Path
  <2>3. Parent(k) \in Node /\ Parent(k) \in Path(k) /\ Path(k) \subseteq Path(m)
    BY <1>1, <1>4, <2>1, PathFacts
  <2> QED BY <1>1, <1>4, <2>1, <2>2, <2>3
<1>7. pc[Parent(k)] = "done"
  <2>1. Parent(k) \notin S
    BY <1>1, <1>3, <1>4, <1>6
  <2> QED BY <1>6, <2>1
<1>8. ~Optional(k)
  <2>1. CASE k = m
    BY <2>1
  <2>2. CASE k # m
    <3>1. PICK y \in Path(m) : y \in Node \ {1} /\ Parent(y) = k
      BY <1>1, <1>4, <2>2, ChildOnPath
    <3>2. Len(Children(k)) # 0
      BY <1>1, <1>4, <3>1, TreeFacts
    <3> QED BY <1>1, <1>4, <3>2, TreeFacts DEF Optional
  <2> QED BY <2>1, <2>2
<1> QED BY <1>1, <1>4, <1>6, <1>7, <1>8 DEF ProgressInv

\* What the program states before the running node has been declared.
LEMMA StatedIsPast ==
  ASSUME WalkInductive, InOrder, OnlyCurEnters, cur \in Node, Active(cur),
         NEW e \in Node, Kind(e) \in DefinitionKinds, StatedBefore(e, cur)
  PROVE  Past(e)
<1>1. /\ prog \in Programs /\ StackInv /\ Len(prog) \in Nat /\ Node = 1 .. Len(prog)
      /\ \A n \in Node : prog[n].last \in n .. Len(prog)
      /\ e < cur /\ ~Optional(e)
      /\ Kind(e) = "iterator_definition" => e \notin Path(cur)
  BY TreeOrder DEF WalkInductive, Inductive, StatedBefore, Optional
<1>2. CASE e \in Path(cur)
  <2>1. Active(e) /\ pc[e] # "enter" /\ Kind(e) # "iterator_definition"
    BY <1>1, <1>2 DEF StackInv, OnlyCurEnters
  <2> QED BY <2>1 DEF Past, PastAt, Active
<1>3. CASE e \notin Path(cur)
  <2> DEFINE S == {x \in Path(e) : x \notin Path(cur)}
  <2>1. S \in SUBSET Nat /\ e \in S
    BY <1>1, <1>3, PathFacts
  <2>2. PICK x \in S : \A y \in S : x <= y
    <3> HIDE DEF S
    <3> QED BY <2>1, LeastElement
  <2> DEFINE p == Parent(x)
  <2>3. x \in Path(e) /\ x \in Node \ {1} /\ x \notin Path(cur) /\ x <= e /\ e <= prog[x].last
    <3>1. x \in Path(e) /\ x \notin Path(cur) /\ x \in Node
      BY <1>1, <2>2, PathFacts
    <3>2. 1 \in Path(cur)
      BY <1>1, ProgramsAssumption DEF WellFormed, Path
    <3> QED BY <3>1, <3>2 DEF Path
  <2>4. p \in Path(e) /\ p \in Node /\ p \in Path(cur) /\ p # cur
    <3>1. p \in 1 .. (x - 1) /\ p \in Node /\ p \in Path(x) /\ Path(x) \subseteq Path(e)
      BY <1>1, <2>3, TreeOrder, PathFacts
    <3>2. p \notin S
      BY <1>1, <2>2, <2>3, <3>1
    <3>3. p < cur
      BY <1>1, <2>3, <3>1
    <3> QED BY <1>1, <3>1, <3>2, <3>3
  <2>5. PICK y \in Path(cur) : y \in Node \ {1} /\ Parent(y) = p
    BY <1>1, <2>4, ChildOnPath
  <2> HIDE DEF S, p
  <2>6. x # y /\ y \notin Path(e)
    BY <1>1, <2>3, <2>5, SiblingsApart DEF p
  <2>7. x < y
    <3> SUFFICES ASSUME y < x PROVE FALSE
      BY <1>1, <2>3, <2>5, <2>6
    <3>1. y <= e /\ e <= prog[y].last
      BY <1>1, <2>3, <2>5 DEF Path
    <3> QED BY <1>1, <2>5, <2>6, <3>1 DEF Path
  <2>8. Kind(p) # "if_expr"
    <3> SUFFICES ASSUME Kind(p) = "if_expr" PROVE FALSE
      OBVIOUS
    <3>1. PICK c \in Path(e) \cap Path(cur) : Parent(c) = p
      BY <2>4 DEF StatedBefore
    <3>2. c \in Node \ {1}
      <4>1. c \in Node /\ Parent(c) \in Node
        BY <1>1, <2>4, <3>1, PathFacts
      <4> QED BY <1>1, <4>1, TreeFacts
    <3> QED BY <1>1, <2>3, <3>1, <3>2, SiblingsApart DEF p
  <2>9. PICK i \in 1 .. Len(Children(p)) : Child(p, i) = x
    BY <1>1, <2>3, TreeFacts DEF p
  <2>10. PICK j \in 1 .. Len(Children(p)) : Child(p, j) = y
    BY <1>1, <2>5, TreeFacts
  <2>11. i < j
    <3>1. j < i => y < x
      BY <1>1, <2>4, <2>9, <2>10, TreeFacts
    <3>2. Len(Children(p)) \in Nat
      BY <1>1, <2>4, ProgramFacts
    <3> QED BY <1>1, <2>3, <2>5, <2>7, <2>9, <2>10, <3>1, <3>2
  <2>12. pc[y] # "idle"
    BY <1>1, <2>5 DEF StackInv, Active
  <2>13. pc[x] = "done"
    BY <2>4, <2>8, <2>9, <2>10, <2>11, <2>12 DEF InOrder
  <2>14. pc[e] = "done"
    BY <1>1, <2>3, <2>13, DoneBelow
  <2> QED BY <2>14 DEF Past, PastAt
<1> QED BY <1>2, <1>3

\* A search ends in the innermost scope of the chain that has the name.
LEMMA LookupIsInnermost ==
  ASSUME prog \in Programs, TypeOK, NEW x, NEW s \in Node, NEW K, Lookup(x, s, K) # 0
  PROVE  \E c \in chain[s] : /\ Lookup(x, s, K) \in Named(c, x, K)
                             /\ \A b \in chain[s] : Named(b, x, K) # {} => b <= c
<1> DEFINE H == {c \in chain[s] : Named(c, x, K) # {}}
<1>1. H # {}
  BY DEF Lookup
<1>2. Len(prog) \in Nat /\ Node = 1 .. Len(prog) /\ chain[s] \subseteq Node
  BY ProgramFacts DEF TypeOK
<1>3. H \in SUBSET (0 .. Len(prog))
  BY <1>2
<1>4. Below(H) \in H /\ \A y \in H : y <= Below(H)
  <2> HIDE DEF H
  <2> QED BY <1>1, <1>2, <1>3, BelowPicks
<1>5. Lookup(x, s, K) = CHOOSE d \in Named(Below(H), x, K) : TRUE
  BY <1>1 DEF Lookup
<1>6. PICK c : c = Below(H)
  OBVIOUS
<1>7. Named(c, x, K) # {} /\ c \in chain[s] /\ \A b \in chain[s] : Named(b, x, K) # {} => b <= c
  BY <1>4, <1>6
<1>8. Lookup(x, s, K) = CHOOSE d \in Named(c, x, K) : TRUE
  BY <1>5, <1>6
<1> HIDE DEF H
<1> QED BY <1>7, <1>8

\* The resolution of the running node is lexical.
LEMMA ResolvesLexically ==
  ASSUME LexicalInductive, cur \in Node, Active(cur), Kind(cur) \notin Openers, NEW K,
         K \subseteq DefinitionKinds, Lookup(Name(cur), ScopeAround(cur), K) # 0
  PROVE  LET d == Lookup(Name(cur), ScopeAround(cur), K)
         IN  /\ d \in Node /\ Name(d) = Name(cur) /\ Kind(d) \in K /\ BlockAround(d) \in Path(cur)
             /\ d \in defs[BlockAround(d)]
             /\ \A e \in Node : /\ Kind(e) \in K /\ Name(e) = Name(cur)
                               /\ StatedBefore(e, cur) /\ BlockAround(e) \in Path(cur)
                               => BlockAround(e) <= BlockAround(d)
<1>1. /\ prog \in Programs /\ TypeOK /\ WalkInductive /\ TablesInv /\ InOrder /\ OnlyCurEnters
      /\ ScopesLeadOutwards /\ Len(prog) \in Nat /\ Node = 1 .. Len(prog) /\ Kind(1) = "root"
  BY ProgramFacts DEF LexicalInductive, WalkInductive, Inductive
<1>2. cur # 1
  BY <1>1 DEF Openers
<1>3. PICK s \in Node : s = BlockAround(cur)
  BY <1>1, <1>2, BlockFacts
<1>4. /\ s \in Path(cur) /\ ScopeAround(cur) = s
      /\ \A b \in Path(cur) : b # cur /\ Kind(b) \in Openers => b <= s
  BY <1>1, <1>2, <1>3, BlockFacts, ScopeAroundIsBlock DEF TablesInv
<1>5. PICK d : d = Lookup(Name(cur), s, K)
  OBVIOUS
<1>6. PICK c \in chain[s] : /\ d \in Named(c, Name(cur), K)
                            /\ \A b \in chain[s] : Named(b, Name(cur), K) # {} => b <= c
  BY <1>1, <1>4, <1>5, LookupIsInnermost
<1>7. c \in Node /\ c \in Path(cur)
  BY <1>1, <1>4, <1>6, PathFacts DEF TypeOK, ScopesLeadOutwards
<1>8. d \in Node \ {1} /\ d \in defs[c] /\ Name(d) = Name(cur) /\ Kind(d) \in K /\ c = BlockAround(d)
  BY <1>1, <1>6, <1>7 DEF Named, TablesInv, DefinitionsAreHome
<1>9. ASSUME NEW e \in Node, Kind(e) \in K, Name(e) = Name(cur), StatedBefore(e, cur),
             BlockAround(e) \in Path(cur)
      PROVE  BlockAround(e) <= c
  <2>1. Past(e)
    BY <1>1, <1>9, StatedIsPast
  <2>2. PICK b \in Node : b = BlockAround(e)
    BY <1>1, <1>9, PathFacts
  <2>3. e \in Named(b, Name(cur), K)
    BY <1>1, <1>9, <2>1, <2>2 DEF TablesInv, Declared, Named
  <2>4. Kind(b) \in Openers
    <3>1. e # 1
      BY <1>1, <1>9 DEF DefinitionKinds, VariableKinds, FunctionKinds
    <3> QED BY <1>1, <2>2, <3>1, BlockFacts
  <2>5. b \in Path(s)
    <3>1. b # cur /\ b <= s
      BY <1>4, <1>9, <2>2, <2>4
    <3> QED BY <1>1, <1>4, <1>9, <2>2, <3>1, PathLinear
  <2>6. c <= b => b \in chain[s]
    BY <1>1, <1>6, <2>4, <2>5 DEF TablesInv, ChainsAreGapless
  <2> QED BY <1>1, <1>6, <1>7, <2>2, <2>3, <2>6
<1> QED BY <1>4, <1>5, <1>7, <1>8, <1>9

-----------------------------------------------------------------------------
(* What a step does to the tables                                          *)

Candidates(n) == IF Kind(n) = "function_call" THEN DefinitionKinds ELSE VariableKinds

\* The running handler moves on, and at most one other starts: its next child, or a
\* branch of an if.
PcMoves ==
  /\ \A n \in Node : n # cur /\ pc'[n] # pc[n] =>
       /\ pc'[n] = "enter" /\ n = cur'
       /\ Kind(Parent(n)) = "if_expr" \/ (at[cur] < Len(Children(cur)) /\ n = NextChild)
  /\ pc'[cur] # "idle" /\ (pc'[cur] = "enter" => pc[cur] = "enter" /\ cur' = cur)

\* It opens a scope when it starts, if it opens one at all, or shares its block's.
ScopesMove ==
  \/ UNCHANGED <<scopeOf, chain>> /\ (Kind(cur) \in Openers => pc[cur] # "enter" \/ pc'[cur] = "enter")
  \/ \E o \in {0, BlockAround(cur)} :
       /\ cur # 1
       /\ \/ Kind(cur) \in Openers /\ OpenScope(cur, o)
          \/ Kind(cur) \notin Openers /\ scopeOf' = [scopeOf EXCEPT ![cur] = o] /\ chain' = chain

\* It declares its node in its block, before anybody can tell that it has.
DefinitionsMove ==
  \/ defs' = defs /\ (PastAt(Kind(cur), pc'[cur]) => Past(cur))
  \/ cur # 1 /\ Declare(cur, BlockAround(cur))

\* A reference is resolved by the search from its scope.
ResolutionMoves ==
  \/ resolved' = resolved
  \/ /\ Kind(cur) \notin Openers
     /\ LET d == Lookup(Name(cur), ScopeAround(cur), Candidates(cur))
        IN  d # 0 /\ resolved' = [resolved EXCEPT ![cur] = d]

TablesMove ==
  /\ prog' = prog /\ cur \in Node /\ Active(cur)
  /\ PcMoves /\ ScopesMove /\ DefinitionsMove /\ ResolutionMoves

\* The moves of the handler's progress, by what handlers do.
LEMMA GoOnMoves ==
  ASSUME pc \in [Node -> Progress], cur \in Node, NEW q, q \notin {"idle", "enter"}, GoOn(q)
  PROVE  PcMoves /\ pc'[cur] = q
BY DEF GoOn, PcMoves

LEMMA ReturnMoves ==
  ASSUME pc \in [Node -> Progress], cur \in Node, NEW t, Return(t)
  PROVE  PcMoves /\ pc'[cur] = "done"
BY DEF Return, PcMoves

LEMMA StopMoves ==
  ASSUME pc \in [Node -> Progress], cur \in Node, Active(cur), NEW V, Stop(V)
  PROVE  prog' = prog /\ PcMoves /\ ScopesMove /\ DefinitionsMove /\ ResolutionMoves
BY DEF Stop, tables, PcMoves, ScopesMove, DefinitionsMove, ResolutionMoves, Past, Active

LEMMA AcceptMoves ==
  ASSUME pc \in [Node -> Progress], cur \in Node, NEW q, q \notin {"idle", "enter", "done"},
         NEW c \in Node \ {cur}, Accept(c, q),
         Kind(Parent(c)) = "if_expr" \/ (at[cur] < Len(Children(cur)) /\ c = NextChild)
  PROVE  PcMoves /\ pc'[cur] = q
BY DEF Accept, PcMoves

\* A handler past its start that leaves the tables alone.
LEMMA TablesKept ==
  ASSUME UNCHANGED <<prog, tables>>, cur \in Node, pc[cur] \notin {"idle", "enter", "done"},
         PcMoves, pc'[cur] = "done" => Kind(cur) # "iterator_definition",
         resolved' = resolved
  PROVE  TablesMove
<1>1. UNCHANGED <<scopeOf, chain, defs>> /\ Active(cur)
  BY DEF tables, Active
<1>2. ScopesMove /\ ResolutionMoves
  BY <1>1 DEF ScopesMove, ResolutionMoves
<1>3. DefinitionsMove
  BY <1>1 DEF DefinitionsMove, Past, PastAt
<1> QED BY <1>1, <1>2, <1>3 DEF TablesMove

LEMMA BeginningMoves ==
  ASSUME LexicalInductive,
         \/ VisitUnscoped \/ VisitFunctionBody \/ VisitScopedExpression \/ VisitLambda
         \/ VisitFunctionDefinition \/ VisitVariableDefinition
  PROVE  TablesMove
<1>1. /\ cur \in Node /\ pc[cur] = "enter" /\ BeginChildren /\ Kind(cur) # "root"
      /\ pc \in [Node -> Progress] /\ prog \in Programs
  BY DEF VisitUnscoped, VisitFunctionBody, VisitScopedExpression, VisitLambda, Unscoped,
         ScopedExpressions, VisitFunctionDefinition, VisitVariableDefinition, Entering, Running,
         LexicalInductive, WalkInductive, Inductive, TypeOK
<1>2. cur # 1 /\ Active(cur)
  BY <1>1, NotTheRoot DEF Active
<1>3. PcMoves /\ pc'[cur] = "children" /\ prog' = prog /\ resolved' = resolved
  BY <1>1, GoOnMoves DEF BeginChildren
<1>4. /\ scopeOf[Parent(cur)] \in {0, BlockAround(cur)} /\ ScopeAround(cur) = BlockAround(cur)
      /\ HomeScope(cur) \in {0, BlockAround(cur)}
  BY <1>1, <1>2, ParentScope, ScopeAroundIsBlock, HomeIsBlock DEF LexicalInductive, TablesInv
<1>5. ScopesMove
  <2>1. CASE VisitUnscoped
    BY <2>1 DEF VisitUnscoped, Entering, Running, Unscoped, Openers, Callables, ScopedExpressions,
                ScopesMove, tables
  <2>2. CASE VisitFunctionBody
    BY <1>2, <1>4, <2>2 DEF VisitFunctionBody, Entering, Running, Openers, Callables,
                            ScopedExpressions, ScopesMove
  <2>3. CASE VisitScopedExpression
    BY <1>2, <1>4, <2>3 DEF VisitScopedExpression, Entering, Running, Openers, ScopesMove
  <2>4. CASE VisitLambda
    BY <1>2, <1>4, <2>4 DEF VisitLambda, Entering, Running, Openers, Callables, ScopesMove
  <2>5. CASE VisitFunctionDefinition
    BY <1>2, <1>4, <2>5 DEF VisitFunctionDefinition, Entering, Running, Openers, Callables,
                            ScopesMove
  <2>6. CASE VisitVariableDefinition
    BY <1>2, <1>4, <2>6 DEF VisitVariableDefinition, Entering, Running, Openers, Callables,
                            ScopedExpressions, ScopesMove
  <2> QED BY <2>1, <2>2, <2>3, <2>4, <2>5, <2>6
<1>6. DefinitionsMove
  <2>1. CASE VisitUnscoped
    BY <1>3, <2>1 DEF VisitUnscoped, Entering, Running, Unscoped, DefinitionsMove, PastAt, tables,
                      DefinitionKinds, VariableKinds, FunctionKinds
  <2>2. CASE VisitFunctionBody \/ VisitScopedExpression \/ VisitLambda
    BY <2>2 DEF VisitFunctionBody, VisitScopedExpression, VisitLambda, Entering, Running,
                ScopedExpressions, DefinitionsMove, PastAt, DefinitionKinds, VariableKinds,
                FunctionKinds
  <2>3. CASE VisitFunctionDefinition \/ VisitVariableDefinition
    BY <1>2, <1>4, <2>3 DEF VisitFunctionDefinition, VisitVariableDefinition, Declarable,
                            DefinitionsMove
  <2> QED BY <2>1, <2>2, <2>3
<1> QED BY <1>1, <1>2, <1>3, <1>5, <1>6 DEF TablesMove, ResolutionMoves

LEMMA LeavingMoves ==
  ASSUME LexicalInductive,
         \/ LeaveOperator \/ LeaveIf \/ LeaveCallable \/ LeaveLoop
         \/ LeaveVariableDefinition \/ LeaveUntyped \/ LeaveFunctionCall
  PROVE  TablesMove
<1>1. pc \in [Node -> Progress]
  BY DEF LexicalInductive, WalkInductive, Inductive, TypeOK
<1>2. /\ cur \in Node /\ pc[cur] \in {"children", "arguments", "branch"}
      /\ Kind(cur) # "iterator_definition"
  <2>1. CASE LeaveFunctionCall
    BY <2>1 DEF LeaveFunctionCall, ArgumentsPassed, Passing, Running, LexicalInductive,
                WalkInductive, Inductive, Bookkeeping
  <2>2. CASE \/ LeaveOperator \/ LeaveIf \/ LeaveCallable \/ LeaveLoop
             \/ LeaveVariableDefinition \/ LeaveUntyped
    BY <2>2 DEF LeaveOperator, LeaveIf, LeaveCallable, LeaveLoop, LeaveVariableDefinition,
                LeaveUntyped, Leaving, Running, Callables
  <2> QED BY <2>1, <2>2
<1>3. \E r : Conclude(r)
  BY DEF LeaveOperator, LeaveIf, LeaveCallable, LeaveLoop, LeaveVariableDefinition,
         LeaveUntyped, LeaveFunctionCall
<1>4. PICK r : Conclude(r)
  BY <1>3
<1>5. CASE Stop(Verdict(r))
  BY <1>1, <1>2, <1>5, StopMoves DEF TablesMove, Active
<1>6. CASE Return(r) /\ UNCHANGED <<prog, tables, resolved>>
  BY <1>1, <1>2, <1>6, ReturnMoves, TablesKept
<1> QED BY <1>4, <1>5, <1>6 DEF Conclude

LEMMA DefinitionMoves ==
  ASSUME LexicalInductive, RejectDefinition \/ VisitFormalOrExtern \/ LeaveIterator
  PROVE  TablesMove
<1>1. /\ pc \in [Node -> Progress] /\ prog \in Programs
      /\ cur \in Node /\ Active(cur) /\ Kind(cur) \in DefinitionKinds
  BY DEF LexicalInductive, WalkInductive, Inductive, TypeOK, RejectDefinition, LeaveIterator,
         VisitFormalOrExtern, Entering, Leaving, Running, Active, DefinitionKinds, VariableKinds,
         FunctionKinds
<1>2. cur # 1
  BY <1>1, NotTheRoot DEF DefinitionKinds, VariableKinds, FunctionKinds
<1>3. HomeScope(cur) \in {0, BlockAround(cur)}
  BY <1>1, <1>2, HomeIsBlock DEF LexicalInductive, TablesInv
<1>4. CASE \E V : Stop(V)
  BY <1>1, <1>4, StopMoves DEF TablesMove
<1>5. CASE VisitFormalOrExtern
  <2>1. /\ Kind(cur) \in {"formal", "extern_function"} /\ Declare(cur, BlockAround(cur))
        /\ Return(type[cur]) /\ UNCHANGED <<prog, scopeOf, chain, resolved>>
    BY <1>3, <1>5 DEF VisitFormalOrExtern, Declarable, Entering, Running
  <2>2. ScopesMove /\ DefinitionsMove /\ ResolutionMoves
    BY <1>2, <2>1 DEF ScopesMove, DefinitionsMove, ResolutionMoves, Openers, Callables,
                      ScopedExpressions
  <2> QED BY <1>1, <2>1, <2>2, ReturnMoves DEF TablesMove
<1>6. CASE \E t : /\ LeaveIterator /\ Declarable(cur) /\ Declare(cur, HomeScope(cur))
                  /\ scopeOf' = [scopeOf EXCEPT ![cur] = HomeScope(cur)]
                  /\ Return(t) /\ UNCHANGED <<prog, chain, resolved>>
  <2>1. /\ Kind(cur) = "iterator_definition" /\ Declare(cur, BlockAround(cur))
        /\ scopeOf' = [scopeOf EXCEPT ![cur] = BlockAround(cur)] /\ UNCHANGED <<prog, chain, resolved>>
    BY <1>3, <1>6 DEF LeaveIterator, Leaving, Running, Declarable
  <2>2. ScopesMove /\ DefinitionsMove /\ ResolutionMoves
    BY <1>2, <2>1 DEF ScopesMove, DefinitionsMove, ResolutionMoves, Openers, Callables,
                      ScopedExpressions
  <2> QED BY <1>1, <1>6, <2>1, <2>2, ReturnMoves DEF TablesMove
<1> QED BY <1>4, <1>5, <1>6 DEF RejectDefinition, LeaveIterator

LEMMA ReferenceMoves ==
  ASSUME LexicalInductive,
         VisitLiteral \/ ResolveVariable \/ VisitFunctionCall \/ RejectArgument
  PROVE  TablesMove
<1>1. /\ pc \in [Node -> Progress] /\ prog \in Programs /\ cur \in Node /\ Active(cur)
      /\ Kind(cur) \in {"literal", "variable", "set_expression", "function_call"}
  BY DEF LexicalInductive, WalkInductive, Inductive, TypeOK, VisitLiteral, ResolveVariable,
         VisitFunctionCall, RejectArgument, Passing, Bookkeeping, Entering, Leaving, Running, Active
<1>2. /\ Kind(cur) \notin Openers /\ Kind(cur) \notin DefinitionKinds
  BY <1>1 DEF Openers, Callables, ScopedExpressions, DefinitionKinds, VariableKinds, FunctionKinds
<1>3. CASE \E V : Stop(V)
  BY <1>1, <1>3, StopMoves DEF TablesMove
<1>4. ASSUME UNCHANGED <<prog, tables>>, PcMoves, ResolutionMoves
      PROVE  TablesMove
  BY <1>1, <1>2, <1>4 DEF TablesMove, ScopesMove, DefinitionsMove, PastAt, tables
<1>5. CASE VisitLiteral
  BY <1>1, <1>4, <1>5, ReturnMoves DEF VisitLiteral, ResolutionMoves
<1>6. CASE /\ ResolveVariable
           /\ LET d == Lookup(Name(cur), ScopeAround(cur), VariableKinds)
              IN  /\ d # 0 /\ resolved' = [resolved EXCEPT ![cur] = d]
                  /\ Return(type[d]) /\ UNCHANGED <<prog, tables>>
  <2>1. Kind(cur) # "function_call"
    BY <1>6 DEF ResolveVariable, Entering, Leaving, Running
  <2>2. ResolutionMoves
    BY <1>2, <1>6, <2>1 DEF ResolutionMoves, Candidates
  <2> QED BY <1>1, <1>4, <1>6, <2>2, ReturnMoves
<1>7. CASE /\ VisitFunctionCall
           /\ LET d == Lookup(Name(cur), ScopeAround(cur), DefinitionKinds)
              IN  /\ CallFailures(cur, d) = {} /\ resolved' = [resolved EXCEPT ![cur] = d]
                  /\ GoOn("arguments") /\ UNCHANGED <<prog, tables>>
  <2>1. Kind(cur) = "function_call"
    BY <1>7 DEF VisitFunctionCall, Entering, Running
  <2>2. ResolutionMoves
    BY <1>2, <1>7, <2>1 DEF ResolutionMoves, Candidates, CallFailures
  <2> QED BY <1>1, <1>4, <1>7, <2>2, GoOnMoves
<1>8. RejectArgument => \E V : Stop(V)
  BY DEF RejectArgument
<1>9. ResolveVariable => \/ \E V : Stop(V)
                         \/ LET d == Lookup(Name(cur), ScopeAround(cur), VariableKinds)
                            IN  /\ d # 0 /\ resolved' = [resolved EXCEPT ![cur] = d]
                                /\ Return(type[d]) /\ UNCHANGED <<prog, tables>>
  BY DEF ResolveVariable
<1>10. VisitFunctionCall =>
         \/ \E V : Stop(V)
         \/ LET d == Lookup(Name(cur), ScopeAround(cur), DefinitionKinds)
            IN  /\ CallFailures(cur, d) = {} /\ resolved' = [resolved EXCEPT ![cur] = d]
                /\ GoOn("arguments") /\ UNCHANGED <<prog, tables>>
  BY DEF VisitFunctionCall
<1> QED BY <1>3, <1>5, <1>6, <1>7, <1>8, <1>9, <1>10

LEMMA WalkingMoves ==
  ASSUME LexicalInductive,
         VisitChild \/ SkipVisitedChild \/ VisitArgument \/ VisitOtherBranch
  PROVE  TablesMove
<1>1. /\ pc \in [Node -> Progress] /\ at \in [Node -> Nat] /\ prog \in Programs
  BY DEF LexicalInductive, WalkInductive, Inductive, TypeOK
<1>2. /\ cur \in Node /\ pc[cur] \in {"children", "arguments"} /\ Active(cur)
      /\ UNCHANGED <<prog, tables, resolved>>
  BY DEF VisitChild, SkipVisitedChild, VisitArgument, VisitOtherBranch, MoreChildren,
         ArgumentsPassed, Passing, Active
<1>3. PcMoves /\ pc'[cur] # "done"
  <2>1. CASE VisitChild \/ VisitArgument
    <3>1. at[cur] < Len(Children(cur)) /\ \E q \in {"children", "arguments"} : Accept(NextChild, q)
      BY <2>1 DEF VisitChild, VisitArgument, MoreChildren
    <3>2. at[cur] + 1 \in 1 .. Len(Children(cur))
      BY <1>1, <1>2, <3>1, ProgramFacts
    <3>3. NextChild \in Node \ {cur}
      BY <1>1, <1>2, <3>2, ProgramFacts DEF NextChild
    <3> QED BY <1>1, <1>2, <3>1, <3>3, AcceptMoves
  <2>2. CASE VisitOtherBranch
    <3>1. EnclosingIf(cur) # 0 /\ Accept(OtherBranch(cur), "branch")
      BY <2>2 DEF VisitOtherBranch, MustVisitBranch, Unresolvable
    <3>2. /\ OtherBranch(cur) \in Node /\ Kind(Parent(OtherBranch(cur))) = "if_expr"
          /\ OtherBranch(cur) \notin Path(cur)
      BY <1>1, <1>2, <3>1, OtherBranchFacts
    <3>3. OtherBranch(cur) # cur
      BY <1>1, <1>2, <3>2, PathFacts
    <3> QED BY <1>1, <1>2, <3>1, <3>2, <3>3, AcceptMoves
  <2>3. CASE SkipVisitedChild
    BY <1>2, <2>3 DEF SkipVisitedChild, PcMoves
  <2> QED BY <2>1, <2>2, <2>3
<1> QED BY <1>2, <1>3, TablesKept

LEMMA NextMoves == LexicalInductive /\ Next => TablesMove
BY BeginningMoves, LeavingMoves, DefinitionMoves, ReferenceMoves, WalkingMoves DEF Next

-----------------------------------------------------------------------------
(* The invariant after a step                                              *)

\* Who has ended stays so, and only the running handler and the one it starts move.
LEMMA DoneStays ==
  ASSUME TablesMove, StartsOnce
  PROVE  /\ \A n \in Node : pc[n] = "done" => pc'[n] = "done"
         /\ \A n \in Node : n # cur /\ pc'[n] # "enter" => pc'[n] = pc[n]
BY DEF TablesMove, PcMoves, StartsOnce, Active

LEMMA ScopesAfter ==
  ASSUME LexicalInductive, TablesMove, StartsOnce
  PROVE  ScopesAreBlocks' /\ ChainsAreGapless'
<1>1. /\ prog \in Programs /\ scopeOf \in [Node -> MaybeNode] /\ chain \in [Node -> SUBSET Node]
      /\ ScopesAreBlocks /\ ChainsAreGapless /\ ScopesLeadOutwards
      /\ Len(prog) \in Nat /\ Node = 1 .. Len(prog)
  BY ProgramFacts DEF LexicalInductive, WalkInductive, Inductive, TypeOK, TablesInv
<1>2. /\ prog' = prog /\ cur \in Node /\ pc[cur] \notin {"idle", "done"} /\ PcMoves /\ ScopesMove
      /\ \A n \in Node : n # cur /\ pc'[n] # "enter" => pc'[n] = pc[n]
  BY DoneStays DEF TablesMove, Active
<1>3. /\ Node' = Node /\ \A n : Path(n)' = Path(n) /\ Kind(n)' = Kind(n) /\ BlockAround(n)' = BlockAround(n)
  BY <1>2, SameTree, SameBlocks
<1>4. SUFFICES
        /\ \A n \in Node :
             /\ scopeOf'[n] # 0 => scopeOf'[n] = IF Kind(n) \in Openers THEN n ELSE BlockAround(n)
             /\ Kind(n) \in Openers /\ pc'[n] \notin {"idle", "enter"} => scopeOf'[n] = n
        /\ \A s \in Node : \A a \in chain'[s] : \A b \in Path(s) :
             Kind(b) \in Openers /\ a <= b => b \in chain'[s]
  BY <1>3 DEF ScopesAreBlocks, ChainsAreGapless
<1>5. CASE UNCHANGED <<scopeOf, chain>> /\ (Kind(cur) \in Openers => pc[cur] # "enter" \/ pc'[cur] = "enter")
  BY <1>1, <1>2, <1>5 DEF ScopesAreBlocks, ChainsAreGapless
<1>6. CASE \E o \in {0, BlockAround(cur)} :
             /\ cur # 1
             /\ \/ Kind(cur) \in Openers /\ OpenScope(cur, o)
                \/ /\ Kind(cur) \notin Openers
                   /\ scopeOf' = [scopeOf EXCEPT ![cur] = o] /\ chain' = chain
  <2>1. PICK o \in {0, BlockAround(cur)} :
             /\ cur # 1
             /\ \/ Kind(cur) \in Openers /\ OpenScope(cur, o)
                \/ /\ Kind(cur) \notin Openers
                   /\ scopeOf' = [scopeOf EXCEPT ![cur] = o] /\ chain' = chain
    BY <1>6
  <2>2. /\ BlockAround(cur) \in Node /\ BlockAround(cur) \in Path(cur)
        /\ \A b \in Path(cur) : b # cur /\ Kind(b) \in Openers => b <= BlockAround(cur)
        /\ Path(cur) \subseteq Node
    BY <1>1, <1>2, <2>1, BlockFacts, PathFacts
  <2>3. CASE Kind(cur) \notin Openers /\ scopeOf' = [scopeOf EXCEPT ![cur] = o] /\ chain' = chain
    BY <1>1, <1>2, <2>1, <2>3 DEF ScopesAreBlocks, ChainsAreGapless
  <2>4. CASE Kind(cur) \in Openers /\ OpenScope(cur, o)
    <3> DEFINE outer == IF o = 0 THEN {} ELSE chain[o]
    <3>1. \A n \in Node : /\ scopeOf'[n] = IF n = cur THEN cur ELSE scopeOf[n]
                          /\ chain'[n] = IF n = cur THEN {cur} \cup outer ELSE chain[n]
      BY <1>1, <2>4 DEF OpenScope
    <3>2. ASSUME NEW a \in outer, NEW b \in Path(cur), Kind(b) \in Openers, a <= b, b # cur
          PROVE  b \in outer
      <4>1. o = BlockAround(cur) /\ o # 0 /\ a \in chain[o]
        BY <3>2, <2>1
      <4>2. b \in Path(o)
        BY <1>1, <1>2, <2>2, <3>2, <4>1, PathLinear
      <4> QED BY <1>1, <2>2, <3>2, <4>1, <4>2 DEF ChainsAreGapless
    <3> HIDE DEF outer
    <3>3. ASSUME NEW b \in Path(cur), cur <= b
          PROVE  b = cur
      BY <1>1, <1>2, <2>2, <3>3 DEF Path
    <3>4. \A a \in chain'[cur] : \A b \in Path(cur) :
             Kind(b) \in Openers /\ a <= b => b \in chain'[cur]
      BY <1>2, <3>1, <3>2, <3>3
    <3>5. \A s \in Node : \A a \in chain'[s] : \A b \in Path(s) :
             Kind(b) \in Openers /\ a <= b => b \in chain'[s]
      BY <1>1, <3>1, <3>4 DEF ChainsAreGapless
    <3>6. \A n \in Node :
             /\ scopeOf'[n] # 0 => scopeOf'[n] = IF Kind(n) \in Openers THEN n ELSE BlockAround(n)
             /\ Kind(n) \in Openers /\ pc'[n] \notin {"idle", "enter"} => scopeOf'[n] = n
      BY <1>1, <1>2, <2>4, <3>1 DEF ScopesAreBlocks
    <3> QED BY <3>5, <3>6
  <2> QED BY <2>1, <2>3, <2>4
<1> QED BY <1>2, <1>5, <1>6 DEF ScopesMove

LEMMA DefinitionsAfter ==
  ASSUME LexicalInductive, TablesMove, StartsOnce
  PROVE  DefinitionsAreHome' /\ Declared'
<1>1. /\ prog \in Programs /\ defs \in [Node -> SUBSET Node] /\ DefinitionsAreHome /\ Declared
  BY DEF LexicalInductive, WalkInductive, Inductive, TypeOK, TablesInv
<1>2. /\ prog' = prog /\ cur \in Node /\ DefinitionsMove
      /\ \A n \in Node : n # cur /\ pc'[n] # "enter" => pc'[n] = pc[n]
  BY DoneStays DEF TablesMove
<1>3. /\ Node' = Node /\ \A n : Kind(n)' = Kind(n) /\ BlockAround(n)' = BlockAround(n)
  BY <1>2, SameTree, SameBlocks
<1>4. \A e \in Node \ {cur} : PastAt(Kind(e), pc'[e]) => Past(e)
  BY <1>2 DEF PastAt, Past
<1>5. \A e : Past(e)' <=> PastAt(Kind(e), pc'[e])
  BY <1>3 DEF Past, PastAt
<1>6. SUFFICES
        /\ \A s \in Node : \A d \in defs'[s] : d \in Node \ {1} /\ s = BlockAround(d)
        /\ \A e \in Node : PastAt(Kind(e), pc'[e]) => e \in defs'[BlockAround(e)]
  <2>1. \A e : (defs[BlockAround(e)])' = defs'[BlockAround(e)]
    BY <1>3
  <2> QED BY <1>3, <1>5, <2>1 DEF DefinitionsAreHome, Declared
<1>7. CASE defs' = defs /\ (PastAt(Kind(cur), pc'[cur]) => Past(cur))
  BY <1>1, <1>4, <1>7 DEF DefinitionsAreHome, Declared
<1>8. CASE cur # 1 /\ Declare(cur, BlockAround(cur))
  <2>1. BlockAround(cur) \in Node
    BY <1>1, <1>2, <1>8, BlockFacts
  <2>2. \A s \in Node : defs'[s] = IF s = BlockAround(cur) THEN defs[s] \cup {cur} ELSE defs[s]
    BY <1>1, <1>8, <2>1 DEF Declare
  <2>3. ASSUME NEW e \in Node, PastAt(Kind(e), pc'[e])
        PROVE  e \in defs'[BlockAround(e)]
    <3>1. CASE e = cur
      BY <2>1, <2>2, <3>1
    <3>2. CASE e # cur
      <4>1. e # 1
        BY <1>1, <2>3, ProgramFacts DEF PastAt, DefinitionKinds, VariableKinds, FunctionKinds
      <4>2. BlockAround(e) \in Node /\ e \in defs[BlockAround(e)]
        BY <1>1, <1>4, <2>3, <3>2, <4>1, BlockFacts DEF Declared
      <4> QED BY <2>2, <4>2
    <3> QED BY <3>1, <3>2
  <2>4. \A s \in Node : \A d \in defs'[s] : d \in Node \ {1} /\ s = BlockAround(d)
    <3>1. ASSUME NEW s \in Node, NEW d \in defs'[s]
          PROVE  d \in Node \ {1} /\ s = BlockAround(d)
      <4>1. d \in defs[s] \/ (d = cur /\ s = BlockAround(cur))
        BY <2>2, <3>1
      <4> QED BY <1>1, <1>2, <1>8, <4>1 DEF DefinitionsAreHome
    <3> QED BY <3>1
  <2> QED BY <2>3, <2>4
<1> QED BY <1>2, <1>7, <1>8 DEF DefinitionsMove

LEMMA OrderAfter ==
  ASSUME LexicalInductive, TablesMove, StartsOnce
  PROVE  InOrder' /\ OnlyCurEnters'
<1>1. /\ prog \in Programs /\ InOrder /\ OnlyCurEnters /\ WalkInductive /\ ProgressInv
      /\ at \in [Node -> Nat]
  BY DEF LexicalInductive, WalkInductive, Inductive, TypeOK
<1>2. /\ prog' = prog /\ cur \in Node /\ PcMoves
      /\ \A n \in Node : pc[n] = "done" => pc'[n] = "done"
      /\ \A n \in Node : n # cur /\ pc'[n] # "enter" => pc'[n] = pc[n]
  BY DoneStays DEF TablesMove
<1>3. /\ Node' = Node /\ \A n : Kind(n)' = Kind(n) /\ Children(n)' = Children(n)
      /\ \A n, i : Child(n, i)' = Child(n, i)
  BY <1>2, SameTree
<1>4. OnlyCurEnters'
  BY <1>1, <1>2, <1>3 DEF PcMoves, OnlyCurEnters
<1>5. ASSUME NEW p \in Node, Kind(p) # "if_expr", NEW i \in 1 .. Len(Children(p)),
             NEW j \in 1 .. Len(Children(p)), i < j, pc'[Child(p, j)] # "idle"
      PROVE  pc'[Child(p, i)] = "done"
  <2>1. /\ Child(p, i) \in Node \ {1} /\ Child(p, j) \in Node \ {1}
        /\ Parent(Child(p, i)) = p /\ Parent(Child(p, j)) = p
    BY <1>1, TreeFacts
  <2>2. CASE pc[Child(p, j)] # "idle"
    BY <1>1, <1>2, <1>5, <2>1, <2>2 DEF InOrder
  <2>3. CASE pc[Child(p, j)] = "idle"
    <3>1. Child(p, j) # cur
      BY <2>3 DEF TablesMove, Active
    <3>2. at[cur] < Len(Children(cur)) /\ Child(p, j) = NextChild
      BY <1>2, <1>5, <2>1, <2>3, <3>1 DEF PcMoves
    <3>3. at[cur] + 1 \in 1 .. Len(Children(cur)) /\ at[cur] \in Nat /\ Len(Children(p)) \in Nat
      BY <1>1, <1>2, <3>2, ProgramFacts
    <3>4. p = cur /\ j = at[cur] + 1
      BY <1>1, <1>2, <2>1, <3>2, <3>3, TreeFacts DEF NextChild
    <3>5. i \in 1 .. at[cur]
      BY <1>5, <3>3, <3>4
    <3>6. pc[Child(p, i)] # "idle"
      BY <1>1, <1>2, <3>4, <3>5 DEF ProgressInv
    <3>7. ~Active(Child(p, i))
      BY <1>1, <1>2, <2>1, <3>4, NoActiveChild
    <3> QED BY <1>2, <2>1, <3>6, <3>7 DEF Active
  <2> QED BY <2>2, <2>3
<1>6. InOrder'
  <2>1. \A n, i : (pc[Child(n, i)])' = pc'[Child(n, i)]
    BY <1>3
  <2> QED BY <1>3, <1>5, <2>1 DEF InOrder
<1> QED BY <1>4, <1>6

LEMMA ResolutionAfter ==
  ASSUME LexicalInductive, TablesMove
  PROVE  LexicalResolution'
<1>1. /\ prog' = prog /\ cur \in Node /\ Active(cur) /\ ResolutionMoves
      /\ LexicalResolution /\ resolved \in [Node -> MaybeNode]
  BY DEF TablesMove, LexicalInductive, WalkInductive, Inductive, TypeOK
<1>2. /\ Node' = Node /\ \A n : Path(n)' = Path(n) /\ Kind(n)' = Kind(n) /\ BlockAround(n)' = BlockAround(n)
      /\ \A n : Name(n)' = Name(n)
      /\ \A e, n : StatedBefore(e, n)' <=> StatedBefore(e, n)
  BY <1>1, SameTree, SameBlocks
<1> DEFINE Lexical(n, d) ==
      /\ Name(d) = Name(n) /\ Kind(d) \in Candidates(n) /\ BlockAround(d) \in Path(n)
      /\ \A e \in Node : /\ Kind(e) \in Candidates(n) /\ Name(e) = Name(n)
                        /\ StatedBefore(e, n) /\ BlockAround(e) \in Path(n)
                        => BlockAround(e) <= BlockAround(d)
<1>3. LexicalResolution <=> \A n \in Node : resolved[n] # 0 => Lexical(n, resolved[n])
  BY DEF LexicalResolution, Candidates
<1>4. LexicalResolution' <=> \A n \in Node : resolved'[n] # 0 => Lexical(n, resolved'[n])
  <2>1. \A n : /\ Name(resolved[n])' = Name(resolved'[n])
               /\ Kind(resolved[n])' = Kind(resolved'[n])
               /\ BlockAround(resolved[n])' = BlockAround(resolved'[n])
    BY <1>1, <1>2 DEF Name, Kind, BlockAround, Path, Parent, Below
  <2> QED BY <1>2, <2>1 DEF LexicalResolution, Candidates
<1>5. CASE resolved' = resolved
  <2> HIDE DEF Lexical
  <2> QED BY <1>1, <1>3, <1>4, <1>5
<1>6. CASE /\ Kind(cur) \notin Openers
           /\ LET d == Lookup(Name(cur), ScopeAround(cur), Candidates(cur))
              IN  d # 0 /\ resolved' = [resolved EXCEPT ![cur] = d]
  <2>1. PICK d : d = Lookup(Name(cur), ScopeAround(cur), Candidates(cur))
    OBVIOUS
  <2>2. d # 0 /\ resolved' = [resolved EXCEPT ![cur] = d]
    BY <1>6, <2>1
  <2>3. Lexical(cur, d)
    <3>1. Candidates(cur) \subseteq DefinitionKinds
      BY DEF Candidates, DefinitionKinds
    <3> QED BY <1>1, <1>6, <2>1, <3>1, ResolvesLexically
  <2>4. \A n \in Node : resolved'[n] = IF n = cur THEN d ELSE resolved[n]
    BY <1>1, <2>2
  <2> HIDE DEF Lexical
  <2> QED BY <1>1, <1>3, <1>4, <2>3, <2>4
<1> QED BY <1>1, <1>5, <1>6 DEF ResolutionMoves

LEMMA LexicalUnchanged ==
  ASSUME LexicalInductive, UNCHANGED vars
  PROVE  TablesInv' /\ InOrder' /\ OnlyCurEnters' /\ LexicalResolution'
<1>1. /\ UNCHANGED <<prog, cur, pc, scopeOf, chain, defs, resolved>>
      /\ TablesInv /\ InOrder /\ OnlyCurEnters /\ LexicalResolution
  BY DEF vars, LexicalInductive
<1>2. /\ Node' = Node
      /\ \A n : /\ Path(n)' = Path(n) /\ Kind(n)' = Kind(n) /\ BlockAround(n)' = BlockAround(n)
                /\ Children(n)' = Children(n) /\ Past(n)' = Past(n) /\ Name(n)' = Name(n)
      /\ \A n, i : Child(n, i)' = Child(n, i)
      /\ \A e, n : StatedBefore(e, n)' <=> StatedBefore(e, n)
  BY <1>1, SameTree, SameBlocks DEF Past, PastAt
<1>3. TablesInv'
  BY <1>1, <1>2 DEF TablesInv, ScopesAreBlocks, ChainsAreGapless, DefinitionsAreHome, Declared
<1>4. InOrder' /\ OnlyCurEnters'
  BY <1>1, <1>2 DEF InOrder, OnlyCurEnters
<1>5. LexicalResolution'
  <2>1. \A n : /\ Name(resolved[n])' = Name(resolved[n]) /\ Kind(resolved[n])' = Kind(resolved[n])
               /\ BlockAround(resolved[n])' = BlockAround(resolved[n])
    BY <1>1 DEF Name, Kind, BlockAround, Path, Parent, Below
  <2> QED BY <1>1, <1>2, <2>1 DEF LexicalResolution
<1> QED BY <1>3, <1>4, <1>5

LEMMA LexicalInitially == Init => LexicalInductive
<1> SUFFICES ASSUME Init PROVE LexicalInductive
  OBVIOUS
<1>1. /\ prog \in Programs /\ WalkInductive /\ ScopesLeadOutwards
  BY WalkInitially, OutwardsInitially DEF WalkInductive, Inductive
<1>2. Node = 1 .. Len(prog) /\ 1 \in Node /\ Kind(1) = "root" /\ Path(1) \subseteq Node /\ 1 \in Path(1)
  BY <1>1, ProgramFacts, PathFacts
<1>3. \A n \in Node : /\ pc[n] = IF n = 1 THEN "children" ELSE "idle"
                      /\ scopeOf[n] = IF n = 1 THEN 1 ELSE 0
                      /\ chain[n] = IF n = 1 THEN {1} ELSE {}
                      /\ defs[n] = {} /\ resolved[n] = 0
  BY <1>2 DEF Init
<1>4. ScopesAreBlocks
  BY <1>2, <1>3 DEF ScopesAreBlocks, Openers
<1>5. ChainsAreGapless
  <2>1. \A b \in Path(1) : b = 1
    BY <1>2 DEF Path
  <2> QED BY <1>3, <2>1 DEF ChainsAreGapless
<1>6. DefinitionsAreHome /\ LexicalResolution
  BY <1>3 DEF DefinitionsAreHome, LexicalResolution
<1>7. Declared
  BY <1>2, <1>3 DEF Declared, Past, PastAt, DefinitionKinds, VariableKinds, FunctionKinds
<1>8. InOrder
  <2>1. \A n \in Node : \A i \in 1 .. Len(Children(n)) : Child(n, i) \in Node \ {1}
    BY <1>1, TreeFacts
  <2> QED BY <1>3, <2>1 DEF InOrder
<1>9. OnlyCurEnters
  BY <1>3 DEF OnlyCurEnters
<1> QED BY <1>1, <1>4, <1>5, <1>6, <1>7, <1>8, <1>9 DEF LexicalInductive, TablesInv

LEMMA LexicalPreserved == LexicalInductive /\ [Next]_vars => LexicalInductive'
<1> SUFFICES ASSUME LexicalInductive, [Next]_vars PROVE LexicalInductive'
  OBVIOUS
<1>1. WalkInductive' /\ StartsOnce /\ ScopesLeadOutwards'
  BY WalkPreserved, OutwardsPreserved DEF LexicalInductive, WalkInductive, ScopeInductive
<1>2. CASE Next
  <2>1. TablesMove
    BY <1>2, NextMoves
  <2> QED BY <1>1, <2>1, ScopesAfter, DefinitionsAfter, OrderAfter, ResolutionAfter
          DEF LexicalInductive, TablesInv
<1>3. CASE UNCHANGED vars
  BY <1>1, <1>3, LexicalUnchanged DEF LexicalInductive
<1> QED BY <1>2, <1>3

\* Resolution is lexical for every program, although scopes are tables that fill while
\* the tree is walked and the recursion rule walks parts of it ahead of turn.
THEOREM ResolutionIsLexical == Spec => []LexicalResolution
<1>1. LexicalInductive => LexicalResolution
  BY DEF LexicalInductive
<1> QED BY <1>1, LexicalInitially, LexicalPreserved, PTL DEF Spec
=============================================================================
