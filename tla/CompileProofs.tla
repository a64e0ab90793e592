---------------------------- MODULE CompileProofs ----------------------------
(***************************************************************************)
(* That the supported language compiles (SupportedProgramsCompile): what   *)
(* the generator returns for a node has the low type of the node's type,   *)
(* so no handler is given a null value or an operand of another type.      *)
(*                                                                         *)
(* The invariant joins the analyzer to the generator.  RulesInv says that  *)
(* the types the generator reads are still those the rules give, EntriesInv *)
(* what named_values_ holds for the binders around the walk, LoopEndsWait  *)
(* and OpenBlocks that code goes to blocks that have not ended, and        *)
(* ValuesAreRight and SlotsAreRight type what has been visited.  Every     *)
(* action of the generator then gives a value or goes on (Succeeds).       *)
(***************************************************************************)
EXTENDS CodegenProofs

-----------------------------------------------------------------------------
(* What handlers compute stays so                                          *)

\* The types that handlers compute of what is below their node, and what of it they read.
Ruled == {"binary_op", "unary_op", "list_op", "do_loop", "collect_loop", "variable_definition", "iterator_definition"}
RuleOf(n) ==
  CASE Kind(n) = "binary_op" -> BinaryOpType(n)
    [] Kind(n) = "unary_op" -> UnaryOpType(n)
    [] Kind(n) = "list_op" -> ListOpType(n)
    [] Kind(n) \in {"do_loop", "collect_loop"} -> LoopType(n)
    [] Kind(n) = "variable_definition" -> CopyOf(type[Child(n, 1)])
    [] OTHER -> IteratorType(n)
Read(n) ==
  IF Kind(n) = "binary_op" THEN {Child(n, 1), Child(n, 2)}
  ELSE IF Kind(n) = "do_loop" THEN {ReturnExpression(Child(n, 2))}
  ELSE IF Kind(n) = "collect_loop" THEN {ReturnExpression(Child(n, 1))} ELSE {Child(n, 1)}
RulesHold ==
  \A n \in Node : pc[n] = "done" =>
    /\ Kind(n) \in Ruled => type[n] = RuleOf(n) /\ RuleOf(n) \notin Failures
    /\ Kind(n) = "literal" => type[n] = prog[n].type

\* A variable has found a scope, and a body that of the construct it is the body of.
ScopesAreShared ==
  \A n \in Node : pc[n] \notin {"idle", "enter"} =>
    /\ Kind(n) = "variable_definition" => scopeOf[n] # 0
    /\ Kind(n) = "function_body" /\ Kind(Parent(n)) \in Openers => scopeOf[n] # 0

\* A variable does not stand in what it is resolved to.
ReferencesLookBack ==
  \A n \in Node : resolved[n] # 0 /\ Kind(n) # "function_call" => resolved[n] \notin Path(n)

RulesInv == RulesHold /\ ScopesAreShared /\ ReferencesLookBack

LEMMA ReadIsBelow ==
  ASSUME prog \in Programs, NEW n \in Node, Kind(n) \in Ruled, NEW m \in Read(n)
  PROVE  m \in Node /\ m # n /\ n \in Path(m) /\ ~Optional(m)
<1> USE DEF Ruled
<1>1. /\ \A i \in 1 .. Len(Children(n)) : Child(n, i) \in Node \ {1} /\ Parent(Child(n, i)) = n
      /\ Len(Children(n)) > 0 /\ Len(Children(n)) \in Nat
      /\ Kind(n) \in {"binary_op", "do_loop", "collect_loop"} => Len(Children(n)) = 2
  <2>1. \A i \in 1 .. Len(Children(n)) : Child(n, i) \in Node \ {1} /\ Parent(Child(n, i)) = n
    BY TreeFacts
  <2>2. Len(Children(n)) \in Nat
    BY ProgramFacts
  <2> QED BY <2>1, <2>2, ShapeFacts
<1>2. \A i \in 1 .. Len(Children(n)) : n \in Path(Child(n, i)) /\ Child(n, i) # n
  BY <1>1, PathFacts, ProgramFacts
<1>3. CASE Kind(n) \notin {"do_loop", "collect_loop"}
  <2>1. \E i \in 1 .. Len(Children(n)) : m = Child(n, i)
    BY <1>1, <1>3 DEF Read
  <2> QED BY <1>1, <1>2, <1>3, <2>1 DEF Optional
<1>4. CASE Kind(n) \in {"do_loop", "collect_loop"}
  <2> DEFINE b == IF Kind(n) = "do_loop" THEN Child(n, 2) ELSE Child(n, 1)
  <2>1. b \in Node \ {1} /\ Parent(b) = n /\ Kind(b) = "function_body" /\ n \in Path(b) /\ b # n
    BY <1>1, <1>2, <1>4, ShapeFacts
  <2>2. m = Child(b, Len(Children(b)))
    BY <1>4 DEF Read, ReturnExpression, LastChild
  <2>3. Len(Children(b)) \in Nat /\ Len(Children(b)) > 0
    BY <2>1, ShapeFacts, ProgramFacts
  <2> HIDE DEF b
  <2>4. m \in Node \ {1} /\ Parent(m) = b
    BY <2>1, <2>2, <2>3, TreeFacts
  <2>5. n \in Path(m) /\ m # n
    BY <2>1, <2>4, PathFacts, TreeOrder
  <2> QED BY <2>1, <2>4, <2>5 DEF Optional
<1> QED BY <1>3, <1>4

\* What a rule gives depends on the types it reads.
LEMMA RuleReads ==
  ASSUME prog' = prog, NEW n \in Node, Kind(n) \in Ruled, \A m \in Read(n) : type'[m] = type[m]
  PROVE  RuleOf(n)' = RuleOf(n)
<1> USE SameTree DEF Ruled
<1>1. /\ \A m : Kind(m)' = Kind(m) /\ ReturnExpression(m)' = ReturnExpression(m)
      /\ \A m, i : Child(m, i)' = Child(m, i)
      /\ prog'[n].op = prog[n].op
  BY DEF ReturnExpression, LastChild, Child, Children
<1>2. CASE Kind(n) = "binary_op"
  <2>1. type'[Child(n, 1)] = type[Child(n, 1)] /\ type'[Child(n, 2)] = type[Child(n, 2)]
    BY <1>2 DEF Read
  <2> QED BY <1>1, <1>2, <2>1 DEF RuleOf, BinaryOpType, ConsType
<1>3. CASE Kind(n) \in {"do_loop", "collect_loop"}
  BY <1>1, <1>3 DEF RuleOf, LoopType, Read
<1>4. CASE Kind(n) \in {"unary_op", "list_op", "variable_definition", "iterator_definition"}
  <2>1. type'[Child(n, 1)] = type[Child(n, 1)]
    BY <1>4 DEF Read
  <2> QED BY <1>1, <1>4, <2>1 DEF RuleOf, UnaryOpType, ListOpType, IteratorType
<1> QED BY <1>2, <1>3, <1>4

LEMMA Concluded ==
  ASSUME ResultInductive, Next, pc'[cur] = "done"
  PROVE  /\ Kind(cur) \in Ruled => type'[cur] = RuleOf(cur) /\ RuleOf(cur) \notin Failures
         /\ Kind(cur) = "literal" => type'[cur] = type[cur]
<1> USE DEF Ruled
<1>1. /\ pc \in [Node -> Progress] /\ type \in [Node -> MaybeType]
      /\ cur \in Node => (pc[cur] \in {"arguments", "branch"} => Kind(cur) = "function_call")
  BY DEF ResultInductive, LexicalInductive, WalkInductive, Inductive, TypeOK, Bookkeeping
<1>2. ASSUME cur \in Node, NEW r, Conclude(r), pc[cur] # "done"
      PROVE  r \notin Failures /\ type'[cur] = r
  BY <1>1, <1>2 DEF Conclude, Stop, Return
<1>3. CASE \/ VisitUnscoped \/ VisitFunctionBody \/ VisitScopedExpression \/ VisitLambda
           \/ VisitFunctionDefinition \/ VisitVariableDefinition
  <2>1. cur \in Node /\ GoOn("children")
    BY <1>3 DEF VisitUnscoped, VisitFunctionBody, VisitScopedExpression, VisitLambda, VisitFunctionDefinition,
                VisitVariableDefinition, Entering, Running, BeginChildren
  <2> QED BY <1>1, <2>1 DEF GoOn
<1>4. CASE RejectDefinition \/ RejectArgument \/ SkipVisitedChild
  <2>1. cur \in Node /\ pc[cur] # "done" /\ pc' = pc
    BY <1>4 DEF RejectDefinition, RejectArgument, SkipVisitedChild, Entering, Leaving, Running, Passing, Stop, MoreChildren
  <2> QED BY <2>1
<1>5. CASE VisitFormalOrExtern \/ LeaveIf \/ LeaveCallable \/ LeaveUntyped \/ ResolveVariable \/ VisitFunctionCall
  BY <1>5 DEF VisitFormalOrExtern, LeaveIf, LeaveCallable, LeaveUntyped, ResolveVariable, VisitFunctionCall,
              Entering, Leaving, Running, Callables
<1>6. CASE VisitLiteral
  BY <1>1, <1>6 DEF VisitLiteral, Entering, Running, Return
<1>7. CASE VisitChild \/ VisitArgument \/ VisitOtherBranch
  <2>1. cur \in Node /\ \E c, p : Accept(c, p) /\ p \in {"children", "arguments", "branch"}
    BY <1>7 DEF VisitChild, VisitArgument, VisitOtherBranch, MoreChildren, Passing, ArgumentsPassed
  <2> QED BY <1>1, <2>1 DEF Accept
<1>8. CASE LeaveOperator
  BY <1>2, <1>8 DEF LeaveOperator, Leaving, Running, RuleOf
<1>9. CASE LeaveLoop \/ LeaveVariableDefinition
  BY <1>2, <1>9 DEF LeaveLoop, LeaveVariableDefinition, Leaving, Running, RuleOf
<1>10. CASE LeaveIterator
  BY <1>1, <1>10 DEF LeaveIterator, Leaving, Running, RuleOf, Stop, Return
<1>11. CASE LeaveFunctionCall
  BY <1>1, <1>11 DEF LeaveFunctionCall, ArgumentsPassed, Passing, Running
<1> QED BY <1>3, <1>4, <1>5, <1>6, <1>7, <1>8, <1>9, <1>10, <1>11 DEF Next

LEMMA RulesAfter ==
  ASSUME ResultInductive, RulesHold, Next
  PROVE  RulesHold'
<1>1. ResultsMove /\ prog \in Programs /\ WalkInductive /\ TypesAreGiven
  BY NextResults DEF ResultInductive, LexicalInductive, WalkInductive, Inductive, ResultsInv
<1>2. /\ prog' = prog /\ cur \in Node /\ pc[cur] \notin {"idle", "done"}
      /\ \A n \in Node : pc[n] = "done" => type'[n] = type[n]
      /\ \A n \in Node \ {cur} : type'[n] = type[n] /\ (pc'[n] = pc[n] \/ pc'[n] = "enter")
  BY <1>1, OthersStay
<1>3. ASSUME NEW n \in Node, pc'[n] = "done"
      PROVE  /\ Kind(n) \in Ruled => type'[n] = RuleOf(n)' /\ RuleOf(n)' \notin Failures
             /\ Kind(n) = "literal" => type'[n] = prog[n].type
  <2>1. CASE n = cur
    <3>1. Kind(n) \in Ruled => RuleOf(n)' = RuleOf(n)
      BY <1>1, <1>2, <2>1, ReadIsBelow, RuleReads
    <3>2. Kind(n) = "literal" => type[n] = prog[n].type
      BY <1>1, <1>2, <2>1 DEF TypesAreGiven
    <3> QED BY <1>3, <2>1, <3>1, <3>2, Concluded
  <2>2. CASE n # cur
    <3>1. pc[n] = "done" /\ type'[n] = type[n]
      BY <1>2, <1>3, <2>2
    <3>2. \A m \in Read(n) : Kind(n) \in Ruled => type'[m] = type[m]
      BY <1>1, <1>2, <3>1, ReadIsBelow, DoneBelow
    <3>3. Kind(n) \in Ruled => RuleOf(n)' = RuleOf(n)
      BY <1>2, <3>2, RuleReads
    <3> QED BY <3>1, <3>3 DEF RulesHold
  <2> QED BY <2>1, <2>2
<1>4. Node' = Node /\ \A n : Kind(n)' = Kind(n)
  BY <1>2, SameTree
<1> QED BY <1>2, <1>3, <1>4 DEF RulesHold

\* Only a variable that comes to its start, and a body, share a scope.
LEMMA SharesScope ==
  ASSUME ResultInductive, Next, Kind(cur) \in {"variable_definition", "function_body"}
  PROVE  \/ scopeOf' = scopeOf /\ (pc[cur] = "enter" => pc'[cur] = "enter")
         \/ \E s : /\ scopeOf' = [scopeOf EXCEPT ![cur] = s]
                   /\ Kind(cur) = "variable_definition" => s # 0
                   /\ Kind(cur) = "function_body" => s = scopeOf[Parent(cur)]
<1>1. cur \in Node => (pc[cur] \in {"arguments", "branch"} => Kind(cur) = "function_call")
  BY DEF ResultInductive, LexicalInductive, WalkInductive, Inductive, TypeOK, Bookkeeping
<1>2. CASE VisitVariableDefinition
  BY <1>2 DEF VisitVariableDefinition, Declarable, Entering, Running
<1>3. CASE VisitFunctionBody
  BY <1>3 DEF VisitFunctionBody, Entering, Running
<1>4. CASE RejectDefinition \/ RejectArgument \/ SkipVisitedChild
  BY <1>4 DEF RejectDefinition, RejectArgument, SkipVisitedChild, MoreChildren, Passing, Stop, tables
<1>5. CASE VisitChild \/ LeaveVariableDefinition \/ LeaveUntyped
  <2>1. scopeOf' = scopeOf /\ pc[cur] = "children"
    BY <1>5, ReturnsAndStops DEF VisitChild, MoreChildren, LeaveVariableDefinition, LeaveUntyped, Leaving, Running, tables
  <2> QED BY <2>1
<1>6. CASE VisitArgument \/ VisitOtherBranch \/ LeaveFunctionCall
  BY <1>1, <1>6 DEF VisitArgument, VisitOtherBranch, LeaveFunctionCall, ArgumentsPassed, Passing, Running
<1>7. CASE \/ VisitUnscoped \/ VisitScopedExpression \/ VisitLambda \/ VisitFunctionDefinition
           \/ VisitFormalOrExtern \/ VisitLiteral \/ VisitFunctionCall
  BY <1>7 DEF VisitUnscoped, VisitScopedExpression, VisitLambda, VisitFunctionDefinition, VisitFormalOrExtern,
              VisitLiteral, VisitFunctionCall, Entering, Running, Unscoped, ScopedExpressions
<1>8. CASE LeaveOperator \/ LeaveIf \/ LeaveCallable \/ LeaveLoop \/ LeaveIterator \/ ResolveVariable
  BY <1>8 DEF LeaveOperator, LeaveIf, LeaveCallable, LeaveLoop, LeaveIterator, ResolveVariable,
              Leaving, Entering, Running, Callables
<1> QED BY <1>2, <1>3, <1>4, <1>5, <1>6, <1>7, <1>8 DEF Next

LEMMA SharedAfter ==
  ASSUME ResultInductive, ScopesAreShared, Next
  PROVE  ScopesAreShared'
<1>1. /\ ResultsMove /\ TablesMove /\ prog \in Programs /\ WalkInductive /\ ScopesAreBlocks /\ OnlyCurEnters
      /\ scopeOf \in [Node -> MaybeNode]
  BY NextResults DEF ResultInductive, LexicalInductive, WalkInductive, Inductive, ResultsMove, TablesInv, TypeOK
<1>2. /\ prog' = prog /\ cur \in Node /\ Active(cur)
      /\ \A n \in Node \ {cur} : pc'[n] = pc[n] \/ pc'[n] = "enter"
  BY <1>1, OthersStay DEF TablesMove
<1>3. \A n \in Node \ {cur} : scopeOf'[n] = scopeOf[n]
  BY <1>1 DEF TablesMove, ScopesMove, OpenScope
<1> DEFINE Shared(n) == /\ Kind(n) = "variable_definition" => scopeOf'[n] # 0
                        /\ Kind(n) = "function_body" /\ Kind(Parent(n)) \in Openers => scopeOf'[n] # 0
<1>4. ASSUME NEW n \in Node, pc'[n] \notin {"idle", "enter"}
      PROVE  Shared(n)
  <2>1. CASE n # cur
    BY <1>2, <1>3, <1>4, <2>1 DEF ScopesAreShared
  <2>2. CASE n = cur /\ Kind(n) \in {"variable_definition", "function_body"}
    <3>1. CASE scopeOf' = scopeOf /\ (pc[cur] = "enter" => pc'[cur] = "enter")
      BY <1>2, <1>4, <2>2, <3>1 DEF ScopesAreShared, Active
    <3>2. CASE \E s : /\ scopeOf' = [scopeOf EXCEPT ![cur] = s]
                      /\ Kind(cur) = "variable_definition" => s # 0
                      /\ Kind(cur) = "function_body" => s = scopeOf[Parent(cur)]
      <4>1. ASSUME Kind(n) = "function_body", Kind(Parent(n)) \in Openers
            PROVE  scopeOf[Parent(n)] # 0
        <5>1. n # 1 /\ Parent(n) \in Node /\ Parent(n) \in Path(n) /\ Parent(n) # n
          BY <1>1, <4>1, ProgramFacts, TreeOrder, PathFacts
        <5>2. pc[Parent(n)] \notin {"idle", "enter"}
          BY <1>1, <1>2, <2>2, <5>1 DEF WalkInductive, StackInv, Active, OnlyCurEnters
        <5>3. Parent(n) # 0
          BY <1>1, <5>1, ProgramFacts
        <5> QED BY <1>1, <4>1, <5>1, <5>2, <5>3 DEF ScopesAreBlocks
      <4> QED BY <1>1, <1>2, <2>2, <3>2, <4>1
    <3> QED BY <2>2, <3>1, <3>2, SharesScope
  <2> QED BY <2>1, <2>2
<1>5. Node' = Node /\ \A n : Kind(n)' = Kind(n) /\ Parent(n)' = Parent(n)
  BY <1>2, SameTree
<1> QED BY <1>4, <1>5 DEF ScopesAreShared

LEMMA LookBackAfter ==
  ASSUME ResultInductive, ReferencesLookBack, Next
  PROVE  ReferencesLookBack'
<1>1. /\ ResultsMove /\ LexicalInductive /\ prog \in Programs /\ WalkInductive /\ Inductive
      /\ resolved \in [Node -> MaybeNode]
  BY NextResults DEF ResultInductive, LexicalInductive, WalkInductive, Inductive, TypeOK
<1>2. /\ prog' = prog /\ cur \in Node /\ Active(cur)
      /\ \A n \in Node \ {cur} : resolved'[n] = resolved[n]
  BY <1>1, OthersStay DEF ResultsMove, TablesMove
<1>3. ASSUME Kind(cur) # "function_call", resolved'[cur] # 0
      PROVE  resolved'[cur] \notin Path(cur)
  <2>1. CASE resolved'[cur] = resolved[cur]
    BY <1>2, <1>3, <2>1 DEF ReferencesLookBack
  <2>2. CASE resolved'[cur] # resolved[cur]
    <3>1. Kind(cur) \in {"variable", "set_expression"} /\ pc'[cur] = "done"
      BY <1>1, <1>3, <2>2 DEF ResultsMove, ReferencesMove, References
    <3> DEFINE d == Lookup(Name(cur), ScopeAround(cur), VariableKinds)
    <3>2. d # 0 /\ type[d] # Null /\ resolved' = [resolved EXCEPT ![cur] = d]
      BY <1>1, <3>1 DEF ResultsMove, ReturnsFound, Found
    <3>3. d \in Node /\ Kind(d) \in VariableKinds /\ d \in defs[BlockAround(d)]
      BY <1>1, <1>2, <3>1, <3>2, ResolvesLexically DEF Openers, Callables, ScopedExpressions, VariableKinds, DefinitionKinds
    <3>4. pc[d] = "done"
      BY <3>2, <3>3, TypedIsDone DEF DefinitionKinds
    <3>5. d \notin Path(cur)
      BY <1>1, <1>2, <3>4 DEF WalkInductive, StackInv, Active
    <3> QED BY <1>1, <1>2, <3>2, <3>5
  <2> QED BY <2>1, <2>2
<1>4. Node' = Node /\ \A n : Kind(n)' = Kind(n) /\ Path(n)' = Path(n)
  BY <1>2, SameTree
<1>5. ASSUME NEW n \in Node, resolved'[n] # 0, Kind(n) # "function_call"
      PROVE  resolved'[n] \notin Path(n)
  BY <1>2, <1>3, <1>5 DEF ReferencesLookBack
<1> QED BY <1>4, <1>5 DEF ReferencesLookBack

LEMMA RulesInitially == Init => RulesInv
<1> SUFFICES ASSUME Init PROVE RulesInv
  OBVIOUS
<1>1. prog \in Programs /\ Node = DOMAIN prog
  BY DEF Init, Node
<1>2. \A n \in Node : /\ pc[n] = (IF n = 1 THEN "children" ELSE "idle") /\ resolved[n] = 0
                      /\ Kind(n) = "root" <=> n = 1
  BY <1>1, ProgramFacts DEF Init
<1> QED BY <1>2 DEF RulesInv, RulesHold, ScopesAreShared, ReferencesLookBack

LEMMA RulesUnchanged ==
  ASSUME RulesInv, UNCHANGED vars
  PROVE  RulesInv'
<1>1. /\ prog' = prog /\ pc' = pc /\ type' = type /\ scopeOf' = scopeOf /\ resolved' = resolved
  BY DEF vars
<1>2. /\ Node' = Node
      /\ \A n : Kind(n)' = Kind(n) /\ Parent(n)' = Parent(n) /\ Path(n)' = Path(n)
  BY <1>1, SameTree
<1>3. \A n \in Node : Kind(n) \in Ruled => RuleOf(n)' = RuleOf(n)
  BY <1>1, RuleReads
<1>4. RulesHold'
  BY <1>1, <1>2, <1>3 DEF RulesInv, RulesHold
<1>5. ScopesAreShared'
  BY <1>1, <1>2 DEF RulesInv, ScopesAreShared
<1>6. ReferencesLookBack'
  BY <1>1, <1>2 DEF RulesInv, ReferencesLookBack
<1> QED BY <1>4, <1>5, <1>6 DEF RulesInv

LEMMA RulesPreserved ==
  ASSUME ResultInductive, RulesInv, [Next]_vars
  PROVE  RulesInv'
<1>1. CASE Next
  BY <1>1, RulesAfter, SharedAfter, LookBackAfter DEF RulesInv
<1> QED BY <1>1, RulesUnchanged

-----------------------------------------------------------------------------
(* What is bound to names                                                  *)

\* An entry of named_values_ has the type of the formal or the iterator it is of.
EntryRight(v) == v # NullValue => v.ty = LowType(type[v.def])
EntriesAreRight ==
  /\ \A x \in DOMAIN named : EntryRight(named[x])
  /\ \A l \in Node : EntryRight(keptValue[l])

\* What the binders above the walk bind has a value, and will have one when the loops
\* further in are closed.
Bound(x) == x \in DOMAIN named /\ named[x] # NullValue
BoundAreThere ==
  /\ \A k \in Binders : \A x : Binds(k, x) => Bound(x)
  /\ \A l \in Path(gcur) : Kind(l) \in Loops /\ step[l] # 0 =>
       \A k \in BindersAbove(l) : Binds(k, Name(IteratorOf(l))) => keptValue[l] # NullValue

\* A name is there because something of that name has been mapped.
Maps(e, x) ==
  /\ Mapped(e) /\ Name(e) = x /\ step[Parent(e)] # 0
  /\ Kind(e) = "iterator_definition" => Iterates(Parent(e))
NamedAreMapped == \A x \in DOMAIN named : \E e \in Node : Maps(e, x)

EntriesInv == EntriesAreRight /\ BoundAreThere /\ NamedAreMapped

\* What MapFormals maps.
FormalsNamed(g, x) == {d \in Node : Kind(d) = "formal" /\ Parent(d) = g /\ Name(d) = x}
EntryOfFormal(d, g) == [ty |-> LowType(type[d]), def |-> d, fn |-> g]
NamesFormals(g) ==
  /\ \A x : x \in DOMAIN named' <=> x \in DOMAIN named \/ FormalsNamed(g, x) # {}
  /\ \A x \in DOMAIN named' :
       \/ x \in DOMAIN named /\ named'[x] = named[x] /\ FormalsNamed(g, x) = {}
       \/ \E d \in FormalsNamed(g, x) : named'[x] = EntryOfFormal(d, g)

LEMMA MapFormalsMaps ==
  ASSUME prog \in Programs, NEW g \in Node, g = gcur, Kind(g) \in Callables, MapFormals(gcur)
  PROVE  NamesFormals(g)
<1>1. PICK formals : formals = {d \in Node : Kind(d) = "formal" /\ Parent(d) = g}
  OBVIOUS
<1>2. formals = {FormalsOf(g)[i] : i \in 1 .. FormalCount(g)}
  BY <1>1, FormalsAreMapped
<1>3. PICK args : args = [x \in {Name(d) : d \in formals} |->
                            [ty |-> LowType(type[CHOOSE d \in formals : Name(d) = x]),
                             def |-> CHOOSE d \in formals : Name(d) = x, fn |-> g]]
  OBVIOUS
<1>4. named' = Onto(args, named)
  BY <1>2, <1>3 DEF MapFormals
<1>5. /\ DOMAIN named' = DOMAIN args \cup DOMAIN named
      /\ \A x \in DOMAIN named' : named'[x] = IF x \in DOMAIN args THEN args[x] ELSE named[x]
  BY <1>4 DEF Onto
<1>6. DOMAIN args = {Name(d) : d \in formals}
  BY <1>3
<1>7. ASSUME NEW x \in DOMAIN args
      PROVE  \E d \in FormalsNamed(g, x) : args[x] = EntryOfFormal(d, g)
  <2>1. PICK d : d = CHOOSE e \in formals : Name(e) = x
    OBVIOUS
  <2>2. d \in formals /\ Name(d) = x
    BY <1>6, <1>7, <2>1
  <2>3. args[x] = EntryOfFormal(d, g)
    BY <1>3, <1>6, <1>7, <2>1 DEF EntryOfFormal
  <2> QED BY <1>1, <2>2, <2>3 DEF FormalsNamed
<1>8. \A x : x \in DOMAIN args <=> FormalsNamed(g, x) # {}
  BY <1>1, <1>6 DEF FormalsNamed
<1> QED BY <1>5, <1>7, <1>8 DEF NamesFormals

LEMMA EntriesAfter ==
  ASSUME prog \in Programs, WalkInv, BlocksAreTheirs, EntriesAreRight, keptValue \in [Node -> Value], prog' = prog,
         type' = type, NameMoves
  PROVE  EntriesAreRight'
<1>0. \A t : LowType(t)' = LowType(t)
  BY DEF LowType, IsList, Id, Subtype, Scalar, Null
<1>1. gcur \in Node /\ Node' = Node /\ \A v : EntryRight(v)' <=> EntryRight(v)
  <2>1. gcur \in Node /\ Node' = Node
    BY SameTree DEF WalkInv
  <2>2. \A v : EntryRight(v)' <=> EntryRight(v)
    BY <1>0 DEF EntryRight, NullValue, Failed
  <2> QED BY <2>1, <2>2
<1>2. CASE KeepsNames
  BY <1>1, <1>2 DEF KeepsNames, EntriesAreRight
<1>3. CASE LoopOpens
  <2>1. EntryRight(EntryOf(Name(IteratorOf(gcur))))
    BY DEF EntriesAreRight, EntryOf, EntryRight
  <2> QED BY <1>1, <1>3, <2>1 DEF LoopOpens, EntriesAreRight
<1>4. CASE FunctionOpens /\ MapFormals(gcur) /\ UNCHANGED keptValue
  <2>1. PICK g \in Node : g = gcur /\ Kind(g) \in Callables
    BY <1>1, <1>4 DEF FunctionOpens
  <2>2. \A x \in DOMAIN named' : EntryRight(named'[x])
    <3>1. NamesFormals(g)
      BY <1>4, <2>1, MapFormalsMaps
    <3>2. \A d : EntryRight(EntryOfFormal(d, g))
      BY DEF EntryRight, EntryOfFormal
    <3> QED BY <3>1, <3>2 DEF NamesFormals, EntriesAreRight
  <2> QED BY <1>1, <1>4, <2>2 DEF EntriesAreRight
<1>5. ASSUME NEW x0, NEW v0, EntryRight(v0), named' = Bind(x0, v0), UNCHANGED keptValue
      PROVE  EntriesAreRight'
  <2>1. \A x \in DOMAIN named' : named'[x] = v0 \/ (x \in DOMAIN named /\ named'[x] = named[x])
    BY <1>5 DEF Bind, Onto
  <2> QED BY <1>1, <1>5, <2>1 DEF EntriesAreRight
<1>6. CASE IterationBegins /\ UNCHANGED keptValue
             /\ named' = Bind(Name(IteratorOf(gcur)), Of(LowType(type[IteratorOf(gcur)]), IteratorOf(gcur)))
  <2>1. EntryRight(Of(LowType(type[IteratorOf(gcur)]), IteratorOf(gcur)))
    BY DEF EntryRight, Of
  <2> QED BY <1>5, <1>6, <2>1
<1>7. CASE LoopCloses /\ named' = Bind(Name(IteratorOf(gcur)), keptValue[gcur]) /\ UNCHANGED keptValue
  BY <1>1, <1>5, <1>7 DEF EntriesAreRight
<1> QED BY <1>2, <1>3, <1>4, <1>6, <1>7 DEF NameMoves, Renames

\* The entry of a formal, and of an iterator, is not null.
LEMMA EntriesAreNotNull ==
  ASSUME prog \in Programs
  PROVE  /\ \A ty, fn : \A d \in Node : [ty |-> ty, def |-> d, fn |-> fn] # NullValue
         /\ \A ty : \A d \in Node : Of(ty, d) # NullValue
<1>1. \A d \in Node : d # 0
  BY ProgramFacts
<1>2. NullValue.def = 0
  BY DEF NullValue, Failed
<1> QED BY <1>1, <1>2 DEF Of

LEMMA BoundAfter ==
  ASSUME prog \in Programs, WalkInv, BoundAreThere, keptValue \in [Node -> Value], prog' = prog, NameMoves
  PROVE  BoundAreThere'
<1>1. PICK g \in Node : g = gcur
  BY DEF WalkInv
<1>2. /\ Node' = Node /\ NullValue' = NullValue
      /\ \A n : Kind(n)' = Kind(n) /\ Name(n)' = Name(n) /\ IteratorOf(n)' = IteratorOf(n)
                /\ Path(n)' = Path(n) /\ BindersAbove(n)' = BindersAbove(n)
      /\ \A k, x : Binds(k, x)' <=> Binds(k, x)
  BY SameTree, SameOperands, SameNames DEF Name, Path, NullValue, Failed
<1>3. CASE Stays /\ KeepsNames
  <2>1. Binders' = Binders
    BY <1>2, <1>3 DEF Stays, Binders, Defines, Iterates
  <2> QED BY <1>2, <1>3, <2>1 DEF BoundAreThere, Bound, Stays, KeepsNames
<1>4. CASE Turns
  <2>1. /\ Binders' = IF FunctionOpens \/ IterationBegins THEN Binders \cup {gcur} ELSE Binders \ {gcur}
        /\ Binders \ {gcur} = BindersAbove(gcur)
    BY <1>4, BindersAfter, BindersHere
  <2>2. /\ \A n \in Node \ {gcur} : step'[n] = step[n]
        /\ \A n \in Path(gcur') : n \in Path(gcur) \/ (step'[n] = 0 /\ step[n] = 0)
        /\ Path(gcur') \subseteq Node
    BY <1>4, TurnFacts
  <2>3. g \in Path(gcur)
    BY <1>1, PathFacts
  \* What the binders above bind is bound after the turn.
  <2>4. ASSUME NEW k \in Binders', NEW x, Binds(k, x)
        PROVE  x \in DOMAIN named' /\ named'[x] # NullValue
    <3>1. k \in Binders => Bound(x)
      BY <2>4 DEF BoundAreThere
    <3>2. ASSUME NEW x0, NEW v0, named' = Bind(x0, v0), x = x0 => v0 # NullValue, x # x0 => Bound(x)
          PROVE  x \in DOMAIN named' /\ named'[x] # NullValue
      <4>1. /\ DOMAIN named' = DOMAIN named \cup {x0}
            /\ \A y \in DOMAIN named' : named'[y] = IF y = x0 THEN v0 ELSE named[y]
        BY <3>2 DEF Bind, Onto
      <4> QED BY <3>2, <4>1 DEF Bound
    <3>3. CASE named' = named /\ ~FunctionOpens /\ ~IterationBegins
      BY <2>1, <2>4, <3>1, <3>3 DEF Bound
    <3>4. CASE FunctionOpens /\ MapFormals(gcur)
      <4>1. Kind(g) \in Callables /\ Kind(g) \notin Loops
        BY <1>1, <3>4 DEF FunctionOpens, Callables, Loops
      <4>2. NamesFormals(g)
        BY <1>1, <3>4, <4>1, MapFormalsMaps
      <4>3. CASE FormalsNamed(g, x) # {}
        BY <4>2, <4>3, EntriesAreNotNull DEF NamesFormals, EntryOfFormal, FormalsNamed
      <4>4. CASE FormalsNamed(g, x) = {}
        <5>1. k \in Binders
          BY <1>1, <2>1, <2>4, <4>1, <4>4 DEF Binds, FormalsNamed
        <5> QED BY <3>1, <4>2, <4>4, <5>1 DEF Bound, NamesFormals
      <4> QED BY <4>3, <4>4
    <3>5. CASE IterationBegins /\ named' = Bind(Name(IteratorOf(gcur)), Of(LowType(type[IteratorOf(gcur)]), IteratorOf(gcur)))
      <4>1. Kind(g) \in Loops /\ Kind(g) \notin Callables
        BY <1>1, <3>5 DEF IterationBegins, Callables, Loops
      <4>2. IteratorOf(g) \in Node
        BY <4>1, LoopShape
      <4>3. x # Name(IteratorOf(g)) => k \in Binders
        BY <1>1, <2>1, <2>4, <4>1 DEF Binds
      <4> QED BY <1>1, <3>1, <3>2, <3>5, <4>2, <4>3, EntriesAreNotNull
    <3>6. CASE LoopCloses /\ named' = Bind(Name(IteratorOf(gcur)), keptValue[gcur])
      <4>1. Kind(g) \in Loops /\ step[g] # 0 /\ ~FunctionOpens /\ ~IterationBegins
        BY <1>1, <3>6 DEF LoopCloses, FunctionOpens, IterationBegins, Loops, Callables
      <4>2. k \in Binders /\ k \in BindersAbove(g)
        BY <1>1, <2>1, <2>4, <4>1
      <4>3. x = Name(IteratorOf(g)) => keptValue[g] # NullValue
        BY <1>1, <2>3, <2>4, <4>1, <4>2 DEF BoundAreThere
      <4> QED BY <1>1, <3>1, <3>2, <3>6, <4>2, <4>3
    <3>7. LoopOpens => named' = named /\ ~FunctionOpens /\ ~IterationBegins
      BY DEF LoopOpens, FunctionOpens, IterationBegins, Loops, Callables
    <3>8. Stays => ~FunctionOpens /\ ~IterationBegins
      <4>1. ASSUME Stays, \E i : Descend(i) PROVE FALSE
        BY <4>1, OperandIsNew DEF Stays
      <4> QED BY <4>1 DEF FunctionOpens, IterationBegins
    <3>9. Kind(gcur) \notin Loops => ~IterationBegins
      BY DEF IterationBegins
    <3> QED BY <3>3, <3>4, <3>5, <3>6, <3>7, <3>8, <3>9 DEF NameMoves, Renames, KeepsNames
  <2>5. ASSUME NEW l \in Path(gcur'), Kind(l) \in Loops, step'[l] # 0,
               NEW k \in BindersAbove(l), Binds(k, Name(IteratorOf(l)))
        PROVE  keptValue'[l] # NullValue
    <3>1. l \in Node /\ l \in Path(gcur)
      BY <2>2, <2>5
    <3>2. CASE LoopOpens /\ l = g
      <4>1. k \in Binders
        BY <1>1, <2>1, <2>5, <3>2
      <4>2. Bound(Name(IteratorOf(g)))
        BY <2>5, <3>2, <4>1 DEF BoundAreThere
      <4> QED BY <1>1, <3>2, <4>2 DEF LoopOpens, EntryOf, Bound
    <3>3. CASE ~(LoopOpens /\ l = g)
      <4>1. keptValue'[l] = keptValue[l]
        BY <1>1, <1>4, <3>1, <3>3 DEF NameMoves, Renames, KeepsNames, LoopOpens
      <4>2. step[l] # 0
        BY <1>1, <1>4, <2>2, <2>5, <3>1, <3>3
           DEF NameMoves, Renames, Loops, Callables, FunctionOpens, IterationBegins, LoopCloses, Stays
      <4> QED BY <2>5, <3>1, <4>1, <4>2 DEF BoundAreThere
    <3> QED BY <3>2, <3>3
  <2>6. \A k \in Binders' : \A x : Binds(k, x)' => Bound(x)'
    BY <1>2, <2>4 DEF Bound
  <2> HIDE <1>4
  <2> QED BY <1>2, <2>5, <2>6 DEF BoundAreThere
<1> QED BY <1>3, <1>4 DEF NameMoves

LEMMA MappedAfter ==
  ASSUME prog \in Programs, WalkInv, NamedAreMapped, prog' = prog, NameMoves
  PROVE  NamedAreMapped'
<1>1. PICK g \in Node : g = gcur
  BY DEF WalkInv
<1>2. /\ Node' = Node
      /\ \A n : Kind(n)' = Kind(n) /\ Name(n)' = Name(n) /\ Parent(n)' = Parent(n) /\ Mapped(n)' = Mapped(n)
  BY SameTree, SameNames DEF Name
<1>3. ASSUME NEW e \in Node, NEW x, Maps(e, x)
      PROVE  Maps(e, x)'
  <2>1. e # 1 /\ Parent(e) \in Node
    BY <1>3, ProgramFacts DEF Maps, Mapped
  <2>2. step'[Parent(e)] # 0
    BY <1>3, <2>1, StepsStay DEF Maps, NameMoves
  <2>3. Iterates(Parent(e)) => Iterates(Parent(e))'
    <3>1. CASE Stays
      BY <1>2, <3>1 DEF Stays, Iterates
    <3>2. CASE Turns
      <4>0. PICK p \in Node : p = Parent(e) /\ Parent(e)' = p
        BY <1>2, <2>1
      <4>1. Iterates(p) => LabelsOf(p) # {}
        BY DEF Iterates, LabelsOf, Forks, Loops
      <4>2. p # gcur \/ ~Creates => Iterates(p)' = Iterates(p)
        BY <3>2, LabelsAfter
      <4>3. p = gcur /\ Creates => LabelsOf(p) = {}
        BY <3>2, LabelsAfter
      <4>4. Iterates(p) => Iterates(p)'
        BY <4>1, <4>2, <4>3
      <4> QED BY <4>0, <4>4 DEF Iterates, Kind
    <3> QED BY <3>1, <3>2 DEF NameMoves
  <2> QED BY <1>2, <1>3, <2>2, <2>3 DEF Maps
<1>4. ASSUME NEW x \in DOMAIN named' PROVE \E e \in Node : Maps(e, x)'
  <2>1. CASE x \in DOMAIN named
    BY <1>3, <2>1 DEF NamedAreMapped
  <2>2. CASE x \notin DOMAIN named
    <3>1. CASE FunctionOpens /\ MapFormals(gcur)
      <4>1. Kind(g) \in Callables /\ step'[g] # 0
        BY <1>1, <3>1 DEF FunctionOpens, Descend, WalkInv
      <4>2. PICK e \in Node : Kind(e) = "formal" /\ Parent(e) = g /\ Name(e) = x
        <5>1. NamesFormals(g)
          BY <1>1, <3>1, <4>1, MapFormalsMaps
        <5> QED BY <1>4, <2>2, <5>1 DEF NamesFormals, FormalsNamed
      <4> QED BY <1>2, <4>1, <4>2 DEF Maps, Mapped
    <3>2. CASE IterationBegins /\ named' = Bind(Name(IteratorOf(gcur)), Of(LowType(type[IteratorOf(gcur)]), IteratorOf(gcur)))
      <4>1. x = Name(IteratorOf(g)) /\ Kind(g) \in Loops /\ step'[g] = 2
        BY <1>1, <1>4, <2>2, <3>2 DEF Bind, Onto, IterationBegins, Descend, WalkInv
      <4>2. IteratorOf(g) \in Node /\ Parent(IteratorOf(g)) = g /\ Kind(IteratorOf(g)) = "iterator_definition"
        BY <4>1, LoopShape
      <4> QED BY <1>2, <4>1, <4>2 DEF Maps, Mapped, Iterates
    <3>3. CASE LoopCloses /\ named' = Bind(Name(IteratorOf(gcur)), keptValue[gcur])
      <4>1. x = Name(IteratorOf(g)) /\ Kind(g) \in Loops /\ step[g] = 2 /\ step' = step
        BY <1>1, <1>4, <2>2, <3>3 DEF Bind, Onto, LoopCloses, Ascend
      <4>2. IteratorOf(g) \in Node /\ Parent(IteratorOf(g)) = g /\ Kind(IteratorOf(g)) = "iterator_definition"
        BY <4>1, LoopShape
      <4> QED BY <1>2, <4>1, <4>2 DEF Maps, Mapped, Iterates
    <3> QED BY <1>4, <2>2, <3>1, <3>2, <3>3 DEF NameMoves, Renames, KeepsNames, LoopOpens
  <2> QED BY <2>1, <2>2
<1> QED BY <1>2, <1>4 DEF NamedAreMapped

-----------------------------------------------------------------------------
(* Before the generator begins                                             *)

NothingYet ==
  /\ gcur = 1 /\ step = [n \in Node |-> 0] /\ named = <<>> /\ maps = {} /\ ip = NoBlock /\ blocks = <<>>
  /\ keptValue = [n \in Node |-> NullValue] /\ keptBlock = [n \in Node |-> NoBlock] /\ faults = {} /\ result = "generating"
Fresh == status # "accepted" => NothingYet

LEMMA AnalyzerRuns ==
  ASSUME Next
  PROVE  status = "running"
BY DEF Next, VisitUnscoped, VisitFunctionBody, VisitScopedExpression, VisitLambda, RejectDefinition,
       VisitFormalOrExtern, VisitFunctionDefinition, VisitVariableDefinition, VisitLiteral, VisitChild, SkipVisitedChild,
       LeaveOperator, LeaveIf, LeaveCallable, LeaveLoop, LeaveVariableDefinition, LeaveUntyped, LeaveIterator,
       ResolveVariable, VisitFunctionCall, RejectArgument, VisitArgument, VisitOtherBranch, LeaveFunctionCall,
       Entering, Leaving, Running, MoreChildren, Passing, ArgumentsPassed

LEMMA NothingIsNamed == prog \in Programs /\ NothingYet => EntriesInv
<1> SUFFICES ASSUME prog \in Programs, NothingYet PROVE EntriesInv
  OBVIOUS
<1>1. DOMAIN named = {} /\ \A n \in Node : step[n] = 0 /\ keptValue[n] = NullValue
  BY DEF NothingYet
<1>2. Path(gcur) \subseteq Node
  BY ProgramFacts, PathFacts DEF NothingYet
<1> QED BY <1>1, <1>2 DEF EntriesInv, EntriesAreRight, EntryRight, BoundAreThere, Binders, Defines, Iterates, NamedAreMapped

LEMMA StaysNothing ==
  ASSUME prog' = prog, NothingYet, UNCHANGED gvars
  PROVE  NothingYet'
<1>1. Node' = Node /\ NullValue' = NullValue /\ NoBlock' = NoBlock
  BY SameTree DEF NullValue, Failed, NoBlock
<1> QED BY <1>1 DEF NothingYet, gvars, lookups, code, kept

LEMMA FreshAfter ==
  ASSUME GeneratorInductive, Fresh, [CompilerNext]_<<vars, gvars>>
  PROVE  Fresh'
<1>1. prog' = prog
  BY PhiPreserved
<1>2. CASE Next /\ UNCHANGED gvars
  BY <1>1, <1>2, AnalyzerRuns, StaysNothing DEF Fresh
<1>3. CASE UNCHANGED <<vars, gvars>>
  <2>1. status' = status /\ UNCHANGED gvars
    BY <1>3 DEF vars
  <2> QED BY <1>1, <2>1, StaysNothing DEF Fresh
<1>4. CASE status = "accepted" /\ UNCHANGED vars
  BY <1>4 DEF Fresh, vars
<1> QED BY <1>2, <1>3, <1>4 DEF CompilerNext

\* A step that leaves the generator alone is one in which nothing happens to the code.
LEMMA UnchangedStays ==
  ASSUME EndsAtTheRoot, UNCHANGED gvars
  PROVE  Stays /\ KeepsNames
BY DEF EndsAtTheRoot, gvars, lookups, code, kept, Stays, Quietly, KeepsNames

LEMMA EntriesPreserved ==
  ASSUME GeneratorInductive, ValuesInv, EndsAtTheRoot, Fresh, EntriesInv, [CompilerNext]_<<vars, gvars>>
  PROVE  EntriesInv'
<1>1. prog' = prog /\ prog \in Programs /\ WalkInv /\ BlocksAreTheirs
  BY PhiPreserved DEF GeneratorInductive, PhiInductive
<1>2. CASE Next /\ UNCHANGED gvars
  <2>1. NothingYet'
    BY <1>1, <1>2, AnalyzerRuns, StaysNothing DEF Fresh
  <2>2. (prog \in Programs)'
    BY <1>1
  <2>3. (prog \in Programs)' /\ NothingYet' => EntriesInv'
    BY NothingIsNamed, PTL
  <2> QED BY <2>1, <2>2, <2>3
<1>3. CASE UNCHANGED <<vars, gvars>>
  <2>1. NameMoves /\ type' = type /\ keptValue \in [Node -> Value]
    BY <1>3, UnchangedStays DEF vars, NameMoves, ValuesInv
  <2> QED BY <1>1, <2>1, EntriesAfter, BoundAfter, MappedAfter DEF EntriesInv
<1>4. CASE status = "accepted" /\ Generate /\ UNCHANGED vars
  <2>1. NameMoves /\ type' = type /\ keptValue \in [Node -> Value]
    BY <1>1, <1>4, GenerateNames DEF vars, ValuesInv
  <2> QED BY <1>1, <2>1, EntriesAfter, BoundAfter, MappedAfter DEF EntriesInv
<1> QED BY <1>2, <1>3, <1>4 DEF CompilerNext

-----------------------------------------------------------------------------
(* Places                                                                  *)

LambdasAreInside == \A x \in Node : Kind(x) = "lambda" => CallableAround(Handler(x)) # 0

\* In a program that is supported everything but externs is in a function.
LEMMA Inside ==
  ASSUME prog \in Programs, Supported, NEW n \in Node \ {1}, Kind(n) \notin {"extern_function", "formal"}
  PROVE  CallableAround(n) # 0
<1>1. n \in Path(n) /\ 1 \in Path(n) /\ 1 \in Node /\ \A a \in Path(n) : a \in Node
  <2>1. 1 \in Path(n)
    BY TreeOrder, ProgramsAssumption DEF Path, WellFormed
  <2>2. n \in Path(n) /\ Path(n) \subseteq Node
    BY PathFacts
  <2> QED BY <2>1, <2>2, ProgramFacts
<1>2. PICK c \in Path(n) : c \in Node \ {1} /\ Parent(c) = 1
  BY <1>1, ChildOnPath
<1>3. Kind(c) \in FunctionKinds
  BY <1>2 DEF Supported, SupportedDefinition
<1>4. CASE Kind(c) = "function_definition"
  BY <1>1, <1>2, <1>4, CallableFacts, ProgramFacts DEF Callables
<1>5. CASE Kind(c) = "extern_function"
  <2>1. c # n
    BY <1>5
  <2>2. PICK x \in Path(n) : x \in Node \ {1} /\ Parent(x) = c
    BY <1>1, <1>2, <2>1, ChildOnPath
  <2>3. Kind(x) = "formal"
    BY <1>2, <1>5, <2>2, TreeFacts
  <2>4. x # n
    BY <2>3
  <2>5. PICK y \in Path(n) : y \in Node \ {1} /\ Parent(y) = x
    BY <1>1, <2>2, <2>4, ChildOnPath
  <2>6. \E i \in 1 .. Len(Children(x)) : Child(x, i) = y
    BY <2>2, <2>5, TreeFacts
  <2>7. Len(Children(x)) = 0
    BY <2>2, <2>3, TreeFacts
  <2> QED BY <2>6, <2>7
<1> QED BY <1>3, <1>4, <1>5 DEF FunctionKinds

LEMMA SupportedPlaces ==
  ASSUME prog \in Programs, Supported
  PROVE  NestedFunctions = {} /\ TopExpressions = {} /\ LambdasAreInside
<1>1. NestedFunctions = {} /\ TopExpressions = {}
  BY DEF Supported, SupportedDefinition, NestedFunctions, TopExpressions, FunctionKinds, DefinitionKinds
<1>2. ASSUME NEW x \in Node, Kind(x) = "lambda" PROVE CallableAround(Handler(x)) # 0
  <2>1. x # 1 /\ Kind(Parent(x)) = "variable_definition"
    BY <1>2, ProgramFacts DEF Supported, SupportedDefinition
  <2>2. Parent(x) \in Node \ {1} /\ Handler(x) = Parent(x)
    BY <2>1, ProgramFacts, TreeFacts DEF Handler
  <2> QED BY <2>1, <2>2, Inside
<1> QED BY <1>1, <1>2 DEF LambdasAreInside

\* The block behind a loop waits while the loop is under way.
LoopEndsWait ==
  \A l \in Path(gcur) : Iterates(l) =>
    /\ ip # <<l, "loopend">>
    /\ \A x \in Path(gcur) : Kind(x) = "lambda" /\ step[x] = 1 => keptBlock[x] # <<l, "loopend">>

\* The blocks the insertion point has not come to, or comes back to.
Reserved(b) ==
  \/ \E x \in Path(gcur) : Kind(x) = "lambda" /\ step[x] = 1 /\ b = keptBlock[x]
  \/ b[1] \in Path(gcur) /\ \/ b[2] = "else" /\ step[b[1]] = 2
                            \/ b[2] \in {"cont", "update", "loopend"}
BlocksAreOpen == \A b \in DOMAIN blocks : Reserved(b) \/ (b = ip /\ CallableIn # 0) => ~blocks[b].done

\* The insertion point is in none of the blocks that are to be open later.
LEMMA PointIsApart ==
  ASSUME PhiInductive, InPlace, NestedFunctions = {}, LambdasAreInside, LoopEndsWait,
         NEW b \in DOMAIN blocks, Reserved(b)
  PROVE  b # ip
<1>1. prog \in Programs /\ WalkInv /\ BlocksAreTheirs /\ gcur \in Node /\ Path(gcur) \subseteq Node
  BY PathFacts DEF PhiInductive, WalkInv
<1>2. ASSUME NEW x \in Path(gcur), Kind(x) = "lambda", step[x] = 1, b = keptBlock[x] PROVE b # ip
  <2>1. x \in Node \ {1} /\ Kind(x) \in Callables
    BY <1>1, <1>2, ProgramFacts DEF Callables
  <2>2. /\ CallableAround(Handler(x)) # 0 /\ CallableAround(keptBlock[x][1]) = CallableAround(Handler(x))
        /\ Handler(x) \in Node /\ Handler(x) < x
    BY <1>1, <1>2, <2>1, HandlerOf, OperandPath DEF InPlace, LambdasAreInside
  <2>3. CallableAround(Handler(x)) \in Node /\ CallableAround(Handler(x)) <= Handler(x)
    BY <1>1, <2>2, CallableFacts, TreeOrder DEF Path
  <2>4. x <= CallableIn
    <3>1. CASE Kind(gcur) \in Callables /\ step[gcur] = 0
      <4>1. x # gcur /\ gcur # 1
        BY <1>1, <1>2, <3>1, ProgramFacts DEF Callables
      <4>2. x \in Path(Handler(gcur)) /\ Handler(gcur) \in Node
        BY <1>1, <1>2, <4>1, HandlerOf
      <4> QED BY <1>1, <2>1, <3>1, <4>2, CallableFacts DEF CallableIn
    <3>2. CASE ~(Kind(gcur) \in Callables /\ step[gcur] = 0)
      BY <1>1, <1>2, <2>1, <3>2, CallableFacts DEF CallableIn
    <3> QED BY <3>1, <3>2
  <2>5. CallableIn # CallableAround(Handler(x)) /\ CallableIn # 0
    <3>1. x \in Nat /\ Handler(x) \in Nat /\ CallableAround(Handler(x)) \in Nat /\ CallableIn \in Nat
      <4>1. Node \subseteq Nat /\ MaybeNode \subseteq Nat
        BY <1>1, TreeOrder DEF MaybeNode
      <4>2. CallableIn \in MaybeNode
        <5>1. Kind(gcur) \in Callables => gcur # 1
          BY <1>1, ProgramFacts DEF Callables
        <5> QED BY <1>1, <5>1, HandlerOf, CallableFacts DEF CallableIn
      <4>3. x \in Nat /\ Handler(x) \in Nat
        BY <2>1, <2>2, <4>1
      <4>4. CallableAround(Handler(x)) \in Nat
        BY <2>3, <4>1
      <4> QED BY <4>1, <4>2, <4>3, <4>4
    <3> QED BY <2>2, <2>3, <2>4, <3>1
  <2> QED BY <1>2, <2>2, <2>5 DEF InPlace
<1>3. ASSUME b[1] \in Path(gcur), \/ b[2] = "else" /\ step[b[1]] = 2
                                  \/ b[2] \in {"cont", "update", "loopend"}
      PROVE  b # ip
  <2>1. PICK n \in Node, l \in Labels : b = <<n, l>>
    BY <1>1 DEF BlocksAreTheirs, BlockNames
  <2>2. n \in Path(gcur) /\ l \in LabelsOf(n)
    BY <1>1, <1>3, <2>1 DEF BlocksAreTheirs
  <2>3. CASE l \in {"else", "cont"}
    <3>1. Forks(n) /\ (l = "else" => step[n] = 2)
      BY <1>3, <2>1, <2>2, <2>3 DEF LabelsOf
    <3>2. ip \in Zone(n, step[n]) /\ step[n] \in {2, 3}
      <4>1. step[n] \in 1 .. 3
        <5>1. step[n] \in Steps(n) /\ Len(Children(n)) = 3
          BY <1>1, <3>1, ShapeFacts DEF Forks, WalkInv, StepsAreTaken
        <5> QED BY <3>1, <5>1 DEF Steps, Forks, Callables
      <4> QED BY <2>2, <3>1, <4>1 DEF PhiInductive, CodeIsInItsBranch, Forks
    <3>3. \A i \in {2, 3} : Child(n, i) \in Node /\ n < Child(n, i)
      <4>1. Len(Children(n)) = 3
        BY <1>1, <3>1, ShapeFacts DEF Forks
      <4>2. \A i \in {2, 3} : Child(n, i) \in Node \ {1} /\ Parent(Child(n, i)) = n
        <5>1. 2 \in 1 .. Len(Children(n)) /\ 3 \in 1 .. Len(Children(n))
          BY <4>1
        <5> QED BY <1>1, <5>1, TreeFacts
      <4> QED BY <1>1, <4>2, TreeOrder
    <3>4. b[1] = n /\ b[2] = l
      BY <2>1
    <3>5. \A i \in {2, 3} : Child(n, i) \notin Path(n)
      BY <1>1, <3>3, TreeOrder DEF Path
    <3> QED BY <2>3, <3>1, <3>2, <3>4, <3>5 DEF Zone
  <2>4. CASE l = "update"
    BY <2>1, <2>4 DEF PhiInductive, LoopsAreSteered, Steering
  <2>5. CASE l = "loopend"
    <3>1. Iterates(n)
      BY <2>2, <2>5 DEF LabelsOf
    <3> QED BY <2>1, <2>2, <2>5, <3>1 DEF LoopEndsWait
  <2> QED BY <1>3, <2>1, <2>3, <2>4, <2>5
<1> QED BY <1>2, <1>3 DEF Reserved

LEMMA LoopEndsAfter ==
  ASSUME prog \in Programs, WalkInv, BlocksAreTheirs, KeptAreTheirs, LoopEndsWait, Turns, prog' = prog
  PROVE  LoopEndsWait'
<1>1. /\ gcur \in Node /\ gcur' \in Node /\ Path(gcur') \subseteq Node /\ gcur \in Path(gcur)
      /\ \A n \in Path(gcur') : n \in Path(gcur) \/ (step'[n] = 0 /\ step[n] = 0)
      /\ Ascend => gcur \notin Path(gcur')
  BY TurnFacts, PathFacts
<1>2. ASSUME NEW l \in Path(gcur'), Iterates(l)'
      PROVE  /\ ip' # <<l, "loopend">>
             /\ \A x \in Path(gcur') : Kind(x) = "lambda" /\ step'[x] = 1 => keptBlock'[x] # <<l, "loopend">>
  <2>1. l \in Path(gcur) /\ l \in Node /\ Kind(l) \in Loops /\ step'[l] = 2
    BY <1>1, <1>2 DEF Iterates, Kind
  <2>2. CASE IterationBegins /\ l = gcur
    <3>1. <<gcur, "loopend">> \notin DOMAIN blocks
      BY <2>2, IterationBeginsBlocks DEF Keeps, LoopBlock
    <3>2. \A x \in Node : keptBlock'[x] # <<l, "loopend">>
      <4>1. \A x \in Node : keptBlock[x] \in DOMAIN blocks \cup {NoBlock}
        BY DEF KeptAreTheirs
      <4>2. <<gcur, "loopend">> # NoBlock
        BY DEF NoBlock
      <4> QED BY <2>2, <3>1, <4>1, <4>2 DEF IterationBegins
    <3>3. ip' # <<l, "loopend">>
      BY <2>2 DEF IterationBegins, LoopBlock
    <3> QED BY <1>1, <3>2, <3>3
  <2>3. CASE ~(IterationBegins /\ l = gcur)
    <3>1. Iterates(l)
      <4>1. Creates /\ l = gcur => IterationBegins
        BY <2>1 DEF Creates, FunctionOpens, ThenBegins, Callables, Loops
      <4> QED BY <1>2, <2>1, <2>3, <4>1, LabelsAfter
    <3>2. /\ ip # <<l, "loopend">>
          /\ \A x \in Path(gcur) : Kind(x) = "lambda" /\ step[x] = 1 => keptBlock[x] # <<l, "loopend">>
      BY <2>1, <3>1 DEF LoopEndsWait
    <3>3. ip' # <<l, "loopend">>
      <4>1. CASE (\E i : Passes(i)) \/ Returns
        BY <3>2, <4>1 DEF Passes, Returns, Quietly
      <4>2. CASE FunctionOpens \/ ThenBegins \/ ElseBegins \/ ElseFails \/ BranchesMerge \/ IterationBegins
        BY <4>2 DEF FunctionOpens, ThenBegins, ElseBegins, ElseFails, BranchesMerge, IterationBegins, Entry, IfBlock, LoopBlock
      <4>3. CASE FunctionCloses
        BY <1>1, <3>2, <4>3 DEF FunctionCloses
      <4>4. CASE LoopCloses
        BY <1>1, <1>2, <4>4 DEF LoopCloses, LoopBlock
      <4> QED BY <4>1, <4>2, <4>3, <4>4 DEF Turns
    <3>4. ASSUME NEW x \in Path(gcur'), Kind(x) = "lambda", step'[x] = 1 PROVE keptBlock'[x] # <<l, "loopend">>
      <4>1. x \in Path(gcur) /\ x \in Node
        BY <1>1, <3>4
      <4>2. CASE x = gcur /\ FunctionOpens /\ keptBlock'[x] = ip
        BY <3>2, <4>2
      <4>3. CASE keptBlock'[x] = keptBlock[x] /\ step[x] = 1
        BY <3>2, <3>4, <4>1, <4>3
      <4> QED BY <3>4, <4>1, <4>2, <4>3, KeptStays DEF ElseBegins
    <3> QED BY <3>3, <3>4
  <2> QED BY <2>2, <2>3
<1>3. (\A x : Kind(x)' = Kind(x)) /\ Path(gcur)' = Path(gcur')
  BY SameTree DEF Path
<1> QED BY <1>2, <1>3 DEF LoopEndsWait

\* What is to be open later was so before, or a lambda leaves it now.
LEMMA ReservedBefore ==
  ASSUME prog \in Programs, WalkInv, BlocksAreTheirs, KeptAreTheirs, Turns, prog' = prog,
         NEW b \in DOMAIN blocks, Reserved(b)'
  PROVE  Reserved(b) \/ (FunctionOpens /\ Kind(gcur) = "lambda" /\ b = ip)
<1>1. /\ gcur \in Node /\ gcur' \in Node /\ Path(gcur') \subseteq Node /\ gcur \in Path(gcur)
      /\ \A n \in Path(gcur') : n \in Path(gcur) \/ (step'[n] = 0 /\ step[n] = 0)
      /\ \A n \in Node \ {gcur} : step'[n] = step[n]
  BY TurnFacts, PathFacts
<1>2. (\A x : Kind(x)' = Kind(x)) /\ Path(gcur)' = Path(gcur')
  BY SameTree DEF Path
<1>3. ASSUME NEW x \in Path(gcur'), Kind(x) = "lambda", step'[x] = 1, b = keptBlock'[x]
      PROVE  Reserved(b) \/ (FunctionOpens /\ Kind(gcur) = "lambda" /\ b = ip)
  <2>1. x \in Path(gcur) /\ x \in Node
    BY <1>1, <1>3
  <2>2. CASE keptBlock'[x] = keptBlock[x] /\ step[x] = 1
    BY <1>3, <2>1, <2>2 DEF Reserved
  <2> QED BY <1>3, <2>1, <2>2, KeptStays DEF ElseBegins
<1>4. ASSUME b[1] \in Path(gcur'), \/ b[2] = "else" /\ step'[b[1]] = 2
                                   \/ b[2] \in {"cont", "update", "loopend"}
      PROVE  Reserved(b)
  <2>1. PICK n \in Node, l \in Labels : b = <<n, l>>
    BY DEF BlocksAreTheirs, BlockNames
  <2>2. n \in Path(gcur') /\ l \in LabelsOf(n) /\ b[1] = n /\ b[2] = l
    BY <1>4, <2>1 DEF BlocksAreTheirs
  <2>3. step[n] # 0
    BY <2>2 DEF LabelsOf, Forks, Iterates, Defines
  <2>4. n \in Path(gcur)
    BY <1>1, <2>2, <2>3
  <2>5. CASE l = "else" /\ step'[n] = 2
    <3>1. Forks(n)
      BY <2>2, <2>5 DEF LabelsOf
    <3>2. n = gcur => ~(\E i : Descend(i) /\ i = 2)
      BY <2>5, <3>1 DEF Descend, Forks, WalkInv
    <3>3. n = gcur => step' = step
      <4>1. CASE Returns \/ ElseFails \/ BranchesMerge
        BY <4>1 DEF Returns, ElseFails, BranchesMerge, Ascend
      <4>2. CASE \E i : Passes(i)
        BY <2>5, <3>1, <4>2, <1>1 DEF Passes, Descend, Forks, Constructs, WalkInv
      <4>3. CASE ThenBegins
        BY <4>3, <3>2 DEF ThenBegins
      <4>4. CASE ElseBegins
        BY <4>4, <2>5, <1>1 DEF ElseBegins, Descend, WalkInv
      <4>5. CASE FunctionOpens \/ FunctionCloses \/ IterationBegins \/ LoopCloses
        BY <4>5, <3>1 DEF FunctionOpens, FunctionCloses, IterationBegins, LoopCloses, Forks, Callables, Loops
      <4> QED BY <4>1, <4>2, <4>3, <4>4, <4>5 DEF Turns
    <3>4. step[n] = 2
      BY <1>1, <2>1, <2>5, <3>3
    <3> QED BY <2>2, <2>4, <2>5, <3>4 DEF Reserved
  <2>6. CASE l \in {"cont", "update", "loopend"}
    BY <2>2, <2>4, <2>6 DEF Reserved
  <2> QED BY <1>4, <2>2, <2>5, <2>6
<1>5. \/ \E x \in Path(gcur') : Kind(x) = "lambda" /\ step'[x] = 1 /\ b = keptBlock'[x]
      \/ b[1] \in Path(gcur') /\ \/ b[2] = "else" /\ step'[b[1]] = 2
                                 \/ b[2] \in {"cont", "update", "loopend"}
  BY <1>2 DEF Reserved
<1> QED BY <1>3, <1>4, <1>5

\* Where code goes on is where code was to go on.
LEMMA PointBefore ==
  ASSUME PhiInductive, InPlace, NestedFunctions = {}, Turns, prog' = prog, ip' \in DOMAIN blocks, CallableIn' # 0
  PROVE  Reserved(ip') \/ (ip' = ip /\ CallableIn # 0 /\ ((\E i : Passes(i)) \/ Returns))
<1>1. prog \in Programs /\ WalkInv /\ BlocksAreTheirs /\ gcur \in Node /\ gcur \in Path(gcur)
  BY PathFacts DEF PhiInductive, WalkInv
<1>2. CASE (\E i : Passes(i)) \/ Returns
  <2>1. ip' = ip /\ Kind(gcur) \notin Callables
    BY <1>2 DEF Passes, Returns, Quietly
  <2>2. CallableIn' = CallableIn
    BY <1>1, <1>2, <2>1, CallableAfter DEF Passes, Returns
  <2> QED BY <1>2, <2>1, <2>2
<1>3. CASE FunctionCloses
  <2>1. CASE Kind(gcur) = "lambda"
    BY <1>1, <1>3, <2>1 DEF FunctionCloses, Reserved
  <2>2. CASE Kind(gcur) = "function_definition"
    <3>1. Parent(gcur) = 1 /\ gcur # 1 /\ Handler(gcur) = Parent(gcur)
      BY <1>1, <2>2, StatementsHold DEF NestedFunctions, FunctionKinds
    <3>2. CallableIn' = CallableAround(1)
      BY <1>1, <1>3, <3>1, CallableAfter DEF FunctionCloses
    <3>3. CallableAround(1) = 0
      BY <1>1, ProgramFacts, CallableFacts
    <3> QED BY <3>2, <3>3
  <2> QED BY <1>3, <2>1, <2>2 DEF FunctionCloses, Callables
<1>4. CASE ElseBegins
  BY <1>1, <1>4 DEF ElseBegins, Reserved, IfBlock
<1>5. CASE ElseFails \/ BranchesMerge
  BY <1>1, <1>5 DEF ElseFails, BranchesMerge, Reserved, IfBlock
<1>6. CASE LoopCloses
  BY <1>1, <1>6 DEF LoopCloses, Reserved, LoopBlock
<1>7. CASE FunctionOpens
  <2>1. Entry(gcur) \notin DOMAIN blocks
    BY <1>1, <1>7, FunctionOpensBlocks DEF Keeps
  <2> QED BY <1>7, <2>1 DEF FunctionOpens
<1>8. CASE ThenBegins
  <2>1. IfBlock("then") \notin DOMAIN blocks
    BY <1>1, <1>8, ThenBeginsBlocks DEF Keeps
  <2> QED BY <1>8, <2>1 DEF ThenBegins
<1>9. CASE IterationBegins
  <2>1. LoopBlock("loop") \notin DOMAIN blocks
    BY <1>1, <1>9, IterationBeginsBlocks DEF Keeps
  <2> QED BY <1>9, <2>1 DEF IterationBegins
<1> QED BY <1>2, <1>3, <1>4, <1>5, <1>6, <1>7, <1>8, <1>9 DEF Turns

\* A block that has just been made is open, but for the one that tests a loop.
LEMMA NewIsOpen ==
  ASSUME PhiInductive, Turns, prog' = prog, NEW b \in DOMAIN blocks', b \notin DOMAIN blocks
  PROVE  \/ ~blocks'[b].done
         \/ IterationBegins /\ b = LoopBlock("check")
<1>1. prog \in Programs /\ WalkInv /\ BlocksAreTheirs /\ KeptAreTheirs /\ LoopsAreSteered /\ gcur \in Node
  BY DEF PhiInductive, WalkInv
<1>2. CASE FunctionOpens
  <2>1. b = Entry(gcur) /\ blocks'[Entry(gcur)] = NewBlock(gcur)
    BY <1>1, <1>2, FunctionOpensBlocks DEF Keeps
  <2> QED BY <2>1 DEF NewBlock
<1>3. CASE ThenBegins
  <2>1. b \in {IfBlock("then"), IfBlock("else"), IfBlock("cont")} /\ blocks'[b] = NewBlock(CurrentFunction)
    BY <1>1, <1>3, ThenBeginsBlocks DEF Keeps
  <2> QED BY <2>1 DEF NewBlock
<1>4. CASE IterationBegins
  <2>1. b \in {LoopBlock("check"), LoopBlock("loop"), LoopBlock("update"), LoopBlock("loopend")}
    BY <1>1, <1>4, IterationBeginsBlocks DEF Keeps
  <2>2. b # LoopBlock("check") => blocks'[b] = NewBlock(CurrentFunction)
    BY <1>1, <1>4, <2>1, IterationBeginsBlocks
  <2> QED BY <1>4, <2>2 DEF NewBlock
<1>5. CASE ~Creates
  BY <1>1, <1>5, PlaceAfter DEF Keeps
<1> QED BY <1>2, <1>3, <1>4, <1>5 DEF Creates

LEMMA OpenAfter ==
  ASSUME PhiInductive, InPlace, NestedFunctions = {}, LambdasAreInside, LoopEndsWait, BlocksAreOpen, Turns, prog' = prog
  PROVE  BlocksAreOpen'
<1>1. /\ prog \in Programs /\ WalkInv /\ BlocksAreTheirs /\ KeptAreTheirs /\ LoopsAreSteered /\ gcur \in Node
      /\ gcur \in Path(gcur)
  BY PathFacts DEF PhiInductive, WalkInv
<1>2. ASSUME NEW b \in DOMAIN blocks', b \notin DOMAIN blocks, Reserved(b)' \/ (b = ip' /\ CallableIn' # 0)
      PROVE  ~blocks'[b].done
  <2>1. SUFFICES ASSUME IterationBegins, b = LoopBlock("check")
                 PROVE  FALSE
    BY <1>2, NewIsOpen
  <2>2. ip' # b
    BY <2>1 DEF IterationBegins, LoopBlock
  <2>3. b[2] = "check"
    BY <2>1 DEF LoopBlock
  <2>4. PICK x \in Path(gcur') : b = keptBlock'[x]
    <3>1. Path(gcur)' = Path(gcur')
      BY SameTree DEF Path
    <3> QED BY <1>2, <2>2, <2>3, <3>1 DEF Reserved
  <2>5. x \in Node /\ keptBlock'[x] = keptBlock[x] /\ keptBlock[x] \in DOMAIN blocks \cup {NoBlock}
    BY <1>1, <2>1, TurnFacts DEF IterationBegins, KeptAreTheirs
  <2>6. b # NoBlock
    BY <2>3 DEF NoBlock
  <2> QED BY <1>2, <2>4, <2>5, <2>6
<1>3. ASSUME NEW b \in DOMAIN blocks, Reserved(b) PROVE ~blocks[b].done /\ b # ip
  BY <1>3, PointIsApart DEF BlocksAreOpen
<1>4. ASSUME NEW b \in DOMAIN blocks, Reserved(b)' \/ (b = ip' /\ CallableIn' # 0)
      PROVE  ~blocks'[b].done
  <2>1. \/ Reserved(b)
        \/ FunctionOpens /\ Kind(gcur) = "lambda" /\ b = ip
        \/ b = ip /\ CallableIn # 0 /\ ((\E i : Passes(i)) \/ Returns)
    BY <1>1, <1>4, ReservedBefore, PointBefore
  <2>2. CASE FunctionOpens /\ Kind(gcur) = "lambda" /\ b = ip
    <3>1. CallableIn = CallableAround(Handler(gcur))
      BY <2>2 DEF FunctionOpens, CallableIn
    <3>2. ~blocks[b].done
      BY <1>1, <2>2, <3>1 DEF LambdasAreInside, BlocksAreOpen
    <3> QED BY <1>1, <2>2, <3>2, FunctionOpensBlocks
  <2>3. CASE b = ip /\ CallableIn # 0 /\ ((\E i : Passes(i)) \/ Returns)
    BY <2>3 DEF BlocksAreOpen, Passes, Returns, Quietly
  <2>4. CASE Reserved(b)
    <3>1. ~blocks[b].done /\ b # ip
      BY <2>4, <1>3
    <3>2. CASE (\E i : Passes(i)) \/ Returns
      BY <3>1, <3>2 DEF Passes, Returns, Quietly
    <3>3. CASE FunctionOpens
      BY <1>1, <3>1, <3>3, FunctionOpensBlocks
    <3>4. CASE FunctionCloses
      BY <1>1, <3>1, <3>4, FunctionClosesBlocks
    <3>5. CASE ThenBegins
      BY <1>1, <3>1, <3>5, ThenBeginsBlocks
    <3>6. CASE ElseBegins \/ ElseFails \/ BranchesMerge
      BY <1>1, <3>1, <3>6, BranchEndsBlocks
    <3>7. CASE IterationBegins
      BY <1>1, <3>1, <3>7, IterationBeginsBlocks
    <3>8. CASE LoopCloses
      <4>1. b # LoopBlock("update")
        <5>1. SUFFICES ASSUME b = LoopBlock("update") PROVE FALSE
          OBVIOUS
        <5>2. b[1] = gcur /\ b[2] = "update" /\ ip' # b
          BY <3>8, <5>1 DEF LoopBlock, LoopCloses
        <5>3. gcur \notin Path(gcur') /\ Path(gcur') \subseteq Node
          BY <1>1, <3>8, TurnFacts DEF LoopCloses
        <5>4. Path(gcur)' = Path(gcur')
          BY SameTree DEF Path
        <5>5. PICK x \in Path(gcur') : b = keptBlock'[x]
          BY <1>4, <5>2, <5>3, <5>4 DEF Reserved
        <5>6. keptBlock'[x] = keptBlock[x] /\ keptBlock[x][2] \notin Steering
          BY <1>1, <3>8, <5>3 DEF LoopCloses, LoopsAreSteered
        <5> QED BY <5>2, <5>5, <5>6 DEF Steering
      <4> QED BY <1>1, <3>1, <3>8, <4>1, LoopClosesBlocks
    <3> QED BY <3>2, <3>3, <3>4, <3>5, <3>6, <3>7, <3>8 DEF Turns
  <2> QED BY <2>1, <2>2, <2>3, <2>4
<1> QED BY <1>2, <1>4 DEF BlocksAreOpen

-----------------------------------------------------------------------------
(* The types of values                                                     *)

\* What handlers return for an expression of type t, for n, and for a node of any kind.
Carried(t) == IF Id(t) = "NIL" THEN "ptr" ELSE LowType(t)
ExpressionType(n) == IF Kind(n) = "lambda" THEN "ptr" ELSE Carried(type[n])
ValueType(n) ==
  CASE Kind(n) \in FunctionKinds -> "ptr"
    [] Kind(n) = "function_body" -> ExpressionType(ReturnExpression(n))
    [] Kind(n) = "variable_definition" -> ExpressionType(Child(n, 1))
    [] OTHER -> ExpressionType(n)
Typed(v, ty) == v \in TypedValue /\ v.ty = ty
Right(o, ty) == Typed(o.v, ty) /\ o.wrong = {}

LEMMA LowTypesOfScalars ==
  /\ \A t : /\ Id(t) = "INT" => LowType(t) = "i64" /\ Carried(t) = "i64"
            /\ Id(t) = "FLOAT" => LowType(t) = "double" /\ Carried(t) = "double"
            /\ Id(t) = "BOOL" => LowType(t) = "i1" /\ Carried(t) = "i1"
            /\ Id(t) = "STRING" => LowType(t) = "ptr" /\ Carried(t) = "ptr"
            /\ Id(t) = "NIL" => Carried(t) = "ptr"
            /\ Id(t) # "NIL" => Carried(t) = LowType(t)
            /\ LowType(t) # "none" => Id(t) # "NIL" /\ Carried(t) = LowType(t)
  /\ \A id \in ScalarIds : Id(Scalar(id)) = id
<1>1. \A t : /\ Id(t) = "INT" => LowType(t) = "i64"
             /\ Id(t) = "FLOAT" => LowType(t) = "double"
             /\ Id(t) = "BOOL" => LowType(t) = "i1"
             /\ Id(t) = "STRING" => LowType(t) = "ptr"
             /\ Id(t) = "NIL" => LowType(t) = "none"
  BY DEF LowType, IsList
<1>2. \A id \in ScalarIds : Id(Scalar(id)) = id
  BY DEF Id, Scalar
<1> QED BY <1>1, <1>2 DEF Carried

\* A list that is implemented is of integers or of floats, and so is one of numbers.
LEMMA LowTypesOfLists ==
  ASSUME NEW t \in Type
  PROVE  /\ Implemented(t) => /\ Id(t) = "LIST" /\ LowType(t) = ListKind(t) /\ Carried(t) = ListKind(t)
                              /\ ListKind(t) \in ListTypes /\ Number(Subtype(t))
                              /\ ElementOf(ListKind(t)) = LowType(Subtype(t))
                              /\ (ListKind(t) = "ints") = (Subtype(t) = Scalar("INT"))
         /\ Number(t) => /\ Implemented(ListOf(t)) /\ Subtype(ListOf(t)) = t /\ ListOf(t) \in Type
                         /\ LowType(t) # "none"
<1>1. ASSUME Implemented(t)
      PROVE  /\ Id(t) = "LIST" /\ LowType(t) = ListKind(t) /\ Carried(t) = ListKind(t)
             /\ ListKind(t) \in ListTypes /\ Number(Subtype(t))
             /\ ElementOf(ListKind(t)) = LowType(Subtype(t))
             /\ (ListKind(t) = "ints") = (Subtype(t) = Scalar("INT"))
  <2>1. IsList(t) /\ ListKind(t) = LowType(t) /\ ListKind(t) \in ListTypes
    BY <1>1 DEF Implemented, ListKind, ListTypes
  <2>2. /\ LowType(t) = IF Subtype(t) = Scalar("INT") THEN "ints"
                        ELSE IF Subtype(t) = Scalar("FLOAT") THEN "doubles" ELSE "ptr"
        /\ Id(t) = "LIST"
    BY <2>1 DEF LowType, IsList
  <2>3. Number(Subtype(t)) /\ (ListKind(t) = "ints") = (Subtype(t) = Scalar("INT"))
    BY <2>1, <2>2 DEF Number, ListTypes, Scalar
  <2>4. ElementOf(ListKind(t)) = LowType(Subtype(t))
    BY <2>1, <2>2, <2>3, LowTypesOfScalars DEF ElementOf, Number, ScalarIds
  <2> QED BY <2>1, <2>2, <2>3, <2>4 DEF Carried
<1>2. ASSUME Number(t)
      PROVE  /\ Implemented(ListOf(t)) /\ Subtype(ListOf(t)) = t /\ ListOf(t) \in Type
             /\ LowType(t) # "none"
  <2>1. t = Scalar("INT") \/ t = Scalar("FLOAT")
    BY <1>2 DEF Number
  <2>2. t.depth = 0
    BY <2>1 DEF Scalar
  <2>3. ListOf(t).depth = 1 /\ ListOf(t).base = t.base
    BY <2>2 DEF ListOf
  <2>4. Subtype(ListOf(t)) = t /\ Id(ListOf(t)) = "LIST"
    BY <2>1, <2>2, <2>3 DEF Subtype, Id, Scalar
  <2>5. LowType(ListOf(t)) \in ListTypes
    BY <2>1, <2>4 DEF LowType, IsList, ListTypes, Scalar
  <2>6. Implemented(ListOf(t))
    BY <2>4, <2>5 DEF Implemented, ListKind, IsList
  <2>7. LowType(t) # "none"
    BY <2>1, LowTypesOfScalars DEF ScalarIds
  <2> QED BY <2>4, <2>6, <2>7, TypeFacts
<1> QED BY <1>1, <1>2

LEMMA NotDead ==
  /\ Dead \notin TypedValue /\ NullValue \notin TypedValue
  /\ \A ty \in LowTypes : \A d, fn : [ty |-> ty, def |-> d, fn |-> fn] # Dead
<1>1. "dead" \notin LowTypes /\ "null" \notin LowTypes
  BY DEF LowTypes, Pointers, ListTypes
<1> QED BY <1>1 DEF Dead, NullValue, Failed, TypedValue

\* A value the generator makes at the insertion point.
LEMMA MadeIsTyped ==
  ASSUME prog \in Programs, BlocksAreTheirs, NEW ty \in LowTypes
  PROVE  /\ \A d \in MaybeNode : Typed(Of(ty, d), ty)
         /\ Typed(Instruction(ty), ty) /\ Typed(Constant(ty), ty)
         /\ ip # NoBlock => \A v : AtBlock(v) = v
<1>1. 0 \in MaybeNode
  BY DEF MaybeNode
<1> QED BY <1>1, InstructionsAreTyped DEF Typed, Of, Instruction, Constant, AtBlock

\* A call of a function with arguments of the types it takes.
LEMMA CallIsRight ==
  ASSUME prog \in Programs, BlocksAreTheirs, Late = {}, NEW s, s.gives \in LowTypes, NEW args, NEW d \in MaybeNode,
         Len(args) = Len(s.takes), \A i \in DOMAIN args : Typed(args[i], s.takes[i])
  PROVE  Right(CallOf(s, args, d), s.gives) /\ CallOf(s, args, d).v.def = d
<1>1. \A i \in DOMAIN args : args[i] # Dead /\ args[i].ty = s.takes[i]
  BY NotDead DEF Typed
<1>2. CallOf(s, args, d) = Outcome(Of(s.gives, d), {})
  BY <1>1 DEF CallOf, Unless
<1> QED BY <1>2, MadeIsTyped DEF Right, Outcome, Of

LEMMA SignaturesOfLists ==
  ASSUME NEW list \in ListTypes
  PROVE  /\ RuntimeSignature(list, "set_head") = FunctionType(<<list, ElementOf(list)>>, "i8")
         /\ RuntimeSignature(list, "car") = FunctionType(<<list>>, "ptr")
         /\ RuntimeSignature(list, "cdr") = FunctionType(<<list>>, list)
         /\ RuntimeSignature(list, "cons") = FunctionType(<<ElementOf(list), list>>, list)
         /\ RuntimeSignature(list, "append") = FunctionType(<<list, ElementOf(list)>>, list)
         /\ \A op \in Folds : RuntimeSignature(list, op) = FunctionType(<<list>>, ElementOf(list))
         /\ list \in LowTypes /\ ElementOf(list) \in LowTypes
         /\ {"i8", "ptr", "i64", "double", "i1"} \subseteq LowTypes
BY DEF RuntimeSignature, Folds, ElementOf, ListTypes, LowTypes, Pointers

LEMMA CallOnOne ==
  ASSUME prog \in Programs, BlocksAreTheirs, Late = {}, NEW list, NEW op, NEW a, NEW ty, NEW gives \in LowTypes,
         RuntimeSignature(list, op) = FunctionType(<<a>>, gives), NEW v, Typed(v, a)
  PROVE  Right(CallRuntime(list, op, <<v>>), gives)
<1>1. PICK s : s = RuntimeSignature(list, op)
  OBVIOUS
<1>2. s.takes = <<a>> /\ s.gives = gives
  BY <1>1 DEF FunctionType
<1>3. 0 \in MaybeNode
  BY DEF MaybeNode
<1>4. PICK args : args = <<v>>
  OBVIOUS
<1>5. Len(args) = Len(s.takes) /\ \A i \in DOMAIN args : Typed(args[i], s.takes[i])
  BY <1>2, <1>4
<1>6. Right(CallOf(s, args, 0), s.gives)
  BY <1>2, <1>3, <1>5, CallIsRight
<1> QED BY <1>1, <1>2, <1>4, <1>6 DEF CallRuntime

LEMMA CallOnTwo ==
  ASSUME prog \in Programs, BlocksAreTheirs, Late = {}, NEW list, NEW op, NEW a, NEW b, NEW gives \in LowTypes,
         RuntimeSignature(list, op) = FunctionType(<<a, b>>, gives), NEW v, NEW w, Typed(v, a), Typed(w, b)
  PROVE  Right(CallRuntime(list, op, <<v, w>>), gives)
<1>1. PICK s : s = RuntimeSignature(list, op)
  OBVIOUS
<1>2. s.takes = <<a, b>> /\ s.gives = gives
  BY <1>1 DEF FunctionType
<1>3. 0 \in MaybeNode
  BY DEF MaybeNode
<1>4. PICK args : args = <<v, w>>
  OBVIOUS
<1>5. Len(args) = Len(s.takes) /\ \A i \in DOMAIN args : Typed(args[i], s.takes[i])
  BY <1>2, <1>4
<1>6. Right(CallOf(s, args, 0), s.gives)
  BY <1>2, <1>3, <1>5, CallIsRight
<1> QED BY <1>1, <1>2, <1>4, <1>6 DEF CallRuntime

\* What the generator converts faithfully has the type it is converted to.
LEMMA ConvertedRight ==
  ASSUME prog \in Programs, BlocksAreTheirs, NEW m \in Node, NEW t \in MaybeType, Faithful(m, t),
         Typed(value[m], Carried(type[m]))
  PROVE  Converts(m, Id(t)) /\ Typed(Converted(m, Id(t)), Carried(t))
<1>1. CASE Id(type[m]) = Id(t)
  <2>1. type[m] = t
    BY <1>1, LowTypesOfScalars DEF Faithful, SameType, Number, ScalarIds
  <2> QED BY <1>1, <2>1 DEF Converts, Converted
<1>2. CASE Id(type[m]) # Id(t)
  <2>1. Number(type[m]) /\ Number(t)
    BY <1>2 DEF Faithful, SameType
  <2>2. \/ type[m] = Scalar("INT") /\ Id(type[m]) = "INT" /\ t = Scalar("FLOAT") /\ Id(t) = "FLOAT"
        \/ type[m] = Scalar("FLOAT") /\ Id(type[m]) = "FLOAT" /\ t = Scalar("INT") /\ Id(t) = "INT"
    BY <1>2, <2>1, LowTypesOfScalars DEF Number, ScalarIds
  <2>3. Id(t) \in Convertible
    BY <2>2 DEF Convertible
  <2>4. value[m] # NullValue
    BY NotDead DEF Typed
  <2>5. Converted(m, Id(t)) = Instruction(LowType(t))
    BY <1>2, <2>2, <2>3, <2>4 DEF Converted, Coerce, Cast
  <2>6. LowType(t) \in LowTypes /\ Carried(t) = LowType(t)
    BY <2>2, LowTypesAreLow, LowTypesOfScalars
  <2> QED BY <2>3, <2>5, <2>6, MadeIsTyped DEF Converts
<1> QED BY <1>1, <1>2

-----------------------------------------------------------------------------
(* The invariant of supported programs                                     *)

Compiling == status = "accepted" /\ Supported
OpenBlocks == Compiling => BlocksAreOpen

\* What handlers have returned is of the type of their node, and so are the allocas of
\* variables, in a scope that has a map.
ValuesAreRight == Compiling =>
  \A m \in Node \ {1} : Visited(m) /\ m \notin Path(gcur) => Typed(value[m], ValueType(m))
SlotsAreRight == Compiling =>
  \A d \in Node : Kind(d) = "variable_definition" /\ step[d] # 0 =>
    scopeOf[Parent(d)] \in maps /\ (d \notin Path(gcur) => slot[d] = ValueType(d))
NothingWrong == Compiling => faults = {} /\ result \in {"generating", "ok"}

CompileInv ==
  /\ RulesInv /\ EntriesInv /\ Fresh /\ LoopEndsWait /\ OpenBlocks
  /\ ValuesAreRight /\ SlotsAreRight /\ NothingWrong
WorksInductive == CompleteInductive /\ ValuesInv /\ CallInv /\ MeaningInv
CompileInductive == WorksInductive /\ CompileInv
Ready == CompileInductive /\ Compiling

LEMMA ReadyFacts ==
  ASSUME Ready
  PROVE  /\ prog \in Programs /\ WalkInv /\ BlocksAreTheirs /\ KeptAreTheirs /\ PhiInductive /\ ResultInductive
         /\ GeneratorInductive /\ TypeOK /\ gcur \in Node /\ status = "accepted" /\ Supported
         /\ NestedFunctions = {} /\ TopExpressions = {} /\ LambdasAreInside /\ InPlace /\ BlocksAreOpen
         /\ value \in [Node -> Value] /\ keptValue \in [Node -> Value] /\ faults = {}
         /\ \A n \in Node : type[n] \in MaybeType
         /\ \A n \in Node : Kind(n) # "formal" => pc[n] = "done"
<1>1. GeneratorInductive /\ status = "accepted" /\ Supported /\ prog \in Programs
  BY WhatIsAccepted DEF Ready, CompileInductive, WorksInductive, CompleteInductive, Compiling
<1>2. WalkInv /\ BlocksAreTheirs /\ TypeOK /\ KeptAreTheirs /\ PhiInductive /\ ResultInductive
  BY <1>1, WhatIsAccepted DEF GeneratorInductive, PhiInductive
<1>3. gcur \in Node
  BY <1>2 DEF WalkInv
<1>4. NestedFunctions = {} /\ TopExpressions = {} /\ LambdasAreInside
  BY <1>1, SupportedPlaces
<1>5. InPlace /\ BlocksAreOpen /\ faults = {}
  BY <1>1 DEF Ready, CompileInductive, CompileInv, WorksInductive, MeaningInv, NamesInv, OpenBlocks, Compiling, NothingWrong
<1>6. value \in [Node -> Value] /\ keptValue \in [Node -> Value]
  BY DEF Ready, CompileInductive, WorksInductive, ValuesInv
<1>7. \A n \in Node : type[n] \in MaybeType
  BY <1>2 DEF TypeOK
<1>8. \A n \in Node : Kind(n) # "formal" => pc[n] = "done"
  BY <1>1, <1>2, AcceptedIsDone
<1> QED BY <1>1, <1>2, <1>3, <1>4, <1>5, <1>6, <1>7, <1>8

\* What the rules have computed, which is a type.
LEMMA RulesGive ==
  ASSUME Ready, NEW n \in Node
  PROVE  /\ Kind(n) \in Ruled => type[n] = RuleOf(n) /\ RuleOf(n) \notin Failures
         /\ Kind(n) = "literal" => type[n] \in LiteralTypes
<1>1. pc[n] = "done" \/ Kind(n) = "formal"
  BY ReadyFacts
<1>2. RulesHold /\ prog \in Programs
  BY ReadyFacts DEF Ready, CompileInductive, CompileInv, RulesInv
<1>3. Kind(n) \in Ruled \/ Kind(n) = "literal" => pc[n] = "done"
  BY <1>1 DEF Ruled
<1>4. Kind(n) = "literal" => prog[n].type \in LiteralTypes
  BY <1>2, ProgramsAssumption DEF WellFormed, Node, Kind
<1> QED BY <1>2, <1>3, <1>4 DEF RulesHold

\* Operands are expressions, those of variables lambdas perhaps.
Expressive == Operators \cup {"set_expression", "function_call", "if_expr", "iterator_definition"}
LEMMA OperandsAreExpressions ==
  ASSUME prog \in Programs, Supported, NEW n \in Node, NEW i \in 1 .. Len(Children(n))
  PROVE  /\ Kind(n) \in Expressive => ValueType(Child(n, i)) = Carried(type[Child(n, i)])
         /\ Kind(n) = "variable_definition" => ValueType(Child(n, i)) = ValueType(n)
         /\ Kind(n) = "function_body" /\ i = Len(Children(n)) =>
              ValueType(Child(n, i)) = Carried(type[Child(n, i)]) /\ ValueType(n) = ValueType(Child(n, i))
<1>1. PICK c \in Node \ {1} : c = Child(n, i) /\ Parent(c) = n
  BY TreeFacts
<1>2. Placement(prog, c) /\ Shape(prog, n)
  BY ProgramsAssumption DEF WellFormed, Node
<1>3. /\ Kind(c) = "function_body" => Kind(n) \in Callables \cup BodyLoops
      /\ Kind(c) \in FunctionKinds \cup {"variable_definition"} => Kind(n) \in {"root", "function_body"}
  BY <1>1, <1>2 DEF Placement, Kind, Parent
<1>4. Kind(c) = "lambda" => Kind(n) = "variable_definition"
  BY <1>1 DEF Supported, SupportedDefinition
<1>5. CASE Kind(n) \in Expressive
  <2>1. Kind(c) \notin FunctionKinds \cup {"variable_definition", "function_body", "lambda"}
    BY <1>3, <1>4, <1>5 DEF Expressive, Operators, Callables, BodyLoops, FunctionKinds
  <2> QED BY <1>1, <1>5, <2>1 DEF ValueType, ExpressionType, Expressive, Operators
<1>6. CASE Kind(n) = "variable_definition"
  <2>1. Kind(c) \notin FunctionKinds \cup {"variable_definition", "function_body"}
    BY <1>3, <1>6 DEF Callables, BodyLoops, FunctionKinds
  <2>2. Len(Children(n)) = 1
    BY <1>6, ShapeFacts
  <2>3. i = 1
    BY <2>2
  <2> QED BY <1>1, <1>6, <2>1, <2>3 DEF ValueType, FunctionKinds, Expressive, Operators
<1>7. CASE Kind(n) = "function_body" /\ i = Len(Children(n))
  <2>1. Kind(c) \notin DefinitionKinds
    BY <1>1, <1>2, <1>7 DEF Shape, Kind, Child, Children
  <2>2. Kind(c) \notin FunctionKinds \cup {"variable_definition", "function_body", "lambda"}
    BY <1>3, <1>4, <1>7, <2>1 DEF DefinitionKinds, VariableKinds, Callables, BodyLoops
  <2>3. ReturnExpression(n) = c
    BY <1>1, <1>7 DEF ReturnExpression, LastChild
  <2> QED BY <1>1, <1>7, <2>2, <2>3 DEF ValueType, ExpressionType, FunctionKinds, Expressive, Operators
<1> QED BY <1>5, <1>6, <1>7

\* Code can be put where a handler in a function is.
LEMMA Here ==
  ASSUME Ready, gcur # 1, Kind(gcur) \notin {"extern_function", "formal"}, Kind(gcur) \in Callables => step[gcur] # 0
  PROVE  /\ ip # NoBlock /\ ip \in DOMAIN blocks /\ ~blocks[ip].done /\ Late = {}
         /\ CallableAround(gcur) # 0 /\ CurrentFunction = CallableAround(gcur)
<1>1. CallableAround(gcur) # 0
  BY ReadyFacts, Inside
<1>2. CallableIn = CallableAround(gcur)
  BY DEF CallableIn
<1>3. ip # NoBlock /\ CallableAround(ip[1]) = CallableIn
  BY <1>1, <1>2, ReadyFacts DEF InPlace
<1>4. ip \in DOMAIN blocks
  BY <1>3, ReadyFacts DEF BlocksAreTheirs
<1>5. ~blocks[ip].done
  BY <1>1, <1>2, <1>4, ReadyFacts DEF BlocksAreOpen
<1>6. blocks[ip].fn = CallableAround(gcur)
  BY <1>1, <1>2, <1>3, <1>4, ReadyFacts DEF InPlace
<1> QED BY <1>1, <1>3, <1>4, <1>5, <1>6 DEF Late, Unless, CurrentFunction

\* What the handler at hand has visited has a value of its type.
LEMMA OperandIsRight ==
  ASSUME Ready, Kind(gcur) \in Visiting, NEW i \in Steps(gcur), i <= step[gcur]
  PROVE  LET c == Operand(gcur, i) IN c \in Node \ {1} /\ Typed(value[c], ValueType(c))
<1>1. PICK c \in Node \ {1} : c = Operand(gcur, i) /\ Handler(c) = gcur
  BY ReadyFacts, OperandFacts
<1>2. i \in 1 .. step[gcur]
  <2>1. i \in Nat /\ i > 0 /\ step[gcur] \in Nat
    BY ReadyFacts, StepsBefore DEF WalkInv
  <2> QED BY <2>1
<1>3. Visited(c)
  BY <1>1, <1>2 DEF Visited
<1>4. c \notin Path(gcur)
  BY <1>1, ReadyFacts, OperandPath
<1> QED BY <1>1, <1>3, <1>4 DEF Ready, CompileInductive, CompileInv, ValuesAreRight

-----------------------------------------------------------------------------
(* Handlers that visit what they have                                      *)

LEMMA NumbersAreTypes ==
  ASSUME NEW t, Number(t)
  PROVE  t \in Type
BY DEF Number, Scalar, Type, TypeIds, ScalarIds

LEMMA FaithfulConverts ==
  ASSUME NEW m, NEW t, Faithful(m, t)
  PROVE  Converts(m, Id(t))
<1>1. CASE type[m] = t
  BY <1>1 DEF Converts
<1>2. CASE Number(t)
  <2>1. Id(t) \in Convertible
    BY <1>2, LowTypesOfScalars DEF Number, ScalarIds, Convertible
  <2> QED BY <2>1 DEF Converts
<1> QED BY <1>1, <1>2 DEF Faithful, SameType

\* The type of a list that is made from a head and a tail.
LEMMA ConsIsItsTail ==
  ASSUME Ready, NEW n \in Node, Kind(n) = "binary_op", prog[n].op \notin CompareOps
  PROVE  type[n] = type[Child(n, 2)] /\ type[n] \in Type
<1>1. type[n] = ConsType(Child(n, 1), Child(n, 2)) /\ type[n] \notin Failures
  BY RulesGive DEF RuleOf, BinaryOpType, Ruled
<1>2. type[n] \in MaybeType
  BY ReadyFacts
<1>3. PICK h, t, s : h = type[Child(n, 1)] /\ t = type[Child(n, 2)] /\ s = Subtype(t)
  OBVIOUS
<1>4. Mismatch(h, s) \in Failures /\ Mismatch(h, t) \in Failures
  BY TypeFacts
<1>5. Crashed \in Failures /\ Rejected \in Failures
  BY DEF Failures
<1>6. type[n] = t /\ t # Null
  BY <1>1, <1>3, <1>4, <1>5 DEF ConsType
<1> QED BY <1>2, <1>3, <1>6 DEF MaybeType

\* What a call at hand runs.
LEMMA CalleeOfCall ==
  ASSUME Ready, Kind(gcur) = "function_call"
  PROVE  Callee(gcur) = {CallableOf(resolved[gcur])}
<1>1. PICK d : d = resolved[gcur]
  OBVIOUS
<1>2. GeneratorInductive /\ status = "accepted" /\ gcur \in Node /\ Supported
  BY ReadyFacts
<1>3. d \in Node /\ Kind(d) \in DefinitionKinds
  BY <1>1, <1>2, WhatIsAccepted
<1>4. /\ Parent(d) \in Path(gcur) /\ Name(gcur) \notin RuntimeNames
      /\ \A e \in Node : Kind(e) \in DefinitionKinds /\ Name(e) = Name(gcur) => e = d
  BY <1>1, <1>2 DEF Supported, SupportedCall
<1>5. ~(Kind(d) = "variable_definition" /\ IsGlobal(d))
  BY <1>2, <1>3 DEF Supported, SupportedDefinition
<1>6. ValuesInv /\ ResolvedBehind /\ HandlersLeave /\ SymbolsAreDefined
  BY DEF Ready, CompileInductive, WorksInductive, CallInv
<1>7. {e \in Node : Kind(e) \in DefinitionKinds /\ Name(e) = Name(gcur) /\ e # d} = {}
  BY <1>4
<1> QED BY <1>1, <1>2, <1>4, <1>5, <1>6, <1>7, CalleeIsThere

\* Nothing is left out.
LEMMA AllAccepted ==
  ASSUME Ready, Kind(gcur) \in Plain
  PROVE  \A i \in 1 .. Len(Children(gcur)) : Accepts(gcur, i)
<1> SUFFICES ASSUME NEW i \in 1 .. Len(Children(gcur)) PROVE Accepts(gcur, i)
  OBVIOUS
<1>1. gcur \in Node /\ Supported
  BY ReadyFacts
<1>2. CASE Kind(gcur) \in {"unary_op", "list"}
  BY <1>1, <1>2 DEF Supported, SupportedOperator, Operators, Accepts
<1>3. CASE Kind(gcur) = "list_op"
  <2>1. Number(type[gcur]) /\ type[gcur] \in Type
    BY <1>1, <1>3, NumbersAreTypes DEF Supported, SupportedOperator, Operators
  <2>2. Implemented(ListOf(type[gcur]))
    BY <2>1, LowTypesOfLists
  <2> QED BY <1>3, <2>2 DEF Accepts
<1>4. CASE Kind(gcur) = "binary_op" /\ prog[gcur].op = "CONS"
  <2>1. type[gcur] = type[Child(gcur, 2)]
    <3>1. prog[gcur].op \notin CompareOps
      BY <1>4 DEF CompareOps
    <3> QED BY <1>1, <1>4, <3>1, ConsIsItsTail
  <2>2. Faithful(Child(gcur, 1), Subtype(type[gcur]))
    BY <1>1, <1>4 DEF Supported, SupportedOperator, Operators
  <2>3. Converts(Child(gcur, 1), Id(Subtype(type[Child(gcur, 2)])))
    BY <2>1, <2>2, FaithfulConverts
  <2> QED BY <1>4, <2>3 DEF Accepts
<1>5. CASE Kind(gcur) = "function_call"
  <2>1. Callee(gcur) # {}
    BY <1>5, CalleeOfCall
  <2>2. DOMAIN Children(gcur) = 1 .. Len(Children(gcur))
    <3>1. prog \in Seq(NodeRecord) /\ prog[gcur] \in NodeRecord
      BY <1>1, ReadyFacts, ProgramsAssumption DEF WellFormed, Node
    <3> QED BY <3>1 DEF NodeRecord, Children
  <2>3. Faithful(Child(gcur, i), type[Child(CallableOf(resolved[gcur]), i)])
    <3>1. SupportedCall(gcur)
      BY <1>1, <1>5 DEF Supported
    <3> QED BY <2>2, <3>1 DEF SupportedCall
  <2>4. Converts(Child(gcur, i), FormalId(gcur, i))
    BY <2>3, FaithfulConverts DEF FormalId
  <2> QED BY <1>5, <2>1, <2>4 DEF Accepts
<1>6. CASE Kind(gcur) \in Statements \cup {"set_expression"}
  BY <1>6 DEF Accepts, Statements
<1>7. CASE Kind(gcur) = "binary_op" /\ prog[gcur].op # "CONS"
  BY <1>7 DEF Accepts
<1> QED BY <1>2, <1>3, <1>4, <1>5, <1>6, <1>7 DEF Plain, Operators

\* The handlers that accept their children one by one leave none out.
LEMMA PlainHandlers ==
  ASSUME Ready, Kind(gcur) \in Plain
  PROVE  /\ Kind(gcur) \in Visiting /\ Steps(gcur) = 1 .. Len(Children(gcur))
         /\ \A i : Operand(gcur, i) = Child(gcur, i)
         /\ Upcoming(gcur) # {} => Above(Upcoming(gcur)) = step[gcur] + 1 /\ step[gcur] + 1 \in Steps(gcur)
         /\ Upcoming(gcur) = {} =>
              \A i \in 1 .. Len(Children(gcur)) :
                LET c == Child(gcur, i) IN c \in Node \ {1} /\ Typed(value[c], ValueType(c))
<1>1. Kind(gcur) \notin Callables \cup Loops \cup {"if_expr", "variable_definition"} /\ Kind(gcur) \in Visiting
  BY DEF Plain, Operators, Statements, Callables, Loops, Visiting
<1>2. PICK len : len = Len(Children(gcur))
  OBVIOUS
<1>3. DOMAIN Children(gcur) = 1 .. len /\ Steps(gcur) = 1 .. len /\ len \in Nat /\ step[gcur] \in Nat
  <2>1. prog \in Seq(NodeRecord) /\ prog[gcur] \in NodeRecord
    BY ReadyFacts, ProgramsAssumption DEF WellFormed, Node
  <2>2. len \in Nat /\ step[gcur] \in Nat
    BY <1>2, ReadyFacts, ProgramFacts DEF WalkInv
  <2> QED BY <1>1, <1>2, <2>1, <2>2 DEF NodeRecord, Children, Steps
<1>4. \A i : Operand(gcur, i) = Child(gcur, i)
  BY <1>1 DEF Operand
<1>5. Upcoming(gcur) = {i \in 1 .. len : i > step[gcur]}
  BY <1>2, <1>3, AllAccepted DEF Upcoming
<1>6. ASSUME Upcoming(gcur) # {}
      PROVE  Above(Upcoming(gcur)) = step[gcur] + 1 /\ step[gcur] + 1 \in Steps(gcur)
  <2>1. PICK S \in SUBSET Nat : S = Upcoming(gcur)
    BY <1>3, <1>5
  <2>2. PICK s \in Nat : s = step[gcur]
    BY <1>3
  <2>3. PICK x \in S : TRUE
    BY <1>6, <2>1
  <2>4. s + 1 \in S /\ \A y \in S : s + 1 <= y
    BY <1>3, <1>5, <2>1, <2>2, <2>3
  <2>5. Above(S) \in S /\ \A y \in S : Above(S) <= y
    BY <2>3, AbovePicks
  <2>6. Above(S) = s + 1
    BY <2>1, <2>2, <2>4, <2>5
  <2> QED BY <1>3, <1>5, <2>1, <2>2, <2>4, <2>6
<1>7. ASSUME Upcoming(gcur) = {}, NEW i \in 1 .. Len(Children(gcur))
      PROVE  LET c == Child(gcur, i) IN c \in Node \ {1} /\ Typed(value[c], ValueType(c))
  <2>1. i \in Steps(gcur) /\ i <= step[gcur]
    BY <1>2, <1>3, <1>5, <1>7
  <2> QED BY <1>1, <1>4, <2>1, OperandIsRight
<1> QED BY <1>1, <1>2, <1>3, <1>4, <1>6, <1>7

\* The operands of an operator have values of their types.
LEMMA OperatorOperands ==
  ASSUME Ready, Kind(gcur) \in Plain \cap Expressive, Upcoming(gcur) = {}
  PROVE  /\ gcur # 1 /\ Late = {} /\ ip # NoBlock
         /\ \A i \in 1 .. Len(Children(gcur)) :
              LET c == Child(gcur, i) IN c \in Node \ {1} /\ Typed(value[c], Carried(type[c])) /\ type[c] \in MaybeType
<1>1. gcur # 1 /\ Kind(gcur) \notin Callables \cup {"extern_function", "formal"}
  BY ReadyFacts, ProgramFacts DEF Expressive, Operators, Callables
<1>2. ASSUME NEW i \in 1 .. Len(Children(gcur))
      PROVE  LET c == Child(gcur, i) IN c \in Node \ {1} /\ Typed(value[c], Carried(type[c])) /\ type[c] \in MaybeType
  <2>1. ValueType(Child(gcur, i)) = Carried(type[Child(gcur, i)])
    BY ReadyFacts, OperandsAreExpressions
  <2>2. Child(gcur, i) \in Node \ {1} /\ Typed(value[Child(gcur, i)], ValueType(Child(gcur, i)))
    BY PlainHandlers
  <2> QED BY <2>1, <2>2, ReadyFacts
<1> QED BY <1>1, <1>2, Here

-----------------------------------------------------------------------------
(* What operators yield                                                    *)

\* A comparison of what the analyzer lets be compared is of the same low types.
LEMMA CompareIsRight ==
  ASSUME Ready, Kind(gcur) = "binary_op", prog[gcur].op \in CompareOps, Upcoming(gcur) = {}
  PROVE  Right(CompareOutcome(gcur), ValueType(gcur))
<1>1. gcur \in Node /\ Supported /\ prog \in Programs /\ BlocksAreTheirs
  BY ReadyFacts
<1>2. Len(Children(gcur)) = 2
  BY <1>1, ShapeFacts
<1>3. PICK c1, c2 : c1 = Child(gcur, 1) /\ c2 = Child(gcur, 2)
  OBVIOUS
<1>4. /\ Late = {}
      /\ Typed(value[c1], Carried(type[c1])) /\ Typed(value[c2], Carried(type[c2]))
      /\ type[c1] \in MaybeType /\ type[c2] \in MaybeType
  <2>1. Kind(gcur) \in Plain \cap Expressive
    BY DEF Plain, Operators, Expressive
  <2>2. 1 \in 1 .. Len(Children(gcur)) /\ 2 \in 1 .. Len(Children(gcur))
    BY <1>2
  <2> QED BY <1>3, <2>1, <2>2, OperatorOperands
<1>5. PICK i1, i2 : i1 = Id(type[c1]) /\ i2 = Id(type[c2])
  OBVIOUS
<1>6. /\ type[gcur] = Scalar("BOOL")
      /\ i1 = i2 \/ {i1, i2} \in {{"INT", "FLOAT"}, {"NIL", "LIST"}}
  <2>1. type[gcur] = CompareType(type[c1], type[c2]) /\ type[gcur] \notin Failures
    BY <1>1, <1>3, RulesGive DEF RuleOf, BinaryOpType, Ruled
  <2> QED BY <1>5, <2>1 DEF CompareType, Failures
<1>7. i1 \in Predicated /\ (i1 = "NIL" => i2 # "NIL")
  <2>1. SupportedOperator(gcur)
    BY <1>1 DEF Supported, Operators
  <2>2. prog[gcur].op # "CONS"
    BY DEF CompareOps
  <2> QED BY <1>3, <1>5, <2>1, <2>2 DEF SupportedOperator
<1>8. PICK l, v : l = value[c1] /\ v = value[c2]
  OBVIOUS
<1>9. l # NullValue /\ v # NullValue /\ v # Dead
  BY <1>4, <1>8, NotDead DEF Typed
<1>10. \A ty \in {"i64", "double", "i1"} : Instruction(ty).ty = ty /\ Instruction(ty) # Dead /\ Typed(Instruction(ty), ty)
  BY <1>1, MadeIsTyped, NotDead, SignaturesOfLists DEF Typed, ListTypes
<1>11. PICK r : r = Coerce(v, i2, IF i1 = "NIL" THEN "BOOL" ELSE i1)
  OBVIOUS
<1>12. r # Dead /\ SameLow(l.ty, r.ty) /\ ((i1 = "FLOAT") <=> (l.ty = "double"))
  <2>1. CASE i1 = "INT"
    <3>1. i2 = "INT" \/ i2 = "FLOAT"
      BY <1>6, <2>1
    <3>2. l.ty = "i64"
      BY <1>4, <1>5, <1>8, <2>1, LowTypesOfScalars DEF Typed
    <3>3. CASE i2 = "INT"
      <4>1. r = v
        BY <1>11, <2>1, <3>3 DEF Coerce
      <4>2. v.ty = "i64"
        BY <1>4, <1>5, <1>8, <3>3, LowTypesOfScalars DEF Typed
      <4> QED BY <1>9, <2>1, <3>2, <4>1, <4>2 DEF SameLow
    <3>4. CASE i2 = "FLOAT"
      <4>1. r = Cast(v, LowType(Scalar("INT")))
        BY <1>11, <2>1, <3>4 DEF Coerce
      <4>2. r = Instruction("i64")
        BY <1>9, <4>1, LowTypesOfScalars DEF Cast, ScalarIds
      <4> QED BY <1>10, <2>1, <3>2, <4>2 DEF SameLow
    <3> QED BY <3>1, <3>3, <3>4
  <2>2. CASE i1 = "FLOAT"
    <3>1. i2 = "INT" \/ i2 = "FLOAT"
      BY <1>6, <2>2
    <3>2. l.ty = "double"
      BY <1>4, <1>5, <1>8, <2>2, LowTypesOfScalars DEF Typed
    <3>3. CASE i2 = "FLOAT"
      <4>1. r = v
        BY <1>11, <2>2, <3>3 DEF Coerce
      <4>2. v.ty = "double"
        BY <1>4, <1>5, <1>8, <3>3, LowTypesOfScalars DEF Typed
      <4> QED BY <1>9, <2>2, <3>2, <4>1, <4>2 DEF SameLow
    <3>4. CASE i2 = "INT"
      <4>1. r = Cast(v, LowType(Scalar("FLOAT")))
        BY <1>11, <2>2, <3>4 DEF Coerce
      <4>2. r = Instruction("double")
        BY <1>9, <4>1, LowTypesOfScalars DEF Cast, ScalarIds
      <4> QED BY <1>10, <2>2, <3>2, <4>2 DEF SameLow
    <3> QED BY <3>1, <3>3, <3>4
  <2>3. CASE i1 = "BOOL"
    <3>1. i2 = "BOOL"
      BY <1>6, <2>3
    <3>2. l.ty = "i1" /\ v.ty = "i1"
      BY <1>4, <1>5, <1>8, <2>3, <3>1, LowTypesOfScalars DEF Typed
    <3>3. r = v
      BY <1>11, <2>3, <3>1 DEF Coerce
    <3> QED BY <1>9, <2>3, <3>2, <3>3 DEF SameLow
  <2>4. CASE i1 = "NIL"
    <3>1. i2 = "LIST"
      BY <1>6, <1>7, <2>4
    <3>2. r = v
      BY <1>11, <2>4, <3>1 DEF Coerce
    <3>3. l.ty = "ptr"
      BY <1>4, <1>5, <1>8, <2>4, LowTypesOfScalars DEF Typed
    <3>4. v.ty \in Pointers
      <4>1. v.ty = LowType(type[c2])
        BY <1>4, <1>5, <1>8, <3>1 DEF Typed, Carried
      <4> QED BY <1>5, <3>1, <4>1 DEF LowType, IsList, Pointers, ListTypes
    <3> QED BY <1>9, <2>4, <3>2, <3>3, <3>4 DEF SameLow, Pointers, ListTypes
  <2> QED BY <1>7, <2>1, <2>2, <2>3, <2>4 DEF Predicated
<1>13. CompareOutcome(gcur) = Outcome(Instruction("i1"), {})
  <2>1. CompareOutcome(gcur) =
          Outcome(Instruction("i1"),
             Unless(SameLow(l.ty, r.ty) /\ ((i1 = "FLOAT") <=> (l.ty = "double")), "operand")
               \cup Unless(i1 \in Predicated, "predicate") \cup Late)
    BY <1>3, <1>5, <1>7, <1>8, <1>9, <1>11, <1>12 DEF CompareOutcome
  <2>2. Unless(SameLow(l.ty, r.ty) /\ ((i1 = "FLOAT") <=> (l.ty = "double")), "operand") = {}
    BY <1>12 DEF Unless
  <2>3. Unless(i1 \in Predicated, "predicate") = {}
    BY <1>7 DEF Unless
  <2> QED BY <1>4, <2>1, <2>2, <2>3
<1>14. ValueType(gcur) = "i1"
  <2>1. ValueType(gcur) = Carried(type[gcur])
    BY DEF ValueType, ExpressionType, FunctionKinds
  <2> QED BY <1>6, <2>1, LowTypesOfScalars DEF ScalarIds
<1> QED BY <1>10, <1>13, <1>14 DEF Right, Outcome

\* A cell in front of a list of its kind.
LEMMA ConsIsRight ==
  ASSUME Ready, Kind(gcur) = "binary_op", prog[gcur].op = "CONS", Upcoming(gcur) = {}
  PROVE  Right(ConsOutcome(gcur), ValueType(gcur))
<1>1. gcur \in Node /\ Supported /\ prog \in Programs /\ BlocksAreTheirs
  BY ReadyFacts
<1>2. Len(Children(gcur)) = 2
  BY <1>1, ShapeFacts
<1>3. PICK c1, c2, t : c1 = Child(gcur, 1) /\ c2 = Child(gcur, 2) /\ t = type[c2]
  OBVIOUS
<1>4. /\ Late = {} /\ c1 \in Node
      /\ Typed(value[c1], Carried(type[c1])) /\ Typed(value[c2], Carried(t))
  <2>1. Kind(gcur) \in Plain \cap Expressive
    BY DEF Plain, Operators, Expressive
  <2>2. 1 \in 1 .. Len(Children(gcur)) /\ 2 \in 1 .. Len(Children(gcur))
    BY <1>2
  <2> QED BY <1>3, <2>1, <2>2, OperatorOperands
<1>5. type[gcur] = t /\ t \in Type
  <2>1. prog[gcur].op \notin CompareOps
    BY DEF CompareOps
  <2> QED BY <1>1, <1>3, <2>1, ConsIsItsTail
<1>6. Implemented(t) /\ Faithful(c1, Subtype(t))
  <2>1. SupportedOperator(gcur)
    BY <1>1 DEF Supported, Operators
  <2> QED BY <1>3, <1>5, <2>1 DEF SupportedOperator
<1>7. PICK list : list = ListKind(t)
  OBVIOUS
<1>8. /\ Carried(t) = list /\ list \in ListTypes /\ Number(Subtype(t)) /\ ElementOf(list) = LowType(Subtype(t))
  BY <1>5, <1>6, <1>7, LowTypesOfLists
<1>9. Carried(Subtype(t)) = ElementOf(list)
  <2>1. LowType(Subtype(t)) # "none"
    BY <1>8, LowTypesOfLists, NumbersAreTypes
  <2> QED BY <1>8, <2>1, LowTypesOfScalars
<1>10. PICK head : head = Converted(c1, Id(Subtype(t)))
  OBVIOUS
<1>11. Typed(head, ElementOf(list)) /\ head # Dead
  <2>1. Subtype(t) \in MaybeType
    BY <1>8, NumbersAreTypes DEF MaybeType
  <2>2. Typed(head, ElementOf(list))
    BY <1>1, <1>4, <1>6, <1>9, <1>10, <2>1, ConvertedRight
  <2> QED BY <2>2, NotDead DEF Typed
<1>12. ConsOutcome(gcur) = CallRuntime(list, "cons", <<head, value[c2]>>)
  BY <1>3, <1>6, <1>7, <1>10, <1>11 DEF ConsOutcome
<1>13. Right(CallRuntime(list, "cons", <<head, value[c2]>>), list)
  BY <1>1, <1>4, <1>8, <1>11, CallOnTwo, SignaturesOfLists
<1>14. ValueType(gcur) = list
  BY <1>5, <1>8 DEF ValueType, ExpressionType, FunctionKinds
<1> QED BY <1>12, <1>13, <1>14

\* The head of a list of integers, and the tail of a list.
LEMMA UnaryIsRight ==
  ASSUME Ready, Kind(gcur) = "unary_op", Upcoming(gcur) = {}
  PROVE  Right(UnaryOutcome(gcur), ValueType(gcur))
<1>1. gcur \in Node /\ Supported /\ prog \in Programs /\ BlocksAreTheirs
  BY ReadyFacts
<1>2. Len(Children(gcur)) = 1
  BY <1>1, ShapeFacts
<1>3. PICK c, t, op : c = Child(gcur, 1) /\ t = type[c] /\ op = prog[gcur].op
  OBVIOUS
<1>4. Late = {} /\ ip # NoBlock /\ Typed(value[c], Carried(t)) /\ t \in MaybeType
  <2>1. Kind(gcur) \in Plain \cap Expressive
    BY DEF Plain, Operators, Expressive
  <2>2. 1 \in 1 .. Len(Children(gcur))
    BY <1>2
  <2> QED BY <1>3, <2>1, <2>2, OperatorOperands
<1>5. op \in {"CAR", "CDR"} /\ Implemented(t) /\ (op = "CAR" => t = ListOf(Scalar("INT")))
  <2>1. SupportedOperator(gcur)
    BY <1>1 DEF Supported, Operators
  <2> QED BY <1>3, <2>1 DEF SupportedOperator
<1>6. /\ t # Null
      /\ type[gcur] = IF op = "CAR" THEN CopyOf(Subtype(t)) ELSE t
  <2>1. type[gcur] = UnaryOpType(gcur) /\ type[gcur] \notin Failures
    BY <1>1, RulesGive DEF RuleOf, Ruled
  <2> QED BY <1>3, <1>5, <2>1 DEF UnaryOpType, Failures
<1>7. t \in Type
  BY <1>4, <1>6 DEF MaybeType
<1>8. PICK list : list = ListKind(t)
  OBVIOUS
<1>9. /\ Carried(t) = list /\ list \in ListTypes /\ (list = "ints") = (Subtype(t) = Scalar("INT"))
  BY <1>5, <1>7, <1>8, LowTypesOfLists
<1>10. ValueType(gcur) = Carried(type[gcur])
  BY DEF ValueType, ExpressionType, FunctionKinds
<1>11. CASE op = "CAR"
  <2>1. Subtype(t) = Scalar("INT")
    <3>1. Number(Scalar("INT"))
      BY DEF Number
    <3> QED BY <1>5, <1>11, <3>1, LowTypesOfLists, NumbersAreTypes
  <2>2. list = "ints" /\ type[gcur] = Scalar("INT")
    BY <1>6, <1>9, <1>11, <2>1 DEF CopyOf, Scalar, Null
  <2>3. ValueType(gcur) = "i64"
    BY <1>10, <2>2, LowTypesOfScalars DEF ScalarIds
  <2>4. Right(CallRuntime(list, "car", <<value[c]>>), "ptr")
    BY <1>1, <1>4, <1>9, CallOnOne, SignaturesOfLists
  <2>5. UnaryOutcome(gcur) = Outcome(AtBlock(Instruction("i64")), CallRuntime(list, "car", <<value[c]>>).wrong)
    BY <1>3, <1>5, <1>8, <1>11, <2>2 DEF UnaryOutcome, CarOutcome
  <2>6. AtBlock(Instruction("i64")) = Instruction("i64") /\ Typed(Instruction("i64"), "i64")
    <3>1. "i64" \in LowTypes
      BY DEF LowTypes
    <3> QED BY <1>1, <1>4, <3>1, MadeIsTyped
  <2> QED BY <2>3, <2>4, <2>5, <2>6 DEF Right, Outcome
<1>12. CASE op = "CDR"
  <2>1. Right(CallRuntime(list, "cdr", <<value[c]>>), list)
    BY <1>1, <1>4, <1>9, CallOnOne, SignaturesOfLists
  <2>2. UnaryOutcome(gcur) = CallRuntime(list, "cdr", <<value[c]>>)
    BY <1>3, <1>5, <1>8, <1>12 DEF UnaryOutcome
  <2> QED BY <1>6, <1>9, <1>10, <1>12, <2>1, <2>2
<1> QED BY <1>5, <1>11, <1>12

\* A list with a type that has elements is a list of them.
LEMMA ListsOfTheirElements ==
  ASSUME NEW l \in MaybeType, Subtype(l) # Null
  PROVE  l = ListOf(Subtype(l))
<1>1. l.depth > 0 /\ l \in Type
  BY DEF Subtype, MaybeType, Null
<1>2. l = [base |-> l.base, depth |-> l.depth] /\ l.depth \in Nat
  BY <1>1 DEF Type
<1>3. Subtype(l).base = l.base /\ Subtype(l).depth = l.depth - 1
  BY <1>1 DEF Subtype
<1>4. (l.depth - 1) + 1 = l.depth
  BY <1>2
<1> QED BY <1>2, <1>3, <1>4 DEF ListOf

\* The fold of a list of numbers.
LEMMA FoldIsRight ==
  ASSUME Ready, Kind(gcur) = "list_op", Upcoming(gcur) = {}
  PROVE  Right(ListOpOutcome(gcur), ValueType(gcur))
<1>1. gcur \in Node /\ Supported /\ prog \in Programs /\ BlocksAreTheirs
  BY ReadyFacts
<1>2. Len(Children(gcur)) = 1
  BY <1>1, ShapeFacts
<1>3. PICK c, l, e, op : c = Child(gcur, 1) /\ l = type[c] /\ e = Subtype(l) /\ op = prog[gcur].op
  OBVIOUS
<1>4. Late = {} /\ Typed(value[c], Carried(l)) /\ l \in MaybeType
  <2>1. Kind(gcur) \in Plain \cap Expressive
    BY DEF Plain, Operators, Expressive
  <2>2. 1 \in 1 .. Len(Children(gcur))
    BY <1>2
  <2> QED BY <1>3, <2>1, <2>2, OperatorOperands
<1>5. op \in {"PLUS", "MINUS", "TIMES", "DIVIDE"} /\ Number(type[gcur])
  <2>1. SupportedOperator(gcur)
    BY <1>1 DEF Supported, Operators
  <2> QED BY <1>3, <2>1 DEF SupportedOperator
<1>6. e # Null /\ type[gcur] = e
  <2>1. type[gcur] = ListOpType(gcur) /\ type[gcur] \notin Failures
    BY <1>1, RulesGive DEF RuleOf, Ruled
  <2>2. Mismatch(l, l) \in Failures /\ Rejected \in Failures
    BY TypeFacts DEF Failures
  <2>3. e # Null
    BY <1>3, <2>1, <2>2 DEF ListOpType
  <2>4. CASE op \in {"MINUS", "TIMES", "DIVIDE"}
    BY <1>3, <2>1, <2>2, <2>3, <2>4 DEF ListOpType
  <2>5. CASE op = "PLUS"
    BY <1>3, <2>1, <2>2, <2>3, <2>5 DEF ListOpType
  <2> QED BY <1>5, <2>3, <2>4, <2>5
<1>7. l = ListOf(e)
  BY <1>3, <1>4, <1>6, ListsOfTheirElements
<1>8. PICK list : list = ListKind(ListOf(e))
  OBVIOUS
<1>9. /\ Implemented(ListOf(e)) /\ Carried(l) = list /\ list \in ListTypes /\ ElementOf(list) = LowType(e)
      /\ Carried(e) = LowType(e)
  <2>1. e \in Type
    BY <1>5, <1>6, NumbersAreTypes
  <2>2. Implemented(ListOf(e)) /\ ListOf(e) \in Type /\ Subtype(ListOf(e)) = e /\ LowType(e) # "none"
    BY <1>5, <1>6, <2>1, LowTypesOfLists
  <2>3. Carried(ListOf(e)) = list /\ list \in ListTypes /\ ElementOf(list) = LowType(Subtype(ListOf(e)))
    BY <1>8, <2>2, LowTypesOfLists
  <2> QED BY <1>7, <2>2, <2>3, LowTypesOfScalars
<1>10. PICK fold \in Folds : ListOpOutcome(gcur) = CallRuntime(list, fold, <<value[c]>>)
  <2>1. PICK F : F = [PLUS |-> "add", MINUS |-> "subtract", TIMES |-> "multiply", DIVIDE |-> "divide"]
    OBVIOUS
  <2>2. op \in DOMAIN F /\ F[op] \in Folds
    BY <1>5, <2>1 DEF Folds
  <2>3. ListOpOutcome(gcur) = CallRuntime(list, F[op], <<value[c]>>)
    BY <1>3, <1>6, <1>8, <1>9, <2>1, <2>2 DEF ListOpOutcome
  <2> QED BY <2>2, <2>3
<1>11. Right(CallRuntime(list, fold, <<value[c]>>), ElementOf(list))
  BY <1>1, <1>4, <1>9, CallOnOne, SignaturesOfLists
<1>12. ValueType(gcur) = Carried(type[gcur])
  BY DEF ValueType, ExpressionType, FunctionKinds
<1> QED BY <1>6, <1>9, <1>10, <1>11, <1>12

\* The list in the tail of a list that is implemented has its type of elements.
LEMMA TailsAreAlike ==
  ASSUME Ready, NEW n \in Node, Kind(n) = "list", Len(Children(n)) = 2
  PROVE  LET c == Child(n, 2) IN
           Implemented(type[c]) /\ ListKind(type[c]) = ListKind(type[n]) /\ Carried(type[c]) = ListKind(type[n])
<1>1. Supported /\ prog \in Programs /\ \A m \in Node : type[m] \in MaybeType
  BY ReadyFacts
<1>2. PICK c : c = Child(n, 2)
  OBVIOUS
<1>3. c \in Node \ {1} /\ Parent(c) = n /\ Kind(c) = "list"
  <2>1. 2 \in 1 .. Len(Children(n))
    OBVIOUS
  <2>2. Shape(prog, n)
    BY <1>1, ProgramsAssumption DEF WellFormed, Node
  <2>3. Kind(Child(n, 2)) = "list"
    BY <2>2 DEF Shape, Kind, Child, Children
  <2> QED BY <1>1, <1>2, <2>1, <2>3, TreeFacts
<1>4. SupportedOperator(n) /\ SupportedOperator(c)
  BY <1>1, <1>3 DEF Supported, Operators
<1>5. Implemented(type[n]) /\ \A m \in Spine(n) : SameType(Child(m, 1), Subtype(type[n]))
  BY <1>4 DEF SupportedOperator
<1>6. Implemented(type[c]) /\ \A m \in Spine(c) : SameType(Child(m, 1), Subtype(type[c]))
  BY <1>3, <1>4 DEF SupportedOperator
<1>7. n \in Path(c) /\ c \in Path(c) /\ \A a \in Path(c) : a \in Node /\ (a = c \/ a \in Path(n))
  <2>1. n \in Path(n) /\ Path(n) \subseteq Path(c) /\ c \in Path(c) /\ Path(c) \subseteq Node
    BY <1>1, <1>3, PathFacts
  <2> QED BY <1>1, <1>3, <2>1, ParentOnPath
<1>8. c \in n .. prog[n].last /\ c \in c .. prog[c].last
  <2>1. c \in Nat /\ n \in Nat /\ prog[n].last \in Nat /\ prog[c].last \in Nat
    BY <1>1, <1>3, ProgramFacts DEF Node
  <2>2. n <= c /\ c <= prog[n].last /\ c <= prog[c].last
    BY <1>7 DEF Path
  <2> QED BY <2>1, <2>2
<1>9. c \in Spine(n) /\ c \in Spine(c)
  <2>1. IsTail(c)
    BY <1>2, <1>3 DEF IsTail
  <2>2. \A a \in Path(c) : a > n => a = c
    <3>1. \A a \in Path(n) : ~(a > n)
      BY <1>1, ProgramFacts DEF Path
    <3> QED BY <1>7, <3>1
  <2>3. \A a \in Path(c) : ~(a > c)
    <3>1. c \in Nat /\ \A a \in Path(c) : a \in Nat /\ a <= c
      BY <1>3, ProgramFacts, <1>1 DEF Node, Path
    <3> QED BY <3>1
  <2> QED BY <1>8, <2>1, <2>2, <2>3 DEF Spine
<1>10. Subtype(type[n]) = Subtype(type[c])
  BY <1>5, <1>6, <1>9 DEF SameType
<1>11. IsList(type[n]) /\ IsList(type[c]) /\ ListKind(type[c]) = ListKind(type[n])
  <2>1. IsList(type[n]) /\ IsList(type[c])
    BY <1>5, <1>6 DEF Implemented, ListKind, ListTypes
  <2>2. Id(type[n]) = "LIST" /\ Id(type[c]) = "LIST"
    BY <2>1 DEF IsList
  <2> QED BY <1>10, <2>1, <2>2 DEF ListKind, LowType
<1>12. Carried(type[c]) = ListKind(type[c])
  BY <1>11 DEF Carried, ListKind, IsList
<1> QED BY <1>2, <1>6, <1>11, <1>12

\* A quoted list of elements of its type.
LEMMA ListIsRight ==
  ASSUME Ready, Kind(gcur) = "list", Upcoming(gcur) = {}
  PROVE  Right(ListOutcome(gcur), ValueType(gcur))
<1>1. gcur \in Node /\ Supported /\ prog \in Programs /\ BlocksAreTheirs /\ \A m \in Node : type[m] \in MaybeType
  BY ReadyFacts
<1>2. PICK k : k = Len(Children(gcur)) /\ k \in {1, 2}
  <2>1. Shape(prog, gcur)
    BY <1>1, ProgramsAssumption DEF WellFormed, Node
  <2> QED BY <2>1 DEF Shape, Kind, Children
<1>3. PICK c, list : c = Child(gcur, 1) /\ list = ListKind(type[gcur])
  OBVIOUS
<1>4. Kind(gcur) \in Plain \cap Expressive
  BY DEF Plain, Operators, Expressive
<1>5. Late = {} /\ Typed(value[c], Carried(type[c])) /\ type[c] \in MaybeType
  <2>1. 1 \in 1 .. Len(Children(gcur))
    BY <1>2
  <2> QED BY <1>3, <1>4, <2>1, OperatorOperands
<1>6. Implemented(type[gcur]) /\ type[c] = Subtype(type[gcur])
  <2>1. SupportedOperator(gcur)
    BY <1>1 DEF Supported, Operators
  <2>2. gcur \in Spine(gcur)
    <3>1. gcur \in Nat /\ prog[gcur].last \in Nat /\ gcur \in Path(gcur) /\ \A a \in Path(gcur) : a \in Nat /\ a <= gcur
      BY <1>1, ProgramFacts DEF Node, Path
    <3>2. gcur \in gcur .. prog[gcur].last
      BY <3>1 DEF Path
    <3>3. \A a \in Path(gcur) : ~(a > gcur)
      BY <3>1
    <3> QED BY <3>2, <3>3 DEF Spine
  <2>3. SameType(Child(gcur, 1), Subtype(type[gcur]))
    BY <2>1, <2>2 DEF SupportedOperator
  <2> QED BY <1>3, <2>1, <2>3 DEF SupportedOperator, SameType
<1>7. type[gcur] \in Type
  <2>1. ~Implemented(Null)
    BY DEF Implemented, ListKind, IsList, Id, Null, ListTypes
  <2> QED BY <1>1, <1>6, <2>1 DEF MaybeType
<1>8. /\ Carried(type[gcur]) = list /\ list \in ListTypes
      /\ ElementOf(list) = LowType(type[c]) /\ Number(type[c])
  BY <1>3, <1>6, <1>7, LowTypesOfLists
<1>9. Typed(value[c], ElementOf(list))
  <2>1. LowType(type[c]) # "none"
    BY <1>8, NumbersAreTypes, LowTypesOfLists
  <2> QED BY <1>5, <1>8, <2>1, LowTypesOfScalars
<1>10. Typed(Instruction(list), list)
  BY <1>1, <1>8, MadeIsTyped, SignaturesOfLists
<1>11. ValueType(gcur) = list
  BY <1>8 DEF ValueType, ExpressionType, FunctionKinds
<1>12. CASE k = 1
  <2>1. Right(CallRuntime(list, "set_head", <<Instruction(list), value[c]>>), "i8")
    BY <1>1, <1>5, <1>8, <1>9, <1>10, CallOnTwo, SignaturesOfLists
  <2>2. ListOutcome(gcur) =
          Outcome(Instruction(list), CallRuntime(list, "set_head", <<Instruction(list), value[c]>>).wrong)
    BY <1>2, <1>3, <1>6, <1>12 DEF ListOutcome
  <2> QED BY <1>10, <1>11, <2>1, <2>2 DEF Right, Outcome
<1>13. CASE k = 2
  <2>1. PICK d : d = Child(gcur, 2)
    OBVIOUS
  <2>2. Typed(value[d], Carried(type[d]))
    <3>1. 2 \in 1 .. Len(Children(gcur))
      BY <1>2, <1>13
    <3> QED BY <1>4, <2>1, <3>1, OperatorOperands
  <2>3. Carried(type[d]) = list
    BY <1>1, <1>2, <1>3, <1>13, <2>1, TailsAreAlike
  <2>4. Right(CallRuntime(list, "cons", <<value[c], value[d]>>), list)
    BY <1>1, <1>5, <1>8, <1>9, <2>2, <2>3, CallOnTwo, SignaturesOfLists
  <2>5. ListOutcome(gcur) = CallRuntime(list, "cons", <<value[c], value[d]>>)
    BY <1>2, <1>3, <1>6, <1>13, <2>1 DEF ListOutcome
  <2> QED BY <1>11, <2>4, <2>5
<1> QED BY <1>2, <1>12, <1>13

LEMMA LiteralIsRight ==
  ASSUME Ready, Kind(gcur) = "literal"
  PROVE  Right(LiteralOutcome(gcur), ValueType(gcur))
<1>1. gcur \in Node /\ prog \in Programs /\ BlocksAreTheirs
  BY ReadyFacts
<1>2. ip # NoBlock
  <2>1. gcur # 1 /\ Kind(gcur) \notin Callables \cup {"extern_function", "formal"}
    BY <1>1, ProgramFacts DEF Callables
  <2> QED BY <2>1, Here
<1>3. PICK t : t = type[gcur]
  OBVIOUS
<1>4. ValueType(gcur) = Carried(t)
  BY <1>3 DEF ValueType, ExpressionType, FunctionKinds
<1>5. t \in LiteralTypes
  BY <1>1, <1>3, RulesGive
<1>6. Id(t) \in {"INT", "FLOAT", "STRING", "NIL"}
  BY <1>5, LowTypesOfScalars DEF LiteralTypes, ScalarIds
<1>7. \A ty \in LowTypes : Typed(Constant(ty), ty) /\ AtBlock(Constant(ty)) = Constant(ty)
  BY <1>1, <1>2, MadeIsTyped
<1>8. {"ptr", "i64", "double"} \subseteq LowTypes
  BY DEF LowTypes, Pointers
<1>9. LiteralOutcome(gcur) = Outcome(Constant(Carried(t)), {}) /\ Carried(t) \in {"ptr", "i64", "double"}
  <2>1. CASE Id(t) = "INT"
    BY <1>3, <2>1, LowTypesOfScalars DEF LiteralOutcome
  <2>2. CASE Id(t) = "FLOAT"
    BY <1>3, <2>2, LowTypesOfScalars DEF LiteralOutcome
  <2>3. CASE Id(t) = "STRING"
    BY <1>3, <1>7, <1>8, <2>3, LowTypesOfScalars DEF LiteralOutcome
  <2>4. CASE Id(t) = "NIL"
    BY <1>3, <2>4, LowTypesOfScalars DEF LiteralOutcome
  <2> QED BY <1>6, <2>1, <2>2, <2>3, <2>4
<1> QED BY <1>4, <1>7, <1>8, <1>9 DEF Right, Outcome

LEMMA BodyIsRight ==
  ASSUME Ready, Kind(gcur) = "function_body", Upcoming(gcur) = {}
  PROVE  Right(Outcome(value[ReturnExpression(gcur)], {}), ValueType(gcur))
<1>1. gcur \in Node /\ Supported /\ prog \in Programs
  BY ReadyFacts
<1>2. PICK k : k = Len(Children(gcur))
  OBVIOUS
<1>3. k \in 1 .. Len(Children(gcur))
  <2>1. k \in Nat /\ k > 0
    BY <1>1, <1>2, ShapeFacts, ProgramFacts
  <2> QED BY <1>2, <2>1
<1>4. Typed(value[Child(gcur, k)], ValueType(Child(gcur, k)))
  <2>1. Kind(gcur) \in Plain
    BY DEF Plain, Statements
  <2> QED BY <1>3, <2>1, PlainHandlers
<1>5. ValueType(gcur) = ValueType(Child(gcur, k))
  BY <1>1, <1>2, <1>3, OperandsAreExpressions
<1> QED BY <1>2, <1>4, <1>5 DEF Right, Outcome, ReturnExpression, LastChild

-----------------------------------------------------------------------------
(* Calls                                                                   *)

\* What a call runs is of the call's type and takes what the call has.
LEMMA CalledOfType ==
  ASSUME Ready, NEW n \in Node, Kind(n) = "function_call"
  PROVE  LET f == CallableOf(resolved[n]) IN
           /\ f \in Node /\ HasSignature(f) /\ type[n] = type[f] /\ FormalCount(f) = Len(Children(n))
           /\ \A i \in 1 .. Len(Children(n)) :
                /\ Faithful(Child(n, i), type[Child(f, i)]) /\ Child(f, i) \in Node
                /\ FormalsOf(f)[i] = Child(f, i)
<1>1. prog \in Programs /\ Supported /\ GeneratorInductive /\ status = "accepted"
  BY ReadyFacts
<1>2. PICK d : d = resolved[n]
  OBVIOUS
<1>3. d \in Node /\ Kind(d) \in DefinitionKinds /\ CallFailures(n, d) = {}
  BY <1>1, <1>2, WhatIsAccepted
<1>4. PICK f : f = CallableOf(d)
  OBVIOUS
<1>5. SupportedCall(n)
  BY <1>1 DEF Supported
<1>6. DOMAIN Children(n) = 1 .. Len(Children(n)) /\ Len(Children(n)) \in Nat
  <2>1. prog \in Seq(NodeRecord) /\ prog[n] \in NodeRecord
    BY <1>1, ProgramsAssumption DEF WellFormed, Node
  <2> QED BY <2>1 DEF NodeRecord, Children
<1>7. /\ Kind(d) # "formal" /\ (Kind(d) \in VariableKinds => Kind(Child(d, 1)) = "lambda")
      /\ Len(Children(n)) = FormalCount(f)
  BY <1>3, <1>4 DEF CallFailures
<1>8. /\ f \in Node /\ Kind(f) \in FunctionKinds \cup {"lambda"} /\ type[f] = type[d]
  <2>1. CASE Kind(d) \in VariableKinds
    <3>1. Kind(d) \in {"variable_definition", "iterator_definition"}
      BY <1>7, <2>1 DEF VariableKinds
    <3>2. 1 \in 1 .. Len(Children(d))
      <4>1. PICK k \in Nat : k = Len(Children(d))
        BY <1>1, <1>3, ProgramFacts
      <4>2. k = 1 \/ k > 0
        BY <1>1, <1>3, <3>1, <4>1, ShapeFacts
      <4>3. 1 \in 1 .. k
        BY <4>2
      <4> QED BY <4>1, <4>3
    <3>3. f = Child(d, 1) /\ f \in Node /\ Parent(f) = d /\ Kind(f) = "lambda"
      BY <1>1, <1>3, <1>4, <1>7, <2>1, <3>2, TreeFacts DEF CallableOf
    <3>4. Kind(d) = "variable_definition"
      BY <1>1, <3>3 DEF Supported, SupportedDefinition
    <3>5. type[d] = CopyOf(type[f]) /\ type[d] \notin Failures
      BY <1>3, <3>3, <3>4, RulesGive DEF RuleOf, Ruled
    <3> QED BY <3>3, <3>5 DEF CopyOf, Failures
  <2>2. CASE Kind(d) \in FunctionKinds
    BY <1>3, <1>4, <2>2 DEF CallableOf, FunctionKinds, VariableKinds
  <2> QED BY <1>3, <2>1, <2>2 DEF DefinitionKinds
<1>9. HasSignature(f)
  BY <1>1, <1>8 DEF Supported, SupportedDefinition
<1>10. type[n] = type[f]
  BY <1>2, <1>5, <1>8 DEF SupportedCall
<1>11. ASSUME NEW i \in 1 .. Len(Children(n))
       PROVE  /\ Faithful(Child(n, i), type[Child(f, i)]) /\ Child(f, i) \in Node
              /\ FormalsOf(f)[i] = Child(f, i)
  <2>1. Faithful(Child(n, i), type[Child(f, i)])
    BY <1>2, <1>4, <1>5, <1>6 DEF SupportedCall
  <2>2. Child(f, i) \in Node
    BY <1>1, <1>3, <1>4, CalledFormals
  <2>3. PICK s, k : s = Children(f) /\ k = FormalCount(f)
    OBVIOUS
  <2>4. s \in Seq(Nat) /\ k \in Nat /\ k <= Len(s)
    <3>1. prog \in Seq(NodeRecord) /\ prog[f] \in NodeRecord
      BY <1>1, <1>8, ProgramsAssumption DEF WellFormed, Node
    <3>2. s \in Seq(Nat)
      BY <2>3, <3>1 DEF NodeRecord, Children
    <3>3. k \in Nat
      BY <1>6, <1>7, <2>3
    <3>4. k = Len(s) \/ k = Len(s) - 1
      BY <2>3 DEF FormalCount
    <3> QED BY <3>2, <3>3, <3>4
  <2>5. i \in 1 .. k
    BY <1>7, <2>3
  <2>6. SubSeq(s, 1, k)[i] = s[i]
    BY <2>4, <2>5
  <2> QED BY <2>1, <2>2, <2>3, <2>6 DEF FormalsOf, Child, Children
<1> QED BY <1>2, <1>4, <1>7, <1>8, <1>9, <1>10, <1>11

\* A call with a value of the type it has.
LEMMA CallHasItsType ==
  ASSUME Ready, Kind(gcur) = "function_call", Upcoming(gcur) = {}
  PROVE  Right(CallOutcome(gcur), ValueType(gcur))
<1>1. gcur \in Node /\ Supported /\ prog \in Programs /\ BlocksAreTheirs /\ \A m \in Node : type[m] \in MaybeType
  BY ReadyFacts
<1>2. PICK f, k, s : f = CallableOf(resolved[gcur]) /\ k = Len(Children(gcur)) /\ s = SignatureOf(f)
  OBVIOUS
<1>3. /\ f \in Node /\ HasSignature(f) /\ type[gcur] = type[f] /\ FormalCount(f) = k
      /\ \A i \in 1 .. k : /\ Faithful(Child(gcur, i), type[Child(f, i)]) /\ Child(f, i) \in Node
                           /\ FormalsOf(f)[i] = Child(f, i)
  BY <1>1, <1>2, CalledOfType
<1>4. k \in Nat /\ DOMAIN Children(gcur) = 1 .. k
  <2>1. prog \in Seq(NodeRecord) /\ prog[gcur] \in NodeRecord
    BY <1>1, ProgramsAssumption DEF WellFormed, Node
  <2> QED BY <1>2, <2>1 DEF NodeRecord, Children
<1>5. PICK takes : takes = [i \in 1 .. FormalCount(f) |-> LowType(type[FormalsOf(f)[i]])]
  OBVIOUS
<1>6. s.takes = takes /\ s.gives = LowType(type[f])
  BY <1>2, <1>5 DEF SignatureOf, FunctionType
<1>7. /\ DOMAIN takes = 1 .. k /\ Len(takes) = k
      /\ \A i \in 1 .. k : takes[i] = LowType(type[Child(f, i)])
  BY <1>3, <1>4, <1>5
<1>8. s.gives # "none" /\ \A i \in 1 .. k : takes[i] # "none"
  BY <1>2, <1>3, <1>6, <1>7 DEF HasSignature
<1>9. PICK args : args = [i \in DOMAIN Children(gcur) |-> Converted(Child(gcur, i), FormalId(gcur, i))]
  OBVIOUS
<1>10. /\ DOMAIN args = 1 .. k /\ Len(args) = k
       /\ \A i \in 1 .. k : args[i] = Converted(Child(gcur, i), Id(type[Child(f, i)]))
  BY <1>2, <1>4, <1>9 DEF FormalId
<1>11. Late = {} /\ \A i \in 1 .. k : Child(gcur, i) \in Node /\ Typed(value[Child(gcur, i)], Carried(type[Child(gcur, i)]))
  <2>1. Kind(gcur) \in Plain \cap Expressive
    BY DEF Plain, Expressive
  <2> QED BY <1>2, <2>1, OperatorOperands
<1>12. ASSUME NEW i \in 1 .. k
       PROVE  Typed(args[i], takes[i])
  <2>1. type[Child(f, i)] \in MaybeType
    BY <1>1, <1>3
  <2>2. Typed(args[i], Carried(type[Child(f, i)]))
    BY <1>1, <1>3, <1>10, <1>11, <2>1, ConvertedRight
  <2>3. Carried(type[Child(f, i)]) = takes[i]
    BY <1>7, <1>8, LowTypesOfScalars
  <2> QED BY <2>2, <2>3
<1>13. s.gives \in LowTypes
  BY <1>6, LowTypesAreLow
<1>14. Right(CallOf(s, args, f), s.gives)
  <2>1. f \in MaybeNode
    BY <1>3 DEF MaybeNode
  <2>2. Len(args) = Len(s.takes) /\ \A i \in DOMAIN args : Typed(args[i], s.takes[i])
    BY <1>6, <1>7, <1>10, <1>12
  <2> QED BY <1>1, <1>11, <1>13, <2>1, <2>2, CallIsRight
<1>15. CallOutcome(gcur) = CallOf(s, args, f)
  <2>1. Callee(gcur) = {f}
    BY <1>2, CalleeOfCall
  <2>2. (CHOOSE g \in Callee(gcur) : TRUE) = f
    BY <2>1
  <2>3. f # 0
    BY <1>1, <1>3, ProgramFacts
  <2> QED BY <1>2, <1>9, <2>1, <2>2, <2>3 DEF CallOutcome, CalleeSignature
<1>16. ValueType(gcur) = s.gives
  <2>1. ValueType(gcur) = Carried(type[gcur])
    BY DEF ValueType, ExpressionType, FunctionKinds
  <2> QED BY <1>3, <1>6, <1>8, <2>1, LowTypesOfScalars
<1> QED BY <1>14, <1>15, <1>16

-----------------------------------------------------------------------------
(* Variables                                                               *)

\* The scope of a variable is that of the body it is defined in.
LEMMA ScopeOfVariable ==
  ASSUME Ready, NEW d \in Node, Kind(d) = "variable_definition", scopeOf[Parent(d)] # 0
  PROVE  scopeOf[d] = scopeOf[Parent(d)]
<1>1. prog \in Programs /\ ScopesAreBlocks /\ ScopesAreShared /\ pc[d] = "done"
  <2>1. ResultInductive /\ RulesInv /\ prog \in Programs
    BY ReadyFacts DEF Ready, CompileInductive, CompileInv
  <2> QED BY <2>1, ReadyFacts DEF RulesInv, ResultInductive, LexicalInductive, TablesInv
<1>2. d # 1 /\ Parent(d) \in Node /\ Kind(Parent(d)) \in Statements
  BY <1>1, StatementsHold
<1>3. scopeOf[d] # 0
  BY <1>1 DEF ScopesAreShared
<1>4. scopeOf[d] = BlockAround(d)
  BY <1>1, <1>3 DEF ScopesAreBlocks, Openers, Callables, ScopedExpressions
<1>5. PICK p \in Node : p = Parent(d)
  BY <1>2
<1>6. BlockAround(d) = IF Kind(p) \in Openers THEN p ELSE BlockAround(p)
  BY <1>1, <1>2, <1>5, BlockOfParent
<1>7. scopeOf[p] = IF Kind(p) \in Openers THEN p ELSE BlockAround(p)
  BY <1>1, <1>5 DEF ScopesAreBlocks
<1> QED BY <1>4, <1>5, <1>6, <1>7

\* A variable with a value that is none of a lambda is kept as its type says.
LEMMA VariablesAreOfTheirType ==
  ASSUME Ready, NEW d \in Node, Kind(d) = "variable_definition", Kind(Child(d, 1)) # "lambda"
  PROVE  ValueType(d) = Carried(type[d])
<1>1. type[d] = CopyOf(type[Child(d, 1)]) /\ type[d] \notin Failures
  BY RulesGive DEF RuleOf, Ruled
<1>2. type[d] = type[Child(d, 1)]
  BY <1>1 DEF CopyOf, Failures
<1> QED BY <1>2 DEF ValueType, ExpressionType, FunctionKinds

\* What is defined before the walk, in a body around it, has its place.
LEMMA SlotIsThere ==
  ASSUME Ready, NEW d \in Node, Kind(d) = "variable_definition",
         Parent(d) \in Path(gcur), Parent(d) # gcur, d <= gcur, d \notin Path(gcur)
  PROVE  scopeOf[d] \in maps /\ slot[d] = ValueType(d)
<1>1. prog \in Programs /\ WalkInv /\ Supported /\ gcur \in Node
  BY ReadyFacts
<1>2. d # 1 /\ Visited(d) /\ Kind(Handler(d)) \in Thorough
  BY <1>1, StatementVisited
<1>3. d # gcur
  BY <1>1, PathFacts
<1>4. LeftBehind(d)
  BY <1>2, <1>3 DEF Ready, CompileInductive, WorksInductive, CallInv, HandlersLeave
<1>5. ~IsGlobal(d)
  BY <1>1 DEF Supported, SupportedDefinition
<1>6. step[d] # 0
  BY <1>4, <1>5 DEF LeftBehind
<1>7. scopeOf[Parent(d)] \in maps /\ slot[d] = ValueType(d)
  BY <1>6 DEF Ready, CompileInductive, CompileInv, SlotsAreRight
<1>8. maps \subseteq Node /\ 0 \notin Node
  BY <1>1, ProgramFacts DEF Ready, CompileInductive, WorksInductive, ValuesInv
<1>9. scopeOf[d] = scopeOf[Parent(d)]
  BY <1>7, <1>8, ScopeOfVariable
<1> QED BY <1>7, <1>9

\* What is read or set of the variables is in place.
LEMMA ResolvedIsThere ==
  ASSUME Ready, Kind(gcur) \in {"variable", "set_expression"}, NEW d \in Node, d = resolved[gcur],
         Kind(d) = "variable_definition", Parent(d) \in Path(gcur)
  PROVE  scopeOf[d] \in maps /\ slot[d] = ValueType(d)
<1>1. prog \in Programs /\ gcur \in Node /\ 0 \notin Node
  BY ReadyFacts, ProgramFacts
<1>2. ResolvedBehind /\ ReferencesLookBack
  BY DEF Ready, CompileInductive, WorksInductive, CallInv, CompileInv, RulesInv
<1>3. Kind(Parent(d)) \in Statements
  BY <1>1, StatementsHold
<1>4. d <= gcur
  BY <1>1, <1>2, <1>3 DEF ResolvedBehind
<1>5. d \notin Path(gcur)
  BY <1>1, <1>2 DEF ReferencesLookBack
<1>6. Parent(d) # gcur
  BY <1>3 DEF Statements
<1> QED BY <1>4, <1>5, <1>6, SlotIsThere

\* What is set has the type of the variable.
LEMMA SetIsRight ==
  ASSUME Ready, Kind(gcur) = "set_expression", Upcoming(gcur) = {}
  PROVE  Right(SetOutcome(gcur), ValueType(gcur))
<1>1. gcur \in Node /\ Supported /\ prog \in Programs /\ GeneratorInductive /\ status = "accepted"
  BY ReadyFacts
<1>2. PICK d \in Node : d = resolved[gcur]
  BY <1>1, WhatIsAccepted
<1>3. SupportedVariable(gcur)
  BY <1>1 DEF Supported
<1>4. /\ Parent(d) \in Path(gcur) /\ Kind(d) = "variable_definition" /\ type[Child(gcur, 1)] = type[gcur]
      /\ type[gcur] = type[d] /\ Kind(Child(d, 1)) # "lambda" /\ LowType(type[d]) # "none"
  BY <1>2, <1>3 DEF SupportedVariable, SameType
<1>5. scopeOf[d] \in maps /\ slot[d] = ValueType(d)
  BY <1>2, <1>4, ResolvedIsThere
<1>6. ValueType(d) = Carried(type[d])
  BY <1>4, VariablesAreOfTheirType
<1>7. ValueType(gcur) = Carried(type[gcur])
  BY DEF ValueType, ExpressionType, FunctionKinds
<1>8. PICK v : v = value[Child(gcur, 1)]
  OBVIOUS
<1>9. Typed(v, Carried(type[gcur])) /\ Late = {} /\ ip # NoBlock
  <2>1. Kind(gcur) \in Plain \cap Expressive
    BY DEF Plain, Expressive
  <2>2. 1 \in 1 .. Len(Children(gcur))
    <3>1. Len(Children(gcur)) = 1
      BY <1>1, ShapeFacts
    <3> QED BY <3>1
  <2> QED BY <1>4, <1>8, <2>1, <2>2, OperatorOperands
<1>10. slot[d] = v.ty /\ slot[d] # "none" /\ v # NullValue
  BY <1>4, <1>5, <1>6, <1>9, NotDead, LowTypesOfScalars DEF Typed
<1>11. Stored(d, v) = v
  BY <1>5, <1>9, <1>10 DEF Stored, AtBlock
<1>12. SetOutcome(gcur) = Outcome(v, Unless(TRUE, "operand") \cup Late)
  BY <1>2, <1>8, <1>10, <1>11 DEF SetOutcome
<1> QED BY <1>7, <1>9, <1>12 DEF Right, Outcome, Unless

\* What a variable stands for: a let the walk has behind it, or what a binder above binds.
LEMMA IntendedHere ==
  ASSUME Ready, NEW n \in Node, n = gcur, Kind(n) = "variable"
  PROVE  LET d == Intended(n) IN
           /\ d \in Node /\ Name(d) = Name(n)
           /\ \/ Kind(d) = "variable_definition" /\ d = resolved[n]
              \/ Kind(d) = "formal" /\ Parent(d) = CallableAround(n)
              \/ \E k \in Path(n) : Rebinds(k, n) /\ d = IteratorOf(k) /\ k \in Node /\ Kind(k) \in Loops
<1>1. /\ prog \in Programs /\ ResultInductive /\ LexicalResolution /\ ResolvedRight /\ ResolvedBehind
      /\ resolved[n] \in Node /\ resolved[n] # 0 /\ ExternsAreLeaves /\ status = "accepted" /\ Supported
  <2>1. resolved[n] \in Node /\ prog \in Programs /\ ResultInductive
    BY ReadyFacts, WhatIsAccepted
  <2>2. 0 \notin Node
    BY <2>1, ProgramFacts
  <2>3. ResolvedBehind /\ ExternsAreLeaves
    BY DEF Ready, CompileInductive, WorksInductive, CallInv, MeaningInv, NamesInv
  <2> QED BY <2>1, <2>2, <2>3, ReadyFacts DEF ResultInductive, ResultsInv, LexicalInductive
<1>2. PICK r \in Node : r = resolved[n]
  BY <1>1
<1>3. /\ Kind(r) \in VariableKinds /\ Name(r) = Name(n) /\ BlockAround(r) \in Path(n)
      /\ r \in defs[BlockAround(r)]
      /\ Kind(r) = "iterator_definition" => r \notin Path(n)
  BY <1>1, <1>2 DEF LexicalResolution, ResolvedRight, ResolvedBehind
<1>4. \/ /\ Intended(n) = r /\ Kind(r) \in {"formal", "variable_definition"}
         /\ \A l : Rebinds(l, n) => ~(l > Parent(r))
      \/ \E k \in Path(n) : /\ Rebinds(k, n) /\ Intended(n) = IteratorOf(k)
                            /\ \A l : Rebinds(l, n) => l <= k
  BY <1>1, <1>2, <1>3, IntendedIs
<1>5. CASE Intended(n) = r /\ Kind(r) = "variable_definition"
  BY <1>2, <1>3, <1>5
<1>6. CASE Intended(n) = r /\ Kind(r) = "formal"
  <2>1. CallableAround(r) = Parent(r)
    BY <1>1, <1>3, <1>6, FormalIsTheOnly
  <2>2. CallableAround(r) = CallableAround(n)
    BY <1>1, <1>6 DEF Supported, SupportedVariable
  <2> QED BY <1>3, <1>6, <2>1, <2>2
<1>7. ASSUME NEW k \in Path(n), Rebinds(k, n), Intended(n) = IteratorOf(k)
      PROVE  k \in Node /\ Kind(k) \in Loops /\ IteratorOf(k) \in Node /\ Name(IteratorOf(k)) = Name(n)
  <2>1. k \in Node /\ Kind(k) \in Loops
    BY <1>1, <1>7, PathFacts DEF Rebinds, InBody
  <2> QED BY <1>1, <1>7, <2>1, LoopShape DEF Rebinds
<1> QED BY <1>4, <1>5, <1>6, <1>7

\* A let is loaded from its alloca.
LEMMA LetIsRight ==
  ASSUME Ready, NEW n \in Node, n = gcur, Kind(n) = "variable",
         NEW d \in Node, d = Intended(n), Name(d) = Name(n), Kind(d) = "variable_definition", d = resolved[n]
  PROVE  Right(VariableOutcome(n), Carried(type[n]))
<1>1. prog \in Programs /\ WalkInv /\ Supported /\ BlocksAreTheirs /\ StepsAbove /\ NamedAreMapped
  BY ReadyFacts DEF Ready, CompileInductive, WorksInductive, MeaningInv, NamesInv, CompileInv, EntriesInv
<1>2. SupportedVariable(n)
  BY <1>1 DEF Supported
<1>3. /\ Parent(d) \in Path(n) /\ type[n] = type[d] /\ Kind(Child(d, 1)) # "lambda" /\ LowType(type[d]) # "none"
      /\ ~Disturbed(n)
  BY <1>2 DEF SupportedVariable
<1>4. Name(n) \notin DOMAIN named
  <2> SUFFICES ASSUME Name(n) \in DOMAIN named PROVE FALSE
    OBVIOUS
  <2>1. PICK e \in Node : Maps(e, Name(n))
    BY <1>1 DEF NamedAreMapped
  <2>2. e # 1
    BY <1>1, <2>1, ProgramFacts DEF Maps, Mapped
  <2>3. step[n] = 0
    BY <1>1 DEF WalkInv, StepsAreTaken, Visiting, Plain, Operators, Statements, Constructs, Callables, Loops
  <2>4. Precedes(e, n)
    BY <1>1, <2>1, <2>2, <2>3, StepsPrecede DEF Maps, Mapped
  <2> QED BY <1>3, <2>1, <2>4 DEF Disturbed, Maps
<1>5. scopeOf[d] \in maps /\ slot[d] = Carried(type[d]) /\ slot[d] # "none" /\ slot[d] \in LowTypes
  <2>1. scopeOf[d] \in maps /\ slot[d] = ValueType(d)
    BY <1>3, ResolvedIsThere
  <2>2. ValueType(d) = Carried(type[d])
    BY <1>3, VariablesAreOfTheirType
  <2> QED BY <1>3, <2>1, <2>2, LowTypesOfScalars, LowTypesAreLow
<1>6. ip # NoBlock /\ Late = {}
  <2>1. gcur # 1
    BY <1>1, ProgramFacts
  <2> QED BY <2>1, Here DEF Callables
<1>7. VariableOutcome(n) = Outcome(Of(slot[d], d), {})
  BY <1>4, <1>5, <1>6 DEF VariableOutcome, Loaded, AtBlock
<1>8. Typed(Of(slot[d], d), slot[d])
  <2>1. d \in MaybeNode
    BY DEF MaybeNode
  <2> QED BY <1>1, <1>5, <2>1, MadeIsTyped
<1> QED BY <1>3, <1>5, <1>7, <1>8 DEF Right, Outcome

\* The names of formals and iterators are there, with a type that has a low type.
LEMMA BinderIsThere ==
  ASSUME Ready, NEW n \in Node, n = gcur, Kind(n) = "variable",
         NEW d \in Node, Name(d) = Name(n),
         \/ Kind(d) = "formal" /\ Parent(d) = CallableAround(n)
         \/ \E k \in Path(n) : Rebinds(k, n) /\ d = IteratorOf(k) /\ k \in Node /\ Kind(k) \in Loops
  PROVE  Bound(Name(n)) /\ LowType(type[d]) # "none"
<1>1. prog \in Programs /\ WalkInv /\ Supported /\ BoundAreThere
  BY ReadyFacts DEF Ready, CompileInductive, CompileInv, EntriesInv
<1>2. CASE Kind(d) = "formal" /\ Parent(d) = CallableAround(n)
  <2>1. PICK f \in Path(n) : f = CallableAround(n) /\ Kind(f) \in Callables /\ f \in Node /\ f # n
    <3>1. Parent(d) # 0
      BY <1>1, <1>2, TreeFacts, ProgramFacts
    <3> QED BY <1>1, <1>2, <3>1, CallableFacts, PathFacts DEF Callables
  <2>2. f \in Binders
    BY <1>1, <2>1, BindersHere DEF BindersAbove
  <2>3. Binds(f, Name(n))
    BY <1>2, <2>1 DEF Binds
  <2>4. Bound(Name(n))
    BY <1>1, <2>2, <2>3 DEF BoundAreThere
  <2>5. HasSignature(f)
    <3>1. Kind(f) \in FunctionKinds \cup {"lambda"}
      BY <2>1 DEF Callables, FunctionKinds
    <3> QED BY <1>1, <2>1, <3>1 DEF Supported, SupportedDefinition
  <2>6. PICK i \in 1 .. FormalCount(f) : FormalsOf(f)[i] = d
    <3>1. d \in {e \in Node : Kind(e) = "formal" /\ Parent(e) = f}
      BY <1>2, <2>1
    <3> QED BY <1>1, <2>1, <3>1, FormalsAreMapped
  <2>7. LowType(type[d]) # "none"
    <3>1. PICK takes : takes = [j \in 1 .. FormalCount(f) |-> LowType(type[FormalsOf(f)[j]])]
      OBVIOUS
    <3>2. SignatureOf(f).takes = takes
      BY <3>1 DEF SignatureOf, FunctionType
    <3>3. takes[i] # "none"
      BY <2>5, <2>6, <3>1, <3>2 DEF HasSignature
    <3> QED BY <2>6, <3>1, <3>3
  <2> QED BY <2>4, <2>7
<1>3. CASE ~(Kind(d) = "formal" /\ Parent(d) = CallableAround(n))
  <2>1. PICK k \in Path(n) : Rebinds(k, n) /\ d = IteratorOf(k) /\ k \in Node /\ Kind(k) \in Loops
    BY <1>3
  <2>2. k \in Binders
    <3>1. k # n
      BY <2>1 DEF Loops
    <3> QED BY <1>1, <2>1, <3>1, BindersHere DEF BindersAbove, Rebinds
  <2>3. Binds(k, Name(n))
    BY <2>1 DEF Binds, Rebinds
  <2>4. Bound(Name(n))
    BY <1>1, <2>2, <2>3 DEF BoundAreThere
  <2>5. SupportedLoop(k)
    BY <1>1, <2>1 DEF Supported
  <2>6. LowType(type[d]) = "i64"
    BY <2>1, <2>5, LowTypesOfScalars DEF SupportedLoop, ScalarIds
  <2> QED BY <2>4, <2>6
<1> QED BY <1>2, <1>3

\* What is named has the type of what it means.
LEMMA BinderIsRight ==
  ASSUME Ready, NEW n \in Node, n = gcur, Kind(n) = "variable",
         NEW d \in Node, d = Intended(n), Bound(Name(n)), LowType(type[d]) # "none"
  PROVE  Right(VariableOutcome(n), Carried(type[n]))
<1>1. /\ prog \in Programs /\ WalkInv /\ Supported /\ GeneratorInductive /\ CallInv /\ NamesInv /\ status = "accepted"
      /\ NestedFunctions = {} /\ EntriesAreRight /\ ValuesInv
  BY ReadyFacts DEF Ready, CompileInductive, WorksInductive, MeaningInv, CompileInv, EntriesInv
<1>2. SupportedVariable(n)
  BY <1>1 DEF Supported
<1>3. /\ CallableAround(d) = CallableAround(n) /\ type[n] = type[d] /\ ~Disturbed(n)
      /\ \A e \in Node : Kind(e) = "formal" /\ Name(e) = Name(d) => type[e] = type[d] \/ Kind(d) # "formal"
  BY <1>2 DEF SupportedVariable
<1>4. PICK v : v = named[Name(n)] /\ v # NullValue /\ v \in Value
  BY <1>1 DEF Bound, ValuesInv
<1>5. VariableOutcome(n) = Outcome(v, {})
  BY <1>4 DEF VariableOutcome, Bound
<1>6. v \in TypedValue /\ v # Dead /\ v.def \in MaybeNode
  <2>1. v \in TypedValue
    BY <1>4 DEF Value, TypedValue
  <2>2. v.def \in MaybeNode
    BY <2>1 DEF TypedValue
  <2> QED BY <2>1, <2>2, NotDead
<1>7. v.ty = LowType(type[v.def])
  BY <1>1, <1>4 DEF EntriesAreRight, EntryRight, Bound
<1>8. PICK f : f = CallableAround(n) /\ f # 0
  <2>1. gcur # 1
    BY <1>1, ProgramFacts
  <2> QED BY <2>1, Here DEF Callables
<1>9. Meaning(v, f) = d
  <2>1. v = VariableOutcome(n).v
    BY <1>5 DEF Outcome
  <2>2. MeansItsDefinition(n, v)
    BY <1>1, <1>4, <1>6, <2>1, VariableMeans
  <2> QED BY <1>3, <1>8, <2>2 DEF MeansItsDefinition
<1>10. type[v.def] = type[d]
  <2>1. d # 0
    BY <1>1, ProgramFacts
  <2>2. CASE v.fn = f \/ v.def = 0
    BY <1>9, <2>1, <2>2 DEF Meaning
  <2>3. CASE ~(v.fn = f \/ v.def = 0)
    <3>1. PICK own : own = {e \in Node : Kind(e) = "formal" /\ Kind(v.def) = "formal" /\ Parent(e) = f /\ Name(e) = Name(v.def)}
      OBVIOUS
    <3>2. d = IF own = {} THEN 0 ELSE CHOOSE e \in own : TRUE
      BY <1>9, <2>3, <3>1 DEF Meaning
    <3>3. d \in own
      BY <2>1, <3>2
    <3>4. Kind(d) = "formal" /\ Kind(v.def) = "formal" /\ Name(d) = Name(v.def)
      BY <3>1, <3>3
    <3>5. v.def \in Node
      BY <1>6, <2>3 DEF MaybeNode
    <3> QED BY <1>3, <3>4, <3>5
  <2> QED BY <2>2, <2>3
<1>11. v.ty = Carried(type[n])
  BY <1>3, <1>7, <1>10, LowTypesOfScalars
<1> QED BY <1>5, <1>6, <1>11 DEF Right, Outcome, Typed

LEMMA VariableIsRight ==
  ASSUME Ready, Kind(gcur) = "variable"
  PROVE  Right(VariableOutcome(gcur), ValueType(gcur))
<1>1. PICK n \in Node : n = gcur
  BY ReadyFacts
<1>2. PICK d \in Node : /\ d = Intended(n) /\ Name(d) = Name(n)
                        /\ \/ Kind(d) = "variable_definition" /\ d = resolved[n]
                           \/ Kind(d) = "formal" /\ Parent(d) = CallableAround(n)
                           \/ \E k \in Path(n) : Rebinds(k, n) /\ d = IteratorOf(k) /\ k \in Node /\ Kind(k) \in Loops
  BY <1>1, IntendedHere
<1>3. ValueType(gcur) = Carried(type[n])
  BY <1>1 DEF ValueType, ExpressionType, FunctionKinds
<1>4. CASE Kind(d) = "variable_definition" /\ d = resolved[n]
  BY <1>1, <1>2, <1>3, <1>4, LetIsRight
<1>5. CASE ~(Kind(d) = "variable_definition" /\ d = resolved[n])
  <2>1. Bound(Name(n)) /\ LowType(type[d]) # "none"
    BY <1>1, <1>2, <1>5, BinderIsThere
  <2> QED BY <1>1, <1>2, <1>3, <2>1, BinderIsRight
<1> QED BY <1>4, <1>5

-----------------------------------------------------------------------------
(* How a handler of a supported program goes on                            *)

Continues ==
  /\ \E i : Descend(i) /\ i = step[gcur] + 1
  /\ UNCHANGED <<value, slot, faults, result>> /\ maps \subseteq maps'
  /\ Kind(gcur) = "variable_definition" => scopeOf[Parent(gcur)] \in maps'
GivesValue(v) ==
  /\ gcur # 1 /\ gcur' = Handler(gcur) /\ UNCHANGED <<step, maps, faults, result>>
  /\ Typed(v, ValueType(gcur)) /\ value' = [value EXCEPT ![gcur] = v]
  /\ slot' = IF Kind(gcur) = "variable_definition" THEN [slot EXCEPT ![gcur] = v.ty] ELSE slot
Gives == \E v : GivesValue(v)
Concludes == gcur = 1 /\ result' = "ok" /\ UNCHANGED <<gcur, step, value, slot, maps, faults>>
Succeeds == Continues \/ Gives \/ Concludes

LEMMA GiveGives ==
  ASSUME Ready, gcur # 1, NEW v, Typed(v, ValueType(gcur)), Give(v, {}), UNCHANGED maps,
         slot' = IF Kind(gcur) = "variable_definition" THEN [slot EXCEPT ![gcur] = v.ty] ELSE slot
  PROVE  Succeeds
<1>1. v # NullValue
  BY NotDead DEF Typed
<1>2. faults' = faults
  BY <1>1 DEF Give, Unless
<1>3. GivesValue(v)
  BY <1>2 DEF Give, GivesValue
<1> QED BY <1>3 DEF Succeeds, Gives

LEMMA FinishGives ==
  ASSUME Ready, gcur # 1, Kind(gcur) # "variable_definition", NEW o, Right(o, ValueType(gcur)), Finish(o)
  PROVE  Succeeds
<1>1. Typed(o.v, ValueType(gcur)) /\ o.wrong = {} /\ o.v # Dead
  BY NotDead DEF Right, Typed
<1>2. Give(o.v, {}) /\ UNCHANGED <<lookups, code, kept>>
  BY <1>1 DEF Finish
<1>3. maps' = maps /\ slot' = slot
  BY <1>2 DEF lookups
<1> QED BY <1>1, <1>2, <1>3, GiveGives

LEMMA VisitContinues ==
  ASSUME Ready, NEW i, i = step[gcur] + 1, Kind(gcur) \in Visiting, i \in Steps(gcur),
         gcur' = Operand(gcur, i), step' = [step EXCEPT ![gcur] = i],
         UNCHANGED <<value, slot, faults, result>>, maps \subseteq maps',
         Kind(gcur) = "variable_definition" => scopeOf[Parent(gcur)] \in maps'
  PROVE  Succeeds
<1>1. step[gcur] < i
  <2>1. step[gcur] \in Nat
    BY ReadyFacts DEF WalkInv
  <2> QED BY <2>1
<1>2. Descend(i)
  BY <1>1 DEF Descend
<1> QED BY <1>2 DEF Succeeds, Continues

LEMMA PlainSucceeds ==
  ASSUME Ready, VisitOperand
  PROVE  Succeeds
<1>1. Kind(gcur) \in Plain /\ Upcoming(gcur) # {}
  BY DEF VisitOperand
<1>2. PICK i : i = Above(Upcoming(gcur))
  OBVIOUS
<1>3. /\ i = step[gcur] + 1 /\ i \in Steps(gcur) /\ Kind(gcur) \in Visiting /\ Operand(gcur, i) = Child(gcur, i)
  BY <1>1, <1>2, PlainHandlers
<1>4. Visit(Child(gcur, i), i) /\ UNCHANGED lookups
  BY <1>2 DEF VisitOperand
<1>5. Kind(gcur) # "variable_definition"
  BY <1>1 DEF Plain, Operators, Statements
<1>6. slot' = slot /\ maps' = maps
  BY <1>4 DEF lookups
<1> QED BY <1>3, <1>4, <1>5, <1>6, VisitContinues DEF Visit

LEMMA EmitSucceeds ==
  ASSUME Ready, EmitLeaf \/ EmitOperator \/ EmitList \/ EmitSet \/ EmitCall \/ EmitBody
  PROVE  Succeeds
<1>1. \E kinds : Emitting(kinds) /\ "root" \notin kinds /\ "variable_definition" \notin kinds
  BY DEF EmitLeaf, EmitOperator, EmitList, EmitSet, EmitCall, EmitBody
<1>2. Upcoming(gcur) = {} /\ gcur # 1 /\ Kind(gcur) # "variable_definition"
  <2>1. gcur \in Node /\ prog \in Programs
    BY ReadyFacts
  <2> QED BY <1>1, <2>1, ProgramFacts DEF Emitting
<1>3. \E o : Right(o, ValueType(gcur)) /\ Finish(o)
  <2>1. CASE EmitLeaf
    BY <1>2, <2>1, LiteralIsRight, VariableIsRight DEF EmitLeaf, Emitting
  <2>2. CASE EmitOperator
    BY <1>2, <2>2, CompareIsRight, ConsIsRight, UnaryIsRight DEF EmitOperator, Emitting
  <2>3. CASE EmitList
    BY <1>2, <2>3, FoldIsRight, ListIsRight DEF EmitList, Emitting
  <2>4. CASE EmitSet
    BY <1>2, <2>4, SetIsRight DEF EmitSet, Emitting
  <2>5. CASE EmitCall
    BY <1>2, <2>5, CallHasItsType DEF EmitCall, Emitting
  <2>6. CASE EmitBody
    BY <1>2, <2>6, BodyIsRight DEF EmitBody, Emitting
  <2> QED BY <2>1, <2>2, <2>3, <2>4, <2>5, <2>6
<1> QED BY <1>2, <1>3, FinishGives

LEMMA RootSucceeds ==
  ASSUME Ready, EmitRoot
  PROVE  Succeeds
<1>1. Kind(gcur) = "root" /\ Upcoming(gcur) = {} /\ gcur \in Node /\ prog \in Programs
  BY ReadyFacts DEF EmitRoot, Emitting
<1>2. gcur = 1
  BY <1>1, ProgramFacts
<1>3. PICK k : k = Len(Children(gcur))
  OBVIOUS
<1>4. k \in 1 .. Len(Children(gcur)) /\ Children(1) # <<>>
  <2>1. Shape(prog, gcur)
    BY <1>1, ProgramsAssumption DEF WellFormed, Node
  <2>2. k > 0 /\ k \in Nat
    BY <1>1, <1>3, <2>1, ProgramFacts DEF Shape, Kind, Children
  <2> QED BY <1>2, <1>3, <2>2
<1>5. value[Child(gcur, k)] # NullValue
  <2>1. Kind(gcur) \in Plain
    BY <1>1 DEF Plain, Statements
  <2> QED BY <1>1, <1>4, <2>1, PlainHandlers, NotDead DEF Typed
<1>6. result' = "ok"
  BY <1>2, <1>3, <1>4, <1>5 DEF EmitRoot, LastChild
<1> QED BY <1>2, <1>6 DEF EmitRoot, Succeeds, Concludes, lookups

-----------------------------------------------------------------------------
(* Definitions and functions                                               *)

\* Given at a node that is not a variable's.
LEMMA ValueGives ==
  ASSUME Ready, gcur # 1, Kind(gcur) # "variable_definition", NEW v, Typed(v, ValueType(gcur)),
         Give(v, {}), UNCHANGED <<maps, slot>>
  PROVE  Succeeds
BY GiveGives

LEMMA ExternSucceeds ==
  ASSUME Ready, EmitExtern
  PROVE  Succeeds
<1>1. Kind(gcur) = "extern_function" /\ gcur # 1 /\ gcur \in Node /\ prog \in Programs
  BY ReadyFacts, ProgramFacts DEF EmitExtern, Generating
<1>2. HasSignature(gcur)
  <2>1. SupportedDefinition(gcur)
    BY <1>1, ReadyFacts DEF Supported
  <2> QED BY <1>1, <2>1 DEF SupportedDefinition, FunctionKinds
<1>3. Give(Constant("ptr"), {}) /\ UNCHANGED lookups
  BY <1>2 DEF EmitExtern
<1>4. Typed(Constant("ptr"), ValueType(gcur))
  <2>1. ValueType(gcur) = "ptr" /\ "ptr" \in LowTypes
    BY <1>1 DEF ValueType, FunctionKinds, LowTypes, Pointers
  <2> QED BY <2>1, ReadyFacts, MadeIsTyped
<1>5. UNCHANGED <<maps, slot>>
  BY <1>3 DEF lookups
<1> QED BY <1>1, <1>3, <1>4, <1>5, ValueGives

\* The body a variable is in has a scope.
LEMMA ScopeIsThere ==
  ASSUME Ready, Kind(gcur) = "variable_definition"
  PROVE  scopeOf[Parent(gcur)] # 0
<1>1. prog \in Programs /\ gcur \in Node /\ Supported /\ ScopesAreShared
  BY ReadyFacts DEF Ready, CompileInductive, CompileInv, RulesInv
<1>2. gcur # 1 /\ Parent(gcur) \in Node /\ Kind(Parent(gcur)) \in Statements
  BY <1>1, StatementsHold, ProgramFacts
<1>3. PICK p \in Node : p = Parent(gcur)
  BY <1>2
<1>4. p # 1 /\ Kind(p) = "function_body"
  <2>1. Parent(gcur) # 1
    <3>1. SupportedDefinition(gcur)
      BY <1>1 DEF Supported
    <3> QED BY <1>2, <3>1 DEF SupportedDefinition, FunctionKinds
  <2>2. p # 1
    BY <1>3, <2>1
  <2> QED BY <1>1, <1>2, <1>3, <2>2, ProgramFacts DEF Statements
<1>5. Parent(p) \in Node /\ Kind(Parent(p)) \in Callables \cup BodyLoops
  <2>1. Placement(prog, p)
    BY <1>1, ProgramsAssumption DEF WellFormed, Node
  <2> QED BY <1>1, <1>4, <2>1, ProgramFacts DEF Placement, Kind, Parent
<1>6. Kind(Parent(p)) \in Openers
  <2>1. Kind(Parent(p)) \notin {"when_loop", "infinite_loop"}
    BY <1>1, <1>5 DEF Supported
  <2> QED BY <1>5, <2>1 DEF Openers, Callables, BodyLoops, ScopedExpressions
<1>7. pc[p] = "done"
  BY <1>4, ReadyFacts
<1> QED BY <1>1, <1>3, <1>4, <1>6, <1>7 DEF ScopesAreShared

LEMMA OpenVariableSucceeds ==
  ASSUME Ready, OpenVariable
  PROVE  Succeeds
<1>1. /\ Kind(gcur) = "variable_definition" /\ step[gcur] = 0 /\ gcur \in Node /\ prog \in Programs
      /\ Kind(gcur) \notin Callables \cup Loops
  BY ReadyFacts DEF OpenVariable, Generating, Callables, Loops
<1>2. /\ maps' = maps \cup {scopeOf[Parent(gcur)]} /\ slot' = slot
      /\ Visit(Child(gcur, 1), 1)
  BY <1>1, ScopeIsThere DEF OpenVariable
<1>3. Len(Children(gcur)) = 1
  BY <1>1, ShapeFacts
<1>4. 1 \in Steps(gcur) /\ Operand(gcur, 1) = Child(gcur, 1) /\ Kind(gcur) \in Visiting
  BY <1>1, <1>3 DEF Steps, Operand, Visiting
<1>5. gcur' = Operand(gcur, 1) /\ step' = [step EXCEPT ![gcur] = 1] /\ UNCHANGED <<value, slot, faults, result>>
  BY <1>2, <1>4 DEF Visit
<1>6. maps \subseteq maps' /\ scopeOf[Parent(gcur)] \in maps' /\ 1 = step[gcur] + 1
  BY <1>1, <1>2
<1> QED BY <1>4, <1>5, <1>6, VisitContinues

LEMMA EmitVariableSucceeds ==
  ASSUME Ready, EmitVariable
  PROVE  Succeeds
<1>1. /\ Kind(gcur) = "variable_definition" /\ step[gcur] = 1 /\ gcur \in Node /\ prog \in Programs
      /\ Kind(gcur) \notin Callables \cup Loops /\ gcur # 1 /\ Supported
  BY ReadyFacts, ProgramFacts DEF EmitVariable, Generating, Callables, Loops
<1>2. Len(Children(gcur)) = 1
  BY <1>1, ShapeFacts
<1>3. 1 \in Steps(gcur) /\ Operand(gcur, 1) = Child(gcur, 1) /\ Kind(gcur) \in Visiting
  BY <1>1, <1>2 DEF Steps, Operand, Visiting
<1>4. PICK v : v = value[Child(gcur, 1)]
  OBVIOUS
<1>5. Typed(v, ValueType(gcur))
  <2>1. Typed(v, ValueType(Child(gcur, 1)))
    BY <1>1, <1>3, <1>4, OperandIsRight
  <2>2. ValueType(Child(gcur, 1)) = ValueType(gcur)
    BY <1>1, <1>2, OperandsAreExpressions
  <2> QED BY <2>1, <2>2
<1>6. ip # NoBlock /\ Late = {}
  BY <1>1, Here
<1>7. v # NullValue
  BY <1>5, NotDead DEF Typed
<1>8. Give(v, {}) /\ maps' = maps /\ slot' = [slot EXCEPT ![gcur] = v.ty]
  BY <1>4, <1>6, <1>7 DEF EmitVariable
<1> QED BY <1>1, <1>5, <1>8, GiveGives

LEMMA OpenFunctionSucceeds ==
  ASSUME Ready, OpenFunction
  PROVE  Succeeds
<1>1. /\ Kind(gcur) \in Callables /\ step[gcur] = 0 /\ gcur \in Node /\ Supported
      /\ Kind(gcur) # "variable_definition"
  BY ReadyFacts DEF OpenFunction, Generating, Callables
<1>2. HasSignature(gcur)
  <2>1. SupportedDefinition(gcur)
    BY <1>1 DEF Supported
  <2> QED BY <1>1, <2>1 DEF SupportedDefinition, FunctionKinds, Callables
<1>3. UNCHANGED <<slot, maps>> /\ Visit(LastChild(gcur), 1)
  BY <1>2 DEF OpenFunction
<1>4. 1 \in Steps(gcur) /\ Operand(gcur, 1) = LastChild(gcur) /\ Kind(gcur) \in Visiting
  BY <1>1 DEF Steps, Operand, Visiting, Constructs
<1>5. gcur' = Operand(gcur, 1) /\ step' = [step EXCEPT ![gcur] = 1] /\ UNCHANGED <<value, slot, faults, result>>
  BY <1>3, <1>4 DEF Visit
<1>6. maps \subseteq maps' /\ 1 = step[gcur] + 1
  BY <1>1, <1>3
<1> QED BY <1>1, <1>4, <1>5, <1>6, VisitContinues

\* A body ends with a value of the type of its function.
LEMMA BodyOfFunction ==
  ASSUME Ready, Kind(gcur) \in Callables, step[gcur] = 1
  PROVE  value[LastChild(gcur)].ty = LowType(type[gcur])
<1>1. gcur \in Node /\ Supported /\ prog \in Programs
  BY ReadyFacts
<1>2. PICK b : b = LastChild(gcur)
  OBVIOUS
<1>3. b \in Node \ {1} /\ Typed(value[b], ValueType(b)) /\ Kind(b) = "function_body"
  <2>1. 1 \in Steps(gcur) /\ Operand(gcur, 1) = LastChild(gcur) /\ Kind(gcur) \in Visiting
    BY DEF Steps, Operand, Visiting, Constructs
  <2> QED BY <1>1, <1>2, <2>1, OperandIsRight, ShapeFacts
<1>4. PICK k : k = Len(Children(b))
  OBVIOUS
<1>5. k \in 1 .. Len(Children(b))
  <2>1. k > 0 /\ k \in Nat
    BY <1>1, <1>3, <1>4, ShapeFacts, ProgramFacts
  <2> QED BY <1>4, <2>1
<1>6. PICK c : c = ReturnExpression(b) /\ c = Child(b, k)
  BY <1>4 DEF ReturnExpression, LastChild
<1>7. ValueType(b) = Carried(type[c])
  BY <1>1, <1>3, <1>4, <1>5, <1>6, OperandsAreExpressions
<1>8. type[gcur] = type[c]
  <2>1. pc[gcur] = "done" /\ ConstructsChecked
    BY <1>1, ReadyFacts DEF Callables, ResultInductive, ResultsInv
  <2> QED BY <1>1, <1>2, <1>6, <2>1 DEF ConstructsChecked, CallableChecked
<1>9. LowType(type[gcur]) # "none"
  <2>1. SupportedDefinition(gcur)
    BY <1>1 DEF Supported
  <2>2. HasSignature(gcur)
    BY <2>1 DEF SupportedDefinition, FunctionKinds, Callables
  <2> QED BY <2>2 DEF HasSignature, SignatureOf, FunctionType
<1> QED BY <1>2, <1>3, <1>7, <1>8, <1>9, LowTypesOfScalars DEF Typed

LEMMA CloseFunctionSucceeds ==
  ASSUME Ready, CloseFunction
  PROVE  Succeeds
<1>1. /\ Kind(gcur) \in Callables /\ step[gcur] = 1 /\ gcur \in Node /\ gcur # 1 /\ prog \in Programs
      /\ Kind(gcur) # "variable_definition" /\ Kind(gcur) \notin {"extern_function", "formal"}
  <2>1. Kind(gcur) \in Callables /\ step[gcur] = 1
    BY DEF CloseFunction, Generating
  <2> QED BY <2>1, ReadyFacts, ProgramFacts DEF Callables
<1>2. Kind(gcur) = "lambda" => keptBlock[gcur] # NoBlock
  BY <1>1, ReadyFacts DEF InPlace, LambdasAreInside
<1>3. Late = {}
  BY <1>1, Here
<1>4. Give(Constant("ptr"), {}) /\ UNCHANGED lookups
  BY <1>1, <1>2, <1>3, BodyOfFunction DEF CloseFunction, Unless
<1>5. UNCHANGED <<maps, slot>>
  BY <1>4 DEF lookups
<1>6. Typed(Constant("ptr"), ValueType(gcur))
  <2>1. ValueType(gcur) = "ptr" /\ "ptr" \in LowTypes
    BY <1>1 DEF ValueType, ExpressionType, Callables, FunctionKinds, LowTypes, Pointers
  <2> QED BY <2>1, ReadyFacts, MadeIsTyped
<1> QED BY <1>1, <1>4, <1>5, <1>6, ValueGives

-----------------------------------------------------------------------------
(* Ifs                                                                     *)

\* What an if has at hand.
LEMMA IfOperands ==
  ASSUME Ready, Kind(gcur) = "if_expr"
  PROVE  /\ gcur # 1 /\ Kind(gcur) \in Visiting /\ Kind(gcur) # "variable_definition"
         /\ Late = {} /\ ip # NoBlock
         /\ \A i \in 1 .. 3 :
              /\ i \in Steps(gcur) /\ Operand(gcur, i) = Child(gcur, i) /\ Child(gcur, i) \in Node
              /\ i <= step[gcur] => Typed(value[Child(gcur, i)], Carried(type[Child(gcur, i)]))
         /\ type[gcur] = type[Child(gcur, 2)] /\ Faithful(Child(gcur, 3), type[gcur])
         /\ LowType(type[gcur]) # "none" /\ Carried(type[gcur]) = LowType(type[gcur])
         /\ ValueType(gcur) = LowType(type[gcur])
         /\ Id(type[Child(gcur, 1)]) \in {"BOOL", "FLOAT"}
<1>1. gcur \in Node /\ prog \in Programs /\ Supported /\ gcur # 1
  BY ReadyFacts, ProgramFacts
<1>2. Kind(gcur) \in Visiting /\ Kind(gcur) # "variable_definition" /\ Kind(gcur) \notin Callables \cup Loops
  BY DEF Visiting, Constructs, Callables, Loops
<1>3. Late = {} /\ ip # NoBlock
  BY <1>1, <1>2, Here
<1>4. SupportedIf(gcur)
  BY <1>1 DEF Supported
<1>5. LowType(type[gcur]) # "none" /\ Carried(type[gcur]) = LowType(type[gcur])
  BY <1>4, LowTypesOfScalars DEF SupportedIf
<1>6. ValueType(gcur) = LowType(type[gcur])
  BY <1>5 DEF ValueType, ExpressionType, FunctionKinds
<1>7. type[gcur] = type[Child(gcur, 2)]
  <2>1. pc[gcur] = "done" /\ ConstructsChecked
    BY <1>1, ReadyFacts DEF ResultInductive, ResultsInv
  <2> QED BY <1>1, <2>1 DEF ConstructsChecked, IfChecked
<1>8. Len(Children(gcur)) = 3
  BY <1>1, ShapeFacts
<1>9. ASSUME NEW i \in 1 .. 3
      PROVE  /\ i \in Steps(gcur) /\ Operand(gcur, i) = Child(gcur, i) /\ Child(gcur, i) \in Node
             /\ i <= step[gcur] => Typed(value[Child(gcur, i)], Carried(type[Child(gcur, i)]))
  <2>1. i \in Steps(gcur) /\ Operand(gcur, i) = Child(gcur, i)
    BY <1>2, <1>8 DEF Steps, Operand
  <2>2. Child(gcur, i) \in Node
    BY <1>1, <1>8, ProgramFacts
  <2>3. ValueType(Child(gcur, i)) = Carried(type[Child(gcur, i)])
    BY <1>1, <1>8, OperandsAreExpressions DEF Expressive
  <2> QED BY <1>2, <2>1, <2>2, <2>3, OperandIsRight
<1> QED BY <1>1, <1>2, <1>3, <1>4, <1>5, <1>6, <1>7, <1>9 DEF SupportedIf

LEMMA OpenIfSucceeds ==
  ASSUME Ready, OpenIf
  PROVE  Succeeds
<1>1. Kind(gcur) = "if_expr" /\ step[gcur] = 0
  BY DEF OpenIf, Generating
<1>2. 1 \in 1 .. 3
  OBVIOUS
<1>3. /\ Kind(gcur) \in Visiting /\ Kind(gcur) # "variable_definition" /\ ip # NoBlock
      /\ 1 \in Steps(gcur) /\ Operand(gcur, 1) = Child(gcur, 1)
  BY <1>1, <1>2, IfOperands
<1>4. Visit(Child(gcur, 1), 1) /\ UNCHANGED lookups
  BY <1>3 DEF OpenIf
<1>5. gcur' = Operand(gcur, 1) /\ step' = [step EXCEPT ![gcur] = 1] /\ UNCHANGED <<value, slot, faults, result>>
  BY <1>3, <1>4 DEF Visit, lookups
<1>6. maps \subseteq maps' /\ 1 = step[gcur] + 1
  BY <1>1, <1>4 DEF lookups
<1> QED BY <1>3, <1>5, <1>6, VisitContinues

LEMMA BeginThenSucceeds ==
  ASSUME Ready, BeginThen
  PROVE  Succeeds
<1>1. Kind(gcur) = "if_expr" /\ step[gcur] = 1
  BY DEF BeginThen, Generating
<1>2. 1 \in 1 .. 3 /\ 2 \in 1 .. 3 /\ 1 <= step[gcur]
  BY <1>1
<1>3. /\ Kind(gcur) \in Visiting /\ Kind(gcur) # "variable_definition" /\ Late = {}
      /\ 2 \in Steps(gcur) /\ Operand(gcur, 2) = Child(gcur, 2)
      /\ Id(type[Child(gcur, 1)]) \in {"BOOL", "FLOAT"}
      /\ Typed(value[Child(gcur, 1)], Carried(type[Child(gcur, 1)]))
  BY <1>1, <1>2, IfOperands
<1>4. PICK c : c = Converted(Child(gcur, 1), "BOOL")
  OBVIOUS
<1>5. c # Dead /\ c.ty = "i1"
  <2>1. CASE Id(type[Child(gcur, 1)]) = "BOOL"
    <3>1. c = value[Child(gcur, 1)]
      BY <1>4, <2>1 DEF Converted
    <3> QED BY <1>3, <2>1, <3>1, LowTypesOfScalars, NotDead DEF Typed
  <2>2. CASE Id(type[Child(gcur, 1)]) = "FLOAT"
    <3>1. value[Child(gcur, 1)] # NullValue
      BY <1>3, NotDead DEF Typed
    <3>2. c = Instruction(LowType(Scalar("BOOL")))
      BY <1>4, <2>2, <3>1 DEF Converted, Convertible, Coerce, Cast
    <3>3. LowType(Scalar("BOOL")) = "i1" /\ "i1" \in LowTypes
      BY LowTypesOfScalars DEF ScalarIds, LowTypes
    <3>4. Typed(c, "i1")
      BY <3>2, <3>3, ReadyFacts, MadeIsTyped
    <3> QED BY <3>4, NotDead DEF Typed
  <2> QED BY <1>3, <2>1, <2>2
<1>6. /\ faults' = faults \cup {<<w, gcur>> : w \in Unless(c.ty = "i1", "operand") \cup Late}
      /\ gcur' = Child(gcur, 2) /\ step' = [step EXCEPT ![gcur] = 2]
      /\ UNCHANGED <<value, result, lookups>>
  BY <1>4, <1>5 DEF BeginThen
<1>7. faults' = faults
  BY <1>3, <1>5, <1>6 DEF Unless
<1>8. maps \subseteq maps' /\ slot' = slot /\ 2 = step[gcur] + 1
  BY <1>1, <1>6 DEF lookups
<1> QED BY <1>3, <1>6, <1>7, <1>8, VisitContinues

LEMMA BeginElseSucceeds ==
  ASSUME Ready, BeginElse
  PROVE  Succeeds
<1>1. Kind(gcur) = "if_expr" /\ step[gcur] = 2
  BY DEF BeginElse, Generating
<1>2. 2 \in 1 .. 3 /\ 3 \in 1 .. 3 /\ 2 <= step[gcur]
  BY <1>1
<1>3. /\ Kind(gcur) \in Visiting /\ Kind(gcur) # "variable_definition"
      /\ 3 \in Steps(gcur) /\ Operand(gcur, 3) = Child(gcur, 3)
      /\ type[gcur] = type[Child(gcur, 2)] /\ Faithful(Child(gcur, 3), type[gcur])
      /\ Typed(value[Child(gcur, 2)], Carried(type[Child(gcur, 2)]))
  BY <1>1, <1>2, IfOperands
<1>4. PICK v : v = Converted(Child(gcur, 2), Id(type[gcur]))
  OBVIOUS
<1>5. v \notin {NullValue, Dead}
  <2>1. v = value[Child(gcur, 2)]
    BY <1>3, <1>4 DEF Converted
  <2> QED BY <1>3, <2>1, NotDead DEF Typed
<1>6. Converts(Child(gcur, 3), Id(type[gcur]))
  BY <1>3, FaithfulConverts
<1>7. Visit(Child(gcur, 3), 3) /\ UNCHANGED lookups
  BY <1>4, <1>5, <1>6 DEF BeginElse
<1>8. gcur' = Operand(gcur, 3) /\ step' = [step EXCEPT ![gcur] = 3] /\ UNCHANGED <<value, slot, faults, result>>
  BY <1>3, <1>7 DEF Visit, lookups
<1>9. maps \subseteq maps' /\ 3 = step[gcur] + 1
  BY <1>1, <1>7 DEF lookups
<1> QED BY <1>3, <1>8, <1>9, VisitContinues

LEMMA MergeSucceeds ==
  ASSUME Ready, MergeBranches
  PROVE  Succeeds
<1>1. Kind(gcur) = "if_expr" /\ step[gcur] = 3
  BY DEF MergeBranches, Generating
<1>2. 2 \in 1 .. 3 /\ 3 \in 1 .. 3 /\ 2 <= step[gcur] /\ 3 <= step[gcur]
  BY <1>1
<1>3. PICK a, b, t : a = Child(gcur, 2) /\ b = Child(gcur, 3) /\ t = type[gcur]
  OBVIOUS
<1>4. /\ gcur # 1 /\ Kind(gcur) # "variable_definition" /\ b \in Node
      /\ t = type[a] /\ Faithful(b, t) /\ LowType(t) # "none" /\ Carried(t) = LowType(t) /\ ValueType(gcur) = LowType(t)
      /\ Typed(value[a], Carried(type[a])) /\ Typed(value[b], Carried(type[b]))
  BY <1>1, <1>2, <1>3, IfOperands
<1>5. PICK v, w, ty : v = Converted(a, Id(t)) /\ w = Converted(b, Id(t)) /\ ty = LowType(t)
  OBVIOUS
<1>6. v.ty = ty
  <2>1. v = value[a]
    BY <1>4, <1>5 DEF Converted
  <2> QED BY <1>4, <1>5, <2>1 DEF Typed
<1>7. Typed(w, ty)
  <2>1. t \in MaybeType
    BY <1>3, ReadyFacts
  <2> QED BY <1>4, <1>5, <2>1, ReadyFacts, ConvertedRight
<1>8. w \notin {NullValue, Dead} /\ w.ty = ty /\ ty # "none"
  BY <1>4, <1>5, <1>7, NotDead DEF Typed
<1>9. Give(Instruction(ty), {}) /\ UNCHANGED lookups
  BY <1>3, <1>5, <1>6, <1>8 DEF MergeBranches, Unless
<1>10. UNCHANGED <<maps, slot>>
  BY <1>9 DEF lookups
<1>11. Typed(Instruction(ty), ValueType(gcur))
  <2>1. ty \in LowTypes
    BY <1>5, LowTypesAreLow
  <2> QED BY <1>4, <1>5, <2>1, ReadyFacts, MadeIsTyped
<1> QED BY <1>4, <1>9, <1>10, <1>11, ValueGives

-----------------------------------------------------------------------------
(* Loops                                                                   *)

\* What a loop has at hand.
LEMMA LoopOperands ==
  ASSUME Ready, Kind(gcur) \in Loops
  PROVE  /\ gcur \in Node /\ gcur # 1 /\ Kind(gcur) \in Visiting /\ Kind(gcur) # "variable_definition"
         /\ Late = {} /\ ip # NoBlock /\ SupportedLoop(gcur)
         /\ 1 \in Steps(gcur) /\ Operand(gcur, 1) = Child(IteratorOf(gcur), 1)
         /\ 2 \in Steps(gcur) /\ Operand(gcur, 2) = LoopBody(gcur)
<1>1. gcur \in Node /\ prog \in Programs /\ Supported
  BY ReadyFacts
<1>2. /\ Kind(gcur) \in Visiting /\ Kind(gcur) # "variable_definition" /\ Kind(gcur) \notin Callables
      /\ Kind(gcur) \notin {"root", "extern_function", "formal"}
  BY DEF Visiting, Constructs, Callables, Loops
<1>3. gcur # 1
  BY <1>1, <1>2, ProgramFacts
<1>4. Late = {} /\ ip # NoBlock
  BY <1>2, <1>3, Here
<1>5. SupportedLoop(gcur)
  BY <1>1 DEF Supported
<1>6. 1 \in Steps(gcur) /\ 2 \in Steps(gcur)
  <2>1. Len(Children(gcur)) = 2
    BY <1>1, LoopShape
  <2> QED BY <1>2, <2>1 DEF Steps
<1>7. Operand(gcur, 1) = Child(IteratorOf(gcur), 1) /\ Operand(gcur, 2) = LoopBody(gcur)
  BY <1>2 DEF Operand
<1> QED BY <1>1, <1>2, <1>3, <1>4, <1>5, <1>6, <1>7

LEMMA OpenLoopSucceeds ==
  ASSUME Ready, OpenLoop
  PROVE  Succeeds
<1>1. Kind(gcur) \in Loops /\ step[gcur] = 0
  BY DEF OpenLoop, Generating
<1>2. /\ Kind(gcur) \in Visiting /\ Kind(gcur) # "variable_definition" /\ ip # NoBlock
      /\ 1 \in Steps(gcur) /\ Operand(gcur, 1) = Child(IteratorOf(gcur), 1) /\ SupportedLoop(gcur)
  BY <1>1, LoopOperands
<1>3. LowType(type[IteratorOf(gcur)]) # "none" /\ (Kind(gcur) = "do_loop" => LowType(IterationType(gcur)) # "none")
  BY <1>2, LowTypesOfScalars DEF SupportedLoop, ScalarIds
<1>4. Visit(Child(IteratorOf(gcur), 1), 1) /\ UNCHANGED lookups
  BY <1>2, <1>3 DEF OpenLoop
<1>5. gcur' = Operand(gcur, 1) /\ step' = [step EXCEPT ![gcur] = 1] /\ UNCHANGED <<value, slot, faults, result>>
  BY <1>2, <1>4 DEF Visit, lookups
<1>6. maps \subseteq maps' /\ 1 = step[gcur] + 1
  BY <1>1, <1>4 DEF lookups
<1> QED BY <1>2, <1>5, <1>6, VisitContinues

\* What is looped over is a list of integers.
LEMMA ListOfLoop ==
  ASSUME Ready, Kind(gcur) \in Loops, step[gcur] # 0
  PROVE  LET it == IteratorOf(gcur) IN
           ListKind(ListOf(type[it])) = "ints" /\ Typed(value[Child(it, 1)], "ints")
<1>1. PICK it, c : it = IteratorOf(gcur) /\ c = Child(it, 1)
  OBVIOUS
<1>2. /\ gcur \in Node /\ Kind(gcur) \in Visiting /\ SupportedLoop(gcur)
      /\ 1 \in Steps(gcur) /\ Operand(gcur, 1) = c /\ prog \in Programs /\ Supported
  BY <1>1, LoopOperands, ReadyFacts
<1>3. it \in Node /\ Kind(it) = "iterator_definition" /\ c \in Node
  BY <1>1, <1>2, LoopShape
<1>4. PICK int : int = Scalar("INT")
  OBVIOUS
<1>5. type[it] = int
  BY <1>1, <1>2, <1>4 DEF SupportedLoop
<1>6. Number(int) /\ int \in Type /\ int # Null
  <2>1. Number(int) /\ int \in Type
    BY <1>4, NumbersAreTypes DEF Number
  <2> QED BY <2>1, TypeFacts
<1>7. Subtype(type[c]) = int
  <2>1. type[it] = IteratorType(it) /\ IteratorType(it) \notin Failures
    BY <1>3, RulesGive DEF RuleOf, Ruled
  <2>2. Crashed \in Failures /\ Rejected \in Failures
    BY DEF Failures
  <2>3. type[it] = CopyOf(Subtype(type[c]))
    BY <1>1, <2>1, <2>2 DEF IteratorType
  <2>4. type[it] \notin Failures
    BY <2>1
  <2> QED BY <1>5, <2>2, <2>3, <2>4 DEF CopyOf
<1>8. type[c] = ListOf(int)
  <2>1. type[c] \in MaybeType
    BY <1>3, ReadyFacts
  <2> QED BY <1>6, <1>7, <2>1, ListsOfTheirElements
<1>9. Implemented(ListOf(int)) /\ Subtype(ListOf(int)) = int /\ ListOf(int) \in Type
  BY <1>6, LowTypesOfLists
<1>10. ListKind(ListOf(int)) = "ints" /\ Carried(ListOf(int)) = ListKind(ListOf(int))
  BY <1>4, <1>9, LowTypesOfLists
<1>11. Typed(value[c], ValueType(c))
  <2>1. 1 <= step[gcur]
    <3>1. step[gcur] \in Nat
      BY <1>2, ReadyFacts DEF WalkInv
    <3> QED BY <3>1
  <2> QED BY <1>2, <2>1, OperandIsRight
<1>12. ValueType(c) = Carried(type[c])
  <2>1. 1 \in 1 .. Len(Children(it))
    BY <1>2, <1>3, ShapeFacts, ProgramFacts
  <2> QED BY <1>1, <1>2, <1>3, <2>1, OperandsAreExpressions DEF Expressive
<1> QED BY <1>1, <1>5, <1>8, <1>10, <1>11, <1>12

LEMMA BeginIterationSucceeds ==
  ASSUME Ready, BeginIteration
  PROVE  Succeeds
<1>1. Kind(gcur) \in Loops /\ step[gcur] = 1
  BY DEF BeginIteration, Generating
<1>2. /\ Kind(gcur) \in Visiting /\ Kind(gcur) # "variable_definition" /\ ip # NoBlock /\ Late = {}
      /\ 2 \in Steps(gcur) /\ Operand(gcur, 2) = LoopBody(gcur)
  BY <1>1, LoopOperands
<1>3. PICK it, list, kind : it = IteratorOf(gcur) /\ list = value[Child(it, 1)] /\ kind = ListKind(ListOf(type[it]))
  OBVIOUS
<1>4. kind = "ints" /\ Typed(list, "ints")
  BY <1>1, <1>3, ListOfLoop
<1>5. kind \in ListTypes /\ ElementOf(kind) = "i64"
  BY <1>4 DEF ListTypes, ElementOf
<1>6. CarOutcome(kind, list).v.ty = "i64"
  <2>1. CarOutcome(kind, list).v = AtBlock(Instruction("i64"))
    BY <1>4 DEF CarOutcome, Outcome
  <2>2. AtBlock(Instruction("i64")) = Instruction("i64")
    BY <1>2 DEF AtBlock
  <2> QED BY <2>1, <2>2 DEF Instruction, Of
<1>7. /\ faults' = faults \cup {<<w, gcur>> : w \in Late \cup
                            Unless(list.ty = kind /\ CarOutcome(kind, list).v.ty = ElementOf(kind), "operand")}
      /\ gcur' = LoopBody(gcur) /\ step' = [step EXCEPT ![gcur] = 2]
      /\ UNCHANGED <<value, result, slot, maps>>
  BY <1>3, <1>5 DEF BeginIteration
<1>8. faults' = faults
  BY <1>2, <1>4, <1>5, <1>6, <1>7 DEF Unless, Typed
<1>9. maps \subseteq maps' /\ 2 = step[gcur] + 1
  BY <1>1, <1>7
<1> QED BY <1>2, <1>7, <1>8, <1>9, VisitContinues

\* What a loop yields is of the type the analyzer gave it.
LEMMA IterationIsRight ==
  ASSUME Ready, Kind(gcur) \in Loops, step[gcur] = 2
  PROVE  Right(IterationOutcome(gcur), ValueType(gcur))
<1>1. PICK b, t : b = LoopBody(gcur) /\ t = IterationType(gcur)
  OBVIOUS
<1>2. /\ gcur \in Node /\ Kind(gcur) \in Visiting /\ SupportedLoop(gcur) /\ Late = {}
      /\ 2 \in Steps(gcur) /\ Operand(gcur, 2) = b /\ prog \in Programs /\ Supported /\ BlocksAreTheirs
  BY <1>1, LoopOperands, ReadyFacts
<1>3. b \in Node /\ Kind(b) = "function_body"
  BY <1>1, <1>2, LoopShape
<1>4. Typed(value[b], Carried(t))
  <2>1. Typed(value[b], ValueType(b))
    <3>1. 2 <= step[gcur]
      OBVIOUS
    <3> QED BY <1>2, <3>1, OperandIsRight
  <2>2. PICK k : k = Len(Children(b))
    OBVIOUS
  <2>3. k \in 1 .. Len(Children(b))
    <3>1. k > 0 /\ k \in Nat
      BY <1>2, <1>3, <2>2, ShapeFacts, ProgramFacts
    <3> QED BY <2>2, <3>1
  <2>4. PICK c : c = ReturnExpression(b) /\ c = Child(b, k)
    BY <2>2 DEF ReturnExpression, LastChild
  <2>5. ValueType(b) = Carried(type[c])
    BY <1>2, <1>3, <2>2, <2>3, <2>4, OperandsAreExpressions
  <2> QED BY <1>1, <2>1, <2>4, <2>5 DEF IterationType
<1>5. type[gcur] = LoopType(gcur) /\ LoopType(gcur) \notin Failures
  BY <1>2, RulesGive DEF RuleOf, Ruled, Loops
<1>6. Crashed \in Failures
  BY DEF Failures
<1>7. ValueType(gcur) = Carried(type[gcur])
  BY DEF ValueType, ExpressionType, FunctionKinds, Loops
<1>8. CASE Kind(gcur) = "do_loop"
  <2>1. t = type[ReturnExpression(Child(gcur, 2))]
    BY <1>1, <1>8 DEF IterationType, LoopBody
  <2>2. type[gcur] = t
    BY <1>5, <1>6, <1>8, <2>1 DEF LoopType, CopyOf
  <2>3. LowType(t) # "none" /\ Carried(t) = LowType(t) /\ LowType(t) \in LowTypes
    BY <1>1, <1>2, <1>8, LowTypesOfScalars, LowTypesAreLow DEF SupportedLoop
  <2>4. value[b] # NullValue /\ value[b].ty = LowType(t)
    BY <1>4, <2>3, NotDead DEF Typed
  <2>5. IterationOutcome(gcur) = Outcome(Instruction(LowType(t)), {})
    BY <1>1, <1>2, <1>8, <2>4 DEF IterationOutcome, Unless
  <2>6. Typed(Instruction(LowType(t)), LowType(t))
    BY <1>2, <2>3, MadeIsTyped
  <2> QED BY <1>7, <2>2, <2>3, <2>5, <2>6 DEF Right, Outcome
<1>9. CASE Kind(gcur) # "do_loop"
  <2>1. t = type[ReturnExpression(Child(gcur, 1))] /\ Number(t)
    BY <1>1, <1>2, <1>9 DEF IterationType, LoopBody, SupportedLoop
  <2>2. type[gcur] = ListOf(t)
    BY <1>5, <1>6, <1>9, <2>1 DEF LoopType
  <2>3. PICK l, list : l = ListOf(t) /\ list = ListKind(l)
    OBVIOUS
  <2>4. t \in Type
    BY <2>1, NumbersAreTypes
  <2>5. Implemented(l) /\ Subtype(l) = t /\ l \in Type /\ LowType(t) # "none"
    BY <2>1, <2>3, <2>4, LowTypesOfLists
  <2>6. list \in ListTypes /\ Carried(l) = list /\ ElementOf(list) = LowType(t)
    BY <2>3, <2>5, LowTypesOfLists
  <2>7. Carried(t) = LowType(t)
    BY <2>5, LowTypesOfScalars
  <2>8. list \in LowTypes /\ RuntimeSignature(list, "append") = FunctionType(<<list, ElementOf(list)>>, list)
    BY <2>6, SignaturesOfLists
  <2>9. Typed(Instruction(list), list)
    BY <1>2, <2>8, MadeIsTyped
  <2>10. Right(CallRuntime(list, "append", <<Instruction(list), value[b]>>), list)
    BY <1>2, <1>4, <2>6, <2>7, <2>8, <2>9, CallOnTwo
  <2>11. IterationOutcome(gcur) = CallRuntime(list, "append", <<Instruction(list), value[b]>>)
    BY <1>1, <1>9, <2>3, <2>6 DEF IterationOutcome
  <2> QED BY <1>7, <2>2, <2>3, <2>6, <2>10, <2>11
<1> QED BY <1>8, <1>9

LEMMA CloseLoopSucceeds ==
  ASSUME Ready, CloseLoop
  PROVE  Succeeds
<1>1. Kind(gcur) \in Loops /\ step[gcur] = 2
  BY DEF CloseLoop, Generating
<1>2. gcur \in Node /\ gcur # 1 /\ Kind(gcur) # "variable_definition"
  BY <1>1, LoopOperands
<1>3. PICK o : o = IterationOutcome(gcur)
  OBVIOUS
<1>4. Typed(o.v, ValueType(gcur)) /\ o.wrong = {} /\ o.v # Dead
  BY <1>1, <1>3, IterationIsRight, NotDead DEF Right, Typed
<1>5. PICK v : v = [o.v EXCEPT !.fn = blocks[LoopBlock("loopend")].fn]
  OBVIOUS
<1>6. Give(v, {}) /\ UNCHANGED <<maps, slot>>
  BY <1>3, <1>4, <1>5 DEF CloseLoop
<1>7. Typed(v, ValueType(gcur))
  <2>1. PICK b : b = LoopBlock("loopend") /\ b = <<gcur, "loopend">>
    BY DEF LoopBlock
  <2>2. b \in DOMAIN blocks /\ blocks[b] \in Block
    <3>1. Kind(gcur) # "if_expr"
      BY <1>1 DEF Loops
    <3>2. "loopend" \in LabelsOf(gcur) /\ "loopend" \in Labels
      BY <1>1, <3>1 DEF LabelsOf, Iterates, Forks, Labels
    <3> QED BY <1>2, <2>1, <3>2, ReadyFacts DEF BlocksAreTheirs
  <2>3. PICK fn : fn = blocks[b].fn
    OBVIOUS
  <2>4. fn \in MaybeNode
    BY <2>2, <2>3 DEF Block, MaybeNode
  <2> QED BY <1>4, <1>5, <2>1, <2>3, <2>4 DEF Typed, TypedValue
<1> QED BY <1>2, <1>6, <1>7, ValueGives

-----------------------------------------------------------------------------
(* The handlers of a supported program                                     *)

\* The handlers that refuse, and declare globals, are those of other programs.
LEMMA RefusedElsewhere ==
  ASSUME Ready
  PROVE  ~EmitNothing /\ ~DeclareGlobal
<1>1. gcur \in Node /\ Supported
  BY ReadyFacts
<1>2. SupportedDefinition(gcur) /\ Kind(gcur) \notin {"when_loop", "infinite_loop"}
  BY <1>1 DEF Supported
<1> QED BY <1>2 DEF SupportedDefinition, EmitNothing, DeclareGlobal, Generating

LEMMA GenerateSucceeds ==
  ASSUME Ready, Generate
  PROVE  Succeeds
<1>1. CASE EmitLeaf \/ EmitOperator \/ EmitList \/ EmitSet \/ EmitCall \/ EmitBody
  BY <1>1, EmitSucceeds
<1>2. CASE VisitOperand \/ EmitRoot
  BY <1>2, PlainSucceeds, RootSucceeds
<1>3. CASE EmitExtern \/ OpenVariable \/ EmitVariable \/ OpenFunction \/ CloseFunction
  BY <1>3, ExternSucceeds, OpenVariableSucceeds, EmitVariableSucceeds, OpenFunctionSucceeds, CloseFunctionSucceeds
<1>4. CASE OpenIf \/ BeginThen \/ BeginElse \/ MergeBranches
  BY <1>4, OpenIfSucceeds, BeginThenSucceeds, BeginElseSucceeds, MergeSucceeds
<1>5. CASE OpenLoop \/ BeginIteration \/ CloseLoop
  BY <1>5, OpenLoopSucceeds, BeginIterationSucceeds, CloseLoopSucceeds
<1> QED BY <1>1, <1>2, <1>3, <1>4, <1>5, RefusedElsewhere DEF Generate

-----------------------------------------------------------------------------
(* What the generator leaves alone                                         *)

\* The generator reads what the analyzer has left, so what is supported stays so.
LEMMA SameSupported ==
  ASSUME UNCHANGED vars
  PROVE  /\ Supported' <=> Supported
         /\ \A n : ValueType(n)' = ValueType(n) /\ scopeOf'[Parent(n)] = scopeOf[Parent(n)]
<1>1. prog' = prog /\ type' = type /\ resolved' = resolved /\ scopeOf' = scopeOf /\ chain' = chain
  BY DEF vars
<1>2. \A n : SupportedOperator(n)' <=> SupportedOperator(n)
  BY <1>1 DEF SupportedOperator, Spine, Path, IsTail, Kind, Child, Children, Parent, Implemented, ListKind, LowType,
       IsList, Id, Subtype, Scalar, Null, ListOf, Number, Faithful, SameType, Predicated
<1>3. ASSUME NEW n PROVE SupportedVariable(n)' <=> SupportedVariable(n)
  <2>1. Intended(n)' = Intended(n) /\ (Disturbed(n)' <=> Disturbed(n))
    BY <1>1, SameMeaning
  <2>2. /\ Node' = Node
        /\ \A m : Kind(m)' = Kind(m) /\ CallableAround(m)' = CallableAround(m) /\ Parent(m)' = Parent(m) /\ Path(m)' = Path(m)
    BY <1>1, SameTree, SameNames
  <2>3. CallableAround(Intended(n))' = CallableAround(Intended(n))
    BY <1>1, SameMeaning
  <2>4. LowType(type[Intended(n)])' = LowType(type[Intended(n)])
    BY <1>1, <2>1 DEF LowType, IsList, Id, Subtype, Null, Scalar
  <2>5. /\ Parent(Intended(n))' = Parent(Intended(n)) /\ Kind(Intended(n))' = Kind(Intended(n))
        /\ Name(Intended(n))' = Name(Intended(n)) /\ Kind(Child(Intended(n), 1))' = Kind(Child(Intended(n), 1))
        /\ SameType(Child(n, 1), type[n])' = SameType(Child(n, 1), type[n])
    BY <1>1, <2>1 DEF Parent, Kind, Name, Child, Children, SameType
  <2>6. \A e : Name(e)' = Name(e)
    BY <1>1 DEF Name
  <2> QED BY <1>1, <2>1, <2>2, <2>3, <2>4, <2>5, <2>6 DEF SupportedVariable
<1>4. \A n : SupportedCall(n)' <=> SupportedCall(n)
  BY <1>1 DEF SupportedCall, Path, Kind, Child, Children, Parent, Name, Node, DefinitionKinds, Faithful, SameType,
       Number, Scalar, CallableOf, VariableKinds, RuntimeNames
<1>5. \A n : SupportedLoop(n)' <=> SupportedLoop(n)
  BY <1>1 DEF SupportedLoop, IteratorOf, IterationType, LoopBody, ReturnExpression, LastChild, Kind, Child, Children, Number, Scalar,
       LowType, IsList, Id, Subtype, Null
<1>6. \A n : SupportedIf(n)' <=> SupportedIf(n)
  BY <1>1 DEF SupportedIf, Child, Children, Faithful, SameType, Number, Scalar, LowType, IsList, Id, Subtype, Null
<1>7. \A n : SupportedDefinition(n)' <=> SupportedDefinition(n)
  BY <1>1 DEF SupportedDefinition, HasSignature, SignatureOf, FunctionType, FormalsOf, FormalCount, IsGlobal,
       Kind, Parent, Child, Children, LowType, IsList, Id, Subtype, Null, Scalar, FunctionKinds
<1>8. Node' = Node /\ \A n : Kind(n)' = Kind(n)
  BY <1>1, SameTree
<1>9. Supported' <=> Supported
  BY <1>2, <1>3, <1>4, <1>5, <1>6, <1>7, <1>8 DEF Supported
<1>10. \A n : ValueType(n)' = ValueType(n)
  BY <1>1 DEF ValueType, ExpressionType, Carried, ReturnExpression, LastChild, Kind, Child, Children, FunctionKinds,
       LowType, IsList, Id, Subtype, Null, Scalar
<1>11. \A n : scopeOf'[Parent(n)] = scopeOf[Parent(n)]
  BY <1>1
<1> QED BY <1>9, <1>10, <1>11

-----------------------------------------------------------------------------
(* What a handler leaves                                                   *)

\* The operands of handlers are no iterators.
LEMMA VisitedIsNone ==
  ASSUME prog \in Programs, WalkInv, NEW m \in Node \ {1}, Visited(m)
  PROVE  Kind(m) # "iterator_definition"
<1>1. PICK h \in Node : h = Handler(m)
  BY HandlerOf
<1>2. PICK k \in 1 .. step[h] : m = Operand(h, k)
  BY <1>1 DEF Visited
<1>3. step[h] \in Nat /\ step[h] # 0
  BY <1>1, <1>2 DEF WalkInv
<1>4. Kind(h) \in Visiting /\ step[h] \in Steps(h)
  BY <1>3 DEF WalkInv, StepsAreTaken
<1>5. k \in Steps(h)
  BY <1>1, <1>2, <1>4, StepsBefore
<1> QED BY <1>2, <1>4, <1>5, OperandFacts

\* The primed invariants without the primes on what the analyzer has left.
LEMMA RightAfter ==
  ASSUME prog \in Programs, UNCHANGED vars, gcur' \in Node,
         \A m \in Node \ {1} : (\E k \in 1 .. step'[Handler(m)] : m = Operand(Handler(m), k)) /\ m \notin Path(gcur')
           => Typed(value'[m], ValueType(m)),
         \A d \in Node : Kind(d) = "variable_definition" /\ step'[d] # 0 =>
           scopeOf[Parent(d)] \in maps' /\ (d \notin Path(gcur') => slot'[d] = ValueType(d)),
         faults' = {}, result' \in {"generating", "ok"}
  PROVE  ValuesAreRight' /\ SlotsAreRight' /\ NothingWrong'
<1>1. prog' = prog
  BY DEF vars
<1>2. /\ Node' = Node /\ \A n : Kind(n)' = Kind(n) /\ Handler(n)' = Handler(n)
      /\ \A n, i : Operand(n, i)' = Operand(n, i)
      /\ \A n : Parent(n)' = Parent(n)
  BY <1>1, SameTree, SameOperands
<1>3. \A n : ValueType(n)' = ValueType(n) /\ scopeOf'[Parent(n)] = scopeOf[Parent(n)]
  BY SameSupported
<1>4. Path(gcur)' = Path(gcur')
  BY <1>1, SameTree DEF Path
<1>5. TypedValue' = TypedValue
  BY <1>2 DEF TypedValue, MaybeNode
<1>6. ASSUME NEW m \in Node' \ {1}, Visited(m)', m \notin Path(gcur)'
      PROVE  Typed(value[m], ValueType(m))'
  <2>1. \E k \in 1 .. step'[Handler(m)] : m = Operand(Handler(m), k)
    <3>1. PICK h : h = Handler(m) /\ Handler(m)' = h
      BY <1>2
    <3>2. \E k \in 1 .. step'[h] : m = Operand(h, k)'
      BY <1>6, <3>1 DEF Visited
    <3> QED BY <1>2, <3>1, <3>2
  <2>2. Typed(value'[m], ValueType(m))
    BY <1>2, <1>4, <1>6, <2>1
  <2> QED BY <1>3, <1>5, <2>2 DEF Typed
<1>7. ValuesAreRight'
  BY <1>6 DEF ValuesAreRight
<1>8. ASSUME NEW d \in Node', Kind(d)' = "variable_definition", step'[d] # 0
      PROVE  scopeOf'[Parent(d)'] \in maps' /\ (d \notin Path(gcur)' => slot'[d] = ValueType(d)')
  BY <1>2, <1>3, <1>4, <1>8
<1>9. SlotsAreRight'
  BY <1>8 DEF SlotsAreRight
<1> QED BY <1>7, <1>9 DEF NothingWrong

LEMMA ContinuesRight ==
  ASSUME Ready, Continues, UNCHANGED vars
  PROVE  ValuesAreRight' /\ SlotsAreRight' /\ NothingWrong'
<1>1. PICK g, c, i : g = gcur /\ c = gcur' /\ Descend(i) /\ i = step[g] + 1
  BY DEF Continues
<1>2. prog \in Programs /\ WalkInv /\ g \in Node /\ step \in [Node -> Nat]
  BY <1>1, ReadyFacts DEF WalkInv
<1>3. c \in Node \ {1} /\ Handler(c) = g /\ c = Operand(g, i) /\ step' = [step EXCEPT ![g] = i]
  BY <1>1, <1>2, OperandIsNew DEF Descend
<1>4. Path(g) \subseteq Path(c) /\ c \in Path(c) /\ g \in Path(g)
  BY <1>2, <1>3, OperandPath, PathFacts
<1>5. UNCHANGED <<value, slot, faults, result>> /\ maps \subseteq maps' /\ (Kind(g) = "variable_definition" => scopeOf[Parent(g)] \in maps')
  BY <1>1 DEF Continues
<1>6. ASSUME NEW m \in Node \ {1}, NEW k \in 1 .. step'[Handler(m)], m = Operand(Handler(m), k), m \notin Path(c)
      PROVE  Typed(value'[m], ValueType(m))
  <2>1. PICK h \in Node : h = Handler(m)
    BY <1>2, HandlerOf
  <2>2. k \in 1 .. step[h]
    <3>1. CASE h = g
      <4>1. k \in 1 .. (step[g] + 1) /\ step[g] \in Nat
        BY <1>1, <1>2, <1>3, <1>6, <2>1, <3>1
      <4>2. k # step[g] + 1
        BY <1>1, <1>3, <1>4, <1>6, <2>1, <3>1
      <4> QED BY <3>1, <4>1, <4>2
    <3>2. CASE h # g
      BY <1>2, <1>3, <1>6, <2>1, <3>2
    <3> QED BY <3>1, <3>2
  <2>3. Visited(m)
    BY <1>6, <2>1, <2>2 DEF Visited
  <2>4. m \notin Path(gcur)
    BY <1>1, <1>4, <1>6
  <2> QED BY <1>5, <2>3, <2>4 DEF Ready, CompileInductive, CompileInv, ValuesAreRight
<1>7. ASSUME NEW d \in Node, Kind(d) = "variable_definition", step'[d] # 0
      PROVE  scopeOf[Parent(d)] \in maps' /\ (d \notin Path(c) => slot'[d] = ValueType(d))
  <2>1. CASE d = g
    BY <1>4, <1>5, <1>7, <2>1
  <2>2. CASE d # g
    <3>1. step[d] # 0
      BY <1>2, <1>3, <1>7, <2>2
    <3>2. scopeOf[Parent(d)] \in maps /\ (d \notin Path(gcur) => slot[d] = ValueType(d))
      BY <1>7, <3>1 DEF Ready, CompileInductive, CompileInv, SlotsAreRight
    <3> QED BY <1>1, <1>4, <1>5, <3>2
  <2> QED BY <2>1, <2>2
<1>8. faults' = {} /\ result' \in {"generating", "ok"}
  BY <1>5 DEF Ready, CompileInductive, CompileInv, NothingWrong
<1> QED BY <1>1, <1>2, <1>3, <1>6, <1>7, <1>8, RightAfter

LEMMA GivesRight ==
  ASSUME Ready, Gives, UNCHANGED vars
  PROVE  ValuesAreRight' /\ SlotsAreRight' /\ NothingWrong'
<1>1. PICK g, c, v : g = gcur /\ c = gcur' /\ GivesValue(v)
  BY DEF Gives
<1>2. prog \in Programs /\ WalkInv /\ g \in Node \ {1} /\ value \in [Node -> Value] /\ slot \in [Node -> LowTypes]
  BY <1>1, ReadyFacts DEF WalkInv, GivesValue, Ready, CompileInductive, WorksInductive, ValuesInv
<1>3. c \in Node /\ c = Handler(g) /\ \A m \in Path(g) : m = g \/ m \in Path(c) \/ Kind(m) = "iterator_definition"
  BY <1>1, <1>2, HandlerOf DEF GivesValue
<1>4. /\ UNCHANGED <<step, maps, faults, result>> /\ Typed(v, ValueType(g)) /\ value' = [value EXCEPT ![g] = v]
      /\ slot' = IF Kind(g) = "variable_definition" THEN [slot EXCEPT ![g] = v.ty] ELSE slot
  BY <1>1 DEF GivesValue
<1>5. ASSUME NEW m \in Node \ {1}, NEW k \in 1 .. step'[Handler(m)], m = Operand(Handler(m), k), m \notin Path(c)
      PROVE  Typed(value'[m], ValueType(m))
  <2>1. CASE m = g
    BY <1>2, <1>4, <2>1
  <2>2. CASE m # g
    <3>1. Visited(m)
      BY <1>4, <1>5 DEF Visited
    <3>2. m \notin Path(g)
      BY <1>2, <1>3, <1>5, <2>2, <3>1, VisitedIsNone
    <3>3. Typed(value[m], ValueType(m))
      BY <1>1, <3>1, <3>2 DEF Ready, CompileInductive, CompileInv, ValuesAreRight
    <3> QED BY <1>2, <1>4, <2>2, <3>3
  <2> QED BY <2>1, <2>2
<1>6. ASSUME NEW d \in Node, Kind(d) = "variable_definition", step'[d] # 0
      PROVE  scopeOf[Parent(d)] \in maps' /\ (d \notin Path(c) => slot'[d] = ValueType(d))
  <2>1. step[d] # 0 /\ maps' = maps
    BY <1>4, <1>6
  <2>2. scopeOf[Parent(d)] \in maps /\ (d \notin Path(gcur) => slot[d] = ValueType(d))
    BY <1>6, <2>1 DEF Ready, CompileInductive, CompileInv, SlotsAreRight
  <2>3. ASSUME d \notin Path(c) PROVE slot'[d] = ValueType(d)
    <3>1. CASE d = g
      BY <1>2, <1>4, <1>6, <3>1 DEF Typed
    <3>2. CASE d # g
      BY <1>1, <1>2, <1>3, <1>4, <1>6, <2>2, <2>3, <3>2
    <3> QED BY <3>1, <3>2
  <2> QED BY <2>1, <2>2, <2>3
<1>7. faults' = {} /\ result' \in {"generating", "ok"}
  BY <1>4 DEF Ready, CompileInductive, CompileInv, NothingWrong
<1> QED BY <1>1, <1>2, <1>3, <1>5, <1>6, <1>7, RightAfter

LEMMA ConcludesRight ==
  ASSUME Ready, Concludes, UNCHANGED vars
  PROVE  ValuesAreRight' /\ SlotsAreRight' /\ NothingWrong'
<1>1. /\ prog \in Programs /\ gcur' = gcur /\ gcur \in Node /\ UNCHANGED <<step, value, slot, maps, faults>> /\ result' = "ok"
  BY ReadyFacts DEF Concludes
<1>2. \A m \in Node \ {1} : (\E k \in 1 .. step'[Handler(m)] : m = Operand(Handler(m), k)) /\ m \notin Path(gcur')
        => Typed(value'[m], ValueType(m))
  BY <1>1 DEF Ready, CompileInductive, CompileInv, ValuesAreRight, Visited
<1>3. \A d \in Node : Kind(d) = "variable_definition" /\ step'[d] # 0 =>
        scopeOf[Parent(d)] \in maps' /\ (d \notin Path(gcur') => slot'[d] = ValueType(d))
  BY <1>1 DEF Ready, CompileInductive, CompileInv, SlotsAreRight
<1>4. faults' = {}
  BY <1>1 DEF Ready, CompileInductive, CompileInv, NothingWrong
<1> QED BY <1>1, <1>2, <1>3, <1>4, RightAfter

LEMMA RightAfterGenerate ==
  ASSUME Ready, Generate, UNCHANGED vars
  PROVE  ValuesAreRight' /\ SlotsAreRight' /\ NothingWrong'
BY GenerateSucceeds, ContinuesRight, GivesRight, ConcludesRight DEF Succeeds

-----------------------------------------------------------------------------
(* The invariant                                                           *)

\* It holds before the generator begins.
LEMMA NothingIsWrong ==
  prog \in Programs /\ NothingYet => LoopEndsWait /\ OpenBlocks /\ ValuesAreRight /\ SlotsAreRight /\ NothingWrong
<1> SUFFICES ASSUME prog \in Programs, NothingYet
             PROVE  LoopEndsWait /\ OpenBlocks /\ ValuesAreRight /\ SlotsAreRight /\ NothingWrong
  OBVIOUS
<1>1. DOMAIN blocks = {} /\ \A n \in Node : step[n] = 0
  BY DEF NothingYet
<1>2. LoopEndsWait
  <2>1. Path(gcur) \subseteq Node
    BY ProgramFacts, PathFacts DEF NothingYet
  <2> QED BY <1>1, <2>1 DEF LoopEndsWait, Iterates
<1>3. \A m \in Node \ {1} : ~Visited(m)
  BY <1>1, HandlerOf DEF Visited
<1> QED BY <1>1, <1>2, <1>3 DEF OpenBlocks, BlocksAreOpen, ValuesAreRight, SlotsAreRight, NothingWrong, NothingYet

\* Where nothing is emitted nothing changes.
LEMMA StaysOpen ==
  ASSUME Stays, prog' = prog
  PROVE  /\ LoopEndsWait => LoopEndsWait'
         /\ BlocksAreOpen => BlocksAreOpen'
<1>1. /\ gcur' = gcur /\ step' = step /\ ip' = ip /\ blocks' = blocks /\ keptBlock' = keptBlock
  BY DEF Stays, Quietly
<1>2. \A n : Kind(n)' = Kind(n) /\ Path(n)' = Path(n)
  BY SameTree
<1>3. Path(gcur)' = Path(gcur)
  BY <1>1 DEF Path
<1>4. CallableIn' = CallableIn
  BY <1>1 DEF CallableIn, CallableAround, Handler, Kind, Parent, Path, Below
<1>5. \A l : Iterates(l)' = Iterates(l)
  BY <1>1, <1>2 DEF Iterates
<1>6. LoopEndsWait => LoopEndsWait'
  BY <1>1, <1>2, <1>3, <1>5 DEF LoopEndsWait
<1>7. \A b : Reserved(b)' <=> Reserved(b)
  BY <1>1, <1>2, <1>3 DEF Reserved
<1>8. BlocksAreOpen => BlocksAreOpen'
  BY <1>1, <1>4, <1>7 DEF BlocksAreOpen
<1> QED BY <1>6, <1>8

LEMMA SameCompiling ==
  ASSUME UNCHANGED vars
  PROVE  Compiling' <=> Compiling
<1>1. status' = status
  BY DEF vars
<1> QED BY <1>1, SameSupported DEF Compiling

\* A step of the generator.
LEMMA CompileAfter ==
  ASSUME CompileInductive, status = "accepted", Generate, UNCHANGED vars
  PROVE  LoopEndsWait' /\ OpenBlocks' /\ ValuesAreRight' /\ SlotsAreRight' /\ NothingWrong'
<1>1. /\ prog' = prog /\ prog \in Programs /\ PhiInductive /\ WalkInv /\ BlocksAreTheirs /\ KeptAreTheirs
      /\ LoopEndsWait /\ InPlace
  BY DEF vars, CompileInductive, WorksInductive, CompleteInductive, GeneratorInductive, PhiInductive, CompileInv,
       MeaningInv, NamesInv
<1>2. Stays \/ Turns
  BY <1>1, GenerateMoves DEF Moves
<1>3. LoopEndsWait'
  BY <1>1, <1>2, LoopEndsAfter, StaysOpen
<1>4. CASE Compiling
  <2>1. Ready
    BY <1>4 DEF Ready
  <2>2. ValuesAreRight' /\ SlotsAreRight' /\ NothingWrong'
    BY <2>1, RightAfterGenerate
  <2>3. BlocksAreOpen'
    <3>1. NestedFunctions = {} /\ LambdasAreInside /\ BlocksAreOpen
      BY <2>1, ReadyFacts
    <3> QED BY <1>1, <1>2, <3>1, OpenAfter, StaysOpen
  <2> QED BY <1>3, <2>2, <2>3 DEF OpenBlocks
<1>5. CASE ~Compiling
  <2>1. ~Compiling'
    BY <1>5, SameCompiling
  <2> QED BY <1>3, <2>1 DEF OpenBlocks, ValuesAreRight, SlotsAreRight, NothingWrong
<1> QED BY <1>4, <1>5

\* A step of neither.
LEMMA CompileStays ==
  ASSUME CompileInductive, UNCHANGED <<vars, gvars>>
  PROVE  LoopEndsWait' /\ OpenBlocks' /\ ValuesAreRight' /\ SlotsAreRight' /\ NothingWrong'
<1>1. /\ prog' = prog /\ prog \in Programs /\ EndsAtTheRoot /\ LoopEndsWait /\ gcur \in Node /\ UNCHANGED vars
  BY DEF vars, CompileInductive, WorksInductive, CompleteInductive, GeneratorInductive, PhiInductive, CompileInv,
       CompleteInv, WalkInv
<1>2. UNCHANGED <<gcur, step, value, slot, maps, faults, result>> /\ Stays
  BY <1>1, UnchangedStays DEF gvars, lookups
<1>3. LoopEndsWait' /\ OpenBlocks'
  BY <1>1, <1>2, StaysOpen, SameCompiling DEF OpenBlocks, CompileInductive, CompileInv
<1>4. CASE Compiling
  <2>1. ValuesAreRight /\ SlotsAreRight /\ NothingWrong
    BY DEF CompileInductive, CompileInv
  <2>2. \A m \in Node \ {1} : (\E k \in 1 .. step'[Handler(m)] : m = Operand(Handler(m), k)) /\ m \notin Path(gcur')
          => Typed(value'[m], ValueType(m))
    BY <1>2, <1>4, <2>1 DEF ValuesAreRight, Visited
  <2>3. \A d \in Node : Kind(d) = "variable_definition" /\ step'[d] # 0 =>
          scopeOf[Parent(d)] \in maps' /\ (d \notin Path(gcur') => slot'[d] = ValueType(d))
    BY <1>2, <1>4, <2>1 DEF SlotsAreRight
  <2>4. faults' = {} /\ result' \in {"generating", "ok"} /\ gcur' \in Node
    BY <1>1, <1>2, <1>4, <2>1 DEF NothingWrong
  <2> QED BY <1>1, <1>3, <2>2, <2>3, <2>4, RightAfter
<1>5. CASE ~Compiling
  <2>1. ~Compiling'
    BY <1>1, <1>5, SameCompiling
  <2> QED BY <1>3, <2>1 DEF ValuesAreRight, SlotsAreRight, NothingWrong
<1> QED BY <1>4, <1>5

LEMMA WorksPreserved ==
  WorksInductive /\ [CompilerNext]_<<vars, gvars>> => WorksInductive'
BY CompletePreserved, ValuesPreserved, CallsPreserved, MeaningPreserved DEF WorksInductive, CompleteInductive

LEMMA CompilePreserved ==
  CompileInductive /\ [CompilerNext]_<<vars, gvars>> => CompileInductive'
<1> SUFFICES ASSUME CompileInductive, [CompilerNext]_<<vars, gvars>> PROVE CompileInductive'
  OBVIOUS
<1>1. /\ GeneratorInductive /\ ResultInductive /\ ValuesInv /\ EndsAtTheRoot /\ Fresh /\ EntriesInv /\ RulesInv
      /\ WorksInductive /\ prog \in Programs
  BY DEF CompileInductive, WorksInductive, CompleteInductive, CompleteInv, GeneratorInductive, PhiInductive, CompileInv
<1>2. prog' = prog
  BY <1>1, PhiPreserved DEF GeneratorInductive
<1>3. RulesInv'
  <2>1. [Next]_vars
    BY DEF CompilerNext
  <2> QED BY <1>1, <2>1, RulesPreserved
<1>4. EntriesInv' /\ Fresh'
  BY <1>1, EntriesPreserved, FreshAfter
<1>5. LoopEndsWait' /\ OpenBlocks' /\ ValuesAreRight' /\ SlotsAreRight' /\ NothingWrong'
  <2>1. CASE Next /\ UNCHANGED gvars
    <3>1. NothingYet'
      BY <1>1, <1>2, <2>1, AnalyzerRuns, StaysNothing DEF Fresh
    <3>2. (prog \in Programs)'
      BY <1>1, <1>2
    <3>3. (prog \in Programs)' /\ NothingYet' =>
            LoopEndsWait' /\ OpenBlocks' /\ ValuesAreRight' /\ SlotsAreRight' /\ NothingWrong'
      BY NothingIsWrong, PTL
    <3> QED BY <3>1, <3>2, <3>3
  <2>2. CASE UNCHANGED <<vars, gvars>>
    BY <2>2, CompileStays
  <2>3. CASE status = "accepted" /\ Generate /\ UNCHANGED vars
    BY <2>3, CompileAfter
  <2> QED BY <2>1, <2>2, <2>3 DEF CompilerNext
<1>6. WorksInductive'
  BY <1>1, WorksPreserved
<1> QED BY <1>3, <1>4, <1>5, <1>6 DEF CompileInductive, CompileInv

LEMMA CompileInitially == CompilerInit => CompileInductive
<1> SUFFICES ASSUME CompilerInit PROVE CompileInductive
  OBVIOUS
<1>1. Init /\ prog \in Programs /\ NothingYet
  BY DEF CompilerInit, Init, NothingYet
<1>2. WorksInductive
  <2>1. ValuesInv
    BY InstructionsAreTyped DEF CompilerInit, Init, ValuesInv, SymbolsInv, Value, LowTypes, Pointers
  <2> QED BY <1>1, <2>1, PhiInitially, ResultsInitially, CompleteInitially, CallsInitially, MeaningInitially
          DEF WorksInductive, CompleteInductive, GeneratorInductive
<1>3. CompileInv
  BY <1>1, RulesInitially, NothingIsNamed, NothingIsWrong DEF CompileInv, Fresh
<1> QED BY <1>2, <1>3 DEF CompileInductive

\* What the analyzer accepts, and keeps to the supported language, compiles: whatever the
\* program, no handler returns null or dereferences it, every instruction has operands of the
\* types it asks for, goes to a block that has not ended, and main gets a value.
THEOREM SupportedLanguageCompiles == CompilerSpec => []SupportedProgramsCompile
<1>1. CompileInductive => SupportedProgramsCompile
  BY DEF CompileInductive, CompileInv, NothingWrong, Compiling, SupportedProgramsCompile
<1> QED BY <1>1, CompileInitially, CompilePreserved, PTL DEF CompilerSpec

==============================================================================
