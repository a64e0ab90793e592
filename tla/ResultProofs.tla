----------------------------- MODULE ResultProofs -----------------------------
(***************************************************************************)
(* Proofs about what the semantic analyzer computes, for every set of      *)
(* well-formed programs: in an accepted program references have the types  *)
(* of what they refer to, and the checks made on the way hold of the final *)
(* types.                                                                  *)
(*                                                                         *)
(* Types are copied and compared while the walk is under way.  What makes  *)
(* that safe is that a node's type is written once, when its handler       *)
(* returns, and that whatever a handler reads is then done: children and   *)
(* arguments because they have been visited, definitions because one that  *)
(* is in the tables and not done has no type to be copied.                 *)
(***************************************************************************)
EXTENDS ScopeProofs

-----------------------------------------------------------------------------
(* The inductive invariant                                                 *)

References == {"variable", "set_expression", "function_call"}

\* The parser's types are there until a handler returns; no handler changes a formal's.
TypesAreGiven ==
  \A n \in Node : pc[n] # "done" \/ Kind(n) = "formal" => type[n] = prog[n].type

\* A definition that is not done and can be found has no type yet.
DeclaredInTime ==
  \A s \in Node : \A d \in defs[s] : pc[d] = "done" \/ (Active(d) /\ Kind(d) \in Untyped)

\* What a reference may be resolved to.
ResolvedRight ==
  \A n \in Node : resolved[n] # 0 =>
    LET d == resolved[n]
    IN  /\ Kind(n) \in References /\ d \in Node
        /\ Kind(d) \in DefinitionKinds /\ d \in defs[BlockAround(d)]
        /\ Kind(n) # "function_call" => pc[n] = "done"
        /\ Kind(n) = "function_call" => CallFailures(n, d) = {}

ReferencesAgree ==
  \A n \in Node : Kind(n) \in References /\ pc[n] = "done" =>
    /\ resolved[n] # 0
    /\ (Kind(n) = "function_call" => ~IsAncestor(resolved[n], n)) =>
         pc[resolved[n]] = "done" /\ type[n] = type[resolved[n]] /\ type[n] # Null

\* What an argument is checked against, and that the arguments a call has gone past are.
FormalOf(n, i) == Child(CallableOf(resolved[n]), i)
Gone(n, i) == i < at[n] \/ pc[n] \in {"branch", "done"}
ArgumentsChecked ==
  \A n \in Node : Kind(n) = "function_call" /\ resolved[n] # 0 =>
    \A i \in 1 .. Len(Children(n)) : Gone(n, i) =>
      pc[Child(n, i)] = "done" /\ ConvertsTo(type[Child(n, i)], type[FormalOf(n, i)])

CallsInOrder ==
  \A n \in Node : /\ pc[n] \in {"idle", "enter"} => at[n] = 0
                  /\ pc[n] = "branch" => IsAncestor(resolved[n], n)

\* The checks of a handler that has returned.
IfChecked(n) ==
  /\ ConvertsTo(type[Child(n, 1)], Scalar("BOOL"))
  /\ ConvertsTo(type[Child(n, 3)], type[n]) /\ type[n] = type[Child(n, 2)]
ListChecked(n) == \A m \in Spine(n) : ConvertsTo(type[Child(m, 1)], Subtype(type[n]))
CallableChecked(n) == type[n] = type[ReturnExpression(LastChild(n))]
ConstructsChecked ==
  \A n \in Node : pc[n] = "done" =>
    /\ Kind(n) = "if_expr" => IfChecked(n)
    /\ Kind(n) = "list" => ListChecked(n)
    /\ Kind(n) \in Callables => CallableChecked(n)

ResultsInv ==
  /\ TypesAreGiven /\ DeclaredInTime /\ ResolvedRight /\ ReferencesAgree
  /\ ArgumentsChecked /\ CallsInOrder /\ ConstructsChecked
ResultInductive == LexicalInductive /\ ResultsInv

-----------------------------------------------------------------------------
(* Trees                                                                   *)

\* The nodes whose types the checks compare, and their parents.
LEMMA CheckedNodes ==
  ASSUME prog \in Programs, NEW n \in Node
  PROVE  /\ Kind(n) = "if_expr" => \A i \in {1, 2, 3} :
              Child(n, i) \in Node \ {1} /\ Parent(Child(n, i)) = n
         /\ Kind(n) = "list" => \A m \in Spine(n) :
              /\ m \in Node /\ n \in Path(m) /\ Kind(m) = "list"
              /\ Child(m, 1) \in Node \ {1} /\ Parent(Child(m, 1)) = m
         /\ Kind(n) \in Callables =>
              LET b == LastChild(n)
                  r == ReturnExpression(b)
              IN  /\ b \in Node \ {1} /\ Parent(b) = n /\ Kind(b) = "function_body"
                  /\ r \in Node \ {1} /\ Parent(r) = b
<1>1. /\ Len(prog) \in Nat /\ Node = 1 .. Len(prog)
      /\ \A k \in Node : prog[k].last \in k .. Len(prog)
  BY TreeOrder
<1>2. ASSUME NEW k \in Node, NEW i \in 1 .. Len(Children(k))
      PROVE  Child(k, i) \in Node \ {1} /\ Parent(Child(k, i)) = k
  BY TreeFacts
<1>3. ASSUME Kind(n) = "if_expr", NEW i \in {1, 2, 3}
      PROVE  Child(n, i) \in Node \ {1} /\ Parent(Child(n, i)) = n
  <2>1. i \in 1 .. Len(Children(n))
    BY <1>3, ShapeFacts
  <2> QED BY <1>2, <2>1
<1>4. ASSUME Kind(n) = "list", NEW m \in Spine(n)
      PROVE  /\ m \in Node /\ n \in Path(m) /\ Kind(m) = "list"
             /\ Child(m, 1) \in Node \ {1} /\ Parent(Child(m, 1)) = m
  <2>1. m \in Node /\ n \in Path(m)
    BY <1>1, <1>4 DEF Spine, Path
  <2>2. Kind(m) = "list"
    <3>1. m \in Path(m) /\ n <= m
      BY <1>1, <2>1, PathFacts DEF Path
    <3>2. m = n \/ IsTail(m)
      BY <1>1, <1>4, <2>1, <3>1 DEF Spine
    <3> QED BY <1>4, <3>2 DEF IsTail
  <2>3. 1 \in 1 .. Len(Children(m))
    BY <2>1, <2>2, ShapeFacts, ProgramFacts
  <2> QED BY <1>2, <2>1, <2>2, <2>3
<1>5. ASSUME Kind(n) \in Callables
      PROVE  LET b == LastChild(n)
                 r == ReturnExpression(b)
             IN  /\ b \in Node \ {1} /\ Parent(b) = n /\ Kind(b) = "function_body"
                 /\ r \in Node \ {1} /\ Parent(r) = b
  <2>1. /\ Len(Children(n)) \in 1 .. Len(Children(n)) /\ Kind(LastChild(n)) = "function_body"
    BY <1>5, ShapeFacts, ProgramFacts
  <2>2. PICK b \in Node : b = LastChild(n)
    BY <1>2, <2>1 DEF LastChild
  <2>3. b \in Node \ {1} /\ Parent(b) = n /\ Kind(b) = "function_body"
    BY <1>2, <2>1, <2>2 DEF LastChild
  <2>4. Len(Children(b)) \in 1 .. Len(Children(b))
    BY <2>3, ShapeFacts, ProgramFacts
  <2>5. ReturnExpression(b) \in Node \ {1} /\ Parent(ReturnExpression(b)) = b
    BY <1>2, <2>4 DEF ReturnExpression, LastChild
  <2> QED BY <2>2, <2>3, <2>5
<1> QED BY <1>3, <1>4, <1>5

\* The formals of what a call runs.
LEMMA CalledFormals ==
  ASSUME prog \in Programs, NEW n \in Node, NEW d \in Node, Kind(d) \in DefinitionKinds,
         CallFailures(n, d) = {}, NEW i \in 1 .. Len(Children(n))
  PROVE  Child(CallableOf(d), i) \in Node /\ Kind(Child(CallableOf(d), i)) = "formal"
<1> DEFINE f == CallableOf(d)
<1>1. /\ Kind(d) # "formal" /\ (Kind(d) \in VariableKinds => Kind(Child(d, 1)) = "lambda")
      /\ Len(Children(n)) = FormalCount(f)
  BY DEF CallFailures
<1>2. f \in Node /\ Kind(f) \in Callables \cup {"extern_function"}
  <2>1. CASE Kind(d) \in VariableKinds
    <3>1. 1 \in 1 .. Len(Children(d))
      <4>1. Kind(d) \in {"variable_definition", "iterator_definition"}
        BY <1>1, <2>1 DEF VariableKinds
      <4>2. PICK k \in Nat : k = Len(Children(d))
        BY ProgramFacts
      <4>3. k = 1 \/ k > 0
        BY <4>1, <4>2, ShapeFacts
      <4>4. 1 \in 1 .. k
        BY <4>3
      <4> QED BY <4>2, <4>4
    <3> QED BY <1>1, <2>1, <3>1, ProgramFacts DEF CallableOf, Callables
  <2>2. CASE Kind(d) \in FunctionKinds
    BY <2>2 DEF CallableOf, FunctionKinds, VariableKinds, Callables
  <2> QED BY <2>1, <2>2 DEF DefinitionKinds
<1> HIDE DEF f
<1>3. Len(Children(f)) \in Nat /\ Len(Children(n)) \in Nat
  BY <1>2, ProgramFacts
<1>4. i \in 1 .. Len(Children(f))
  BY <1>1, <1>3 DEF FormalCount
<1>5. Kind(Child(f, i)) = "formal"
  <2>1. CASE Kind(f) = "extern_function"
    BY <1>2, <1>4, <2>1, TreeFacts
  <2>2. CASE Kind(f) \in Callables
    <3>1. i \in 1 .. Len(Children(f)) - 1
      BY <1>1, <1>3, <2>2 DEF FormalCount, Callables
    <3>2. Shape(prog, f)
      BY <1>2, ProgramsAssumption DEF WellFormed, Node
    <3> QED BY <2>2, <3>1, <3>2 DEF Shape, Kind, Child, Children, Callables
  <2> QED BY <1>2, <2>1, <2>2
<1> QED BY <1>2, <1>4, <1>5, ProgramFacts DEF f

-----------------------------------------------------------------------------
(* What a step does to types, indices and references                       *)

\* What a handler that returns t has found.
Found(t) ==
  /\ Kind(cur) = "formal" => t = type[cur]
  /\ Kind(cur) = "if_expr" => t = IfType(cur) /\ t \notin Failures
  /\ Kind(cur) = "list" => t = ListType(cur) /\ t \notin Failures
  /\ Kind(cur) \in Callables => t = CallableType(cur) /\ t \notin Failures
  /\ Kind(cur) \in {"variable", "set_expression"} =>
       LET d == Lookup(Name(cur), ScopeAround(cur), VariableKinds)
       IN  d # 0 /\ type[d] # Null /\ t = type[d] /\ resolved' = [resolved EXCEPT ![cur] = d]
  /\ Kind(cur) = "function_call" =>
       /\ t \notin Failures /\ resolved' = resolved
       /\ \/ pc[cur] = "branch"
          \/ ArgumentsPassed /\ t = CallType(cur)

ReturnsFound ==
  \/ type' = type /\ pc'[cur] # "done"
  \/ \E t : Return(t) /\ Found(t)

IndicesMove ==
  /\ \A n \in Node : \/ at'[n] = at[n]
                     \/ /\ n = cur /\ at'[n] = at[n] + 1
                        /\ pc'[n] \in {"children", "arguments"}
                        /\ Kind(n) = "function_call" => ArgumentFailure(n) = {}
  /\ pc'[cur] = "branch" /\ pc[cur] # "branch" => ArgumentsPassed /\ MustVisitBranch(cur)

ReferencesMove ==
  resolved' # resolved =>
    /\ Kind(cur) \in References
    /\ Kind(cur) # "function_call" => pc'[cur] = "done"
    /\ Kind(cur) = "function_call" => /\ pc[cur] = "enter" /\ pc'[cur] = "arguments"
                                      /\ CallFailures(cur, resolved'[cur]) = {}

DeclaresInTime ==
  defs' # defs => pc'[cur] = "done" \/ (pc'[cur] = "children" /\ Kind(cur) \in Untyped)

ResultsMove ==
  /\ TablesMove /\ StartsOnce
  /\ ReturnsFound /\ IndicesMove /\ ReferencesMove /\ DeclaresInTime

\* A step in which no handler returns and no name is resolved.
LEMMA NothingReturned ==
  ASSUME ResultInductive, [Next]_vars, TablesMove,
         UNCHANGED <<type, resolved>>, pc'[cur] # "done", IndicesMove, DeclaresInTime
  PROVE  ResultsMove
<1>1. StartsOnce
  BY WalkPreserved DEF ResultInductive, LexicalInductive
<1> QED BY <1>1 DEF ResultsMove, ReturnsFound, ReferencesMove

\* A step in which one returns.
LEMMA SomethingReturned ==
  ASSUME ResultInductive, [Next]_vars, TablesMove, NEW t, Return(t), Found(t), ReferencesMove
  PROVE  ResultsMove
<1>1. StartsOnce
  BY WalkPreserved DEF ResultInductive, LexicalInductive
<1>2. pc'[cur] = "done" /\ at' = at
  BY DEF Return, TablesMove, ResultInductive, LexicalInductive, WalkInductive, Inductive, TypeOK
<1> QED BY <1>1, <1>2 DEF ResultsMove, ReturnsFound, IndicesMove, DeclaresInTime

\* A handler that fails.
LEMMA StoppedMoves ==
  ASSUME ResultInductive, [Next]_vars, TablesMove, NEW V, Stop(V)
  PROVE  ResultsMove
<1>1. UNCHANGED <<pc, at, defs, type, resolved>> /\ pc[cur] # "done"
  BY DEF Stop, tables, TablesMove, Active
<1> QED BY <1>1, NothingReturned DEF IndicesMove, DeclaresInTime

LEMMA BeginningResults ==
  ASSUME ResultInductive,
         \/ VisitUnscoped \/ VisitFunctionBody \/ VisitScopedExpression \/ VisitLambda
         \/ VisitFunctionDefinition \/ VisitVariableDefinition
  PROVE  ResultsMove
<1>1. TablesMove /\ [Next]_vars /\ pc \in [Node -> Progress]
  BY BeginningMoves DEF Next, ResultInductive, LexicalInductive, WalkInductive, Inductive, TypeOK
<1>2. /\ BeginChildren /\ cur \in Node
      /\ defs' # defs => Kind(cur) \in Untyped
  BY DEF VisitUnscoped, VisitFunctionBody, VisitScopedExpression, VisitLambda,
         VisitFunctionDefinition, VisitVariableDefinition, Entering, Running, Untyped, tables
<1>3. pc'[cur] = "children" /\ UNCHANGED <<at, type, resolved>>
  BY <1>1, <1>2 DEF BeginChildren, GoOn
<1> QED BY <1>1, <1>2, <1>3, NothingReturned DEF IndicesMove, DeclaresInTime

LEMMA LeavingResults ==
  ASSUME ResultInductive,
         \/ LeaveOperator \/ LeaveIf \/ LeaveCallable \/ LeaveLoop
         \/ LeaveVariableDefinition \/ LeaveUntyped \/ LeaveFunctionCall
  PROVE  ResultsMove
<1>1. TablesMove /\ [Next]_vars
  BY LeavingMoves DEF Next, ResultInductive
<1>2. CASE \E V : Stop(V)
  BY <1>1, <1>2, StoppedMoves
<1>3. \/ \E V : Stop(V)
      \/ \E t : Return(t) /\ Found(t) /\ resolved' = resolved
  <2>1. LeaveOperator => \/ \E V : Stop(V)
                         \/ \E t : Return(t) /\ Found(t) /\ resolved' = resolved
    BY DEF LeaveOperator, Leaving, Running, Conclude, Found, Callables
  <2>2. LeaveIf \/ LeaveCallable => \/ \E V : Stop(V)
                                    \/ \E t : Return(t) /\ Found(t) /\ resolved' = resolved
    BY DEF LeaveIf, LeaveCallable, Leaving, Running, Conclude, Found, Callables
  <2>3. LeaveLoop \/ LeaveVariableDefinition \/ LeaveUntyped =>
           \/ \E V : Stop(V)
           \/ \E t : Return(t) /\ Found(t) /\ resolved' = resolved
    BY DEF LeaveLoop, LeaveVariableDefinition, LeaveUntyped, Leaving, Running, Conclude, Found,
           Callables
  <2>4. ASSUME LeaveFunctionCall
        PROVE  \/ \E V : Stop(V)
               \/ \E t : Return(t) /\ Found(t) /\ resolved' = resolved
    <3>1. Kind(cur) = "function_call"
      BY <2>4 DEF LeaveFunctionCall, ArgumentsPassed, Passing, Running, ResultInductive,
                  LexicalInductive, WalkInductive, Inductive, Bookkeeping
    <3> QED BY <2>4, <3>1 DEF LeaveFunctionCall, Running, Conclude, Found, Callables
  <2> QED BY <2>1, <2>2, <2>3, <2>4
<1> QED BY <1>1, <1>2, <1>3, SomethingReturned DEF ReferencesMove

LEMMA DefinitionResults ==
  ASSUME ResultInductive, RejectDefinition \/ VisitFormalOrExtern \/ LeaveIterator
  PROVE  ResultsMove
<1>1. TablesMove /\ [Next]_vars
  BY DefinitionMoves DEF Next, ResultInductive
<1>2. CASE \E V : Stop(V)
  BY <1>1, <1>2, StoppedMoves
<1>3. \/ \E V : Stop(V)
      \/ \E t : Return(t) /\ Found(t) /\ resolved' = resolved
  BY DEF RejectDefinition, VisitFormalOrExtern, LeaveIterator, Entering, Leaving, Running, Found,
         Callables
<1> QED BY <1>1, <1>2, <1>3, SomethingReturned DEF ReferencesMove

LEMMA ReferenceResults ==
  ASSUME ResultInductive,
         VisitLiteral \/ ResolveVariable \/ VisitFunctionCall \/ RejectArgument
  PROVE  ResultsMove
<1>1. TablesMove /\ [Next]_vars /\ pc \in [Node -> Progress] /\ resolved \in [Node -> MaybeNode]
  BY ReferenceMoves DEF Next, ResultInductive, LexicalInductive, WalkInductive, Inductive, TypeOK
<1>2. CASE \E V : Stop(V)
  BY <1>1, <1>2, StoppedMoves
<1>3. CASE VisitLiteral
  <2>1. Return(type[cur]) /\ Found(type[cur]) /\ resolved' = resolved
    BY <1>3 DEF VisitLiteral, Entering, Running, Found, Callables
  <2> QED BY <1>1, <2>1, SomethingReturned DEF ReferencesMove
<1>4. CASE ResolveVariable
  <2>1. PICK d : d = Lookup(Name(cur), ScopeAround(cur), VariableKinds)
    OBVIOUS
  <2>2. cur \in Node /\ Kind(cur) \in {"variable", "set_expression"}
    BY <1>4 DEF ResolveVariable, Entering, Leaving, Running
  <2>3. \/ \E V : Stop(V)
        \/ d # 0 /\ type[d] # Null /\ resolved' = [resolved EXCEPT ![cur] = d] /\ Return(type[d])
    BY <1>4, <2>1 DEF ResolveVariable
  <2>4. CASE d # 0 /\ type[d] # Null /\ resolved' = [resolved EXCEPT ![cur] = d] /\ Return(type[d])
    <3>1. Found(type[d])
      BY <2>1, <2>2, <2>4 DEF Found, Callables
    <3>2. pc'[cur] = "done"
      BY <1>1, <2>2, <2>4 DEF Return
    <3> QED BY <1>1, <2>2, <2>4, <3>1, <3>2, SomethingReturned DEF ReferencesMove, References
  <2> QED BY <1>2, <2>3, <2>4
<1>5. CASE VisitFunctionCall
  <2>1. PICK d : d = Lookup(Name(cur), ScopeAround(cur), DefinitionKinds)
    OBVIOUS
  <2>2. cur \in Node /\ Kind(cur) = "function_call" /\ pc[cur] = "enter"
    BY <1>5 DEF VisitFunctionCall, Entering, Running
  <2>3. \/ \E V : Stop(V)
        \/ /\ CallFailures(cur, d) = {} /\ resolved' = [resolved EXCEPT ![cur] = d]
           /\ GoOn("arguments") /\ UNCHANGED <<at, tables, type>>
    BY <1>5, <2>1 DEF VisitFunctionCall
  <2>4. CASE /\ CallFailures(cur, d) = {} /\ resolved' = [resolved EXCEPT ![cur] = d]
             /\ GoOn("arguments") /\ UNCHANGED <<at, tables, type>>
    <3>1. pc'[cur] = "arguments" /\ resolved'[cur] = d /\ defs' = defs
      BY <1>1, <2>2, <2>4 DEF GoOn, tables
    <3>2. StartsOnce
      BY <1>1, WalkPreserved DEF ResultInductive, LexicalInductive
    <3> QED BY <1>1, <2>2, <2>4, <3>1, <3>2 DEF ResultsMove, ReturnsFound, IndicesMove,
            ReferencesMove, DeclaresInTime, References
  <2> QED BY <1>2, <2>3, <2>4
<1>6. RejectArgument => \E V : Stop(V)
  BY DEF RejectArgument
<1> QED BY <1>2, <1>3, <1>4, <1>5, <1>6

LEMMA WalkingResults ==
  ASSUME ResultInductive,
         VisitChild \/ SkipVisitedChild \/ VisitArgument \/ VisitOtherBranch
  PROVE  ResultsMove
<1>1. /\ TablesMove /\ [Next]_vars /\ pc \in [Node -> Progress] /\ at \in [Node -> Nat]
      /\ prog \in Programs /\ cur \in Node /\ ProgressInv
  BY WalkingMoves DEF Next, ResultInductive, LexicalInductive, WalkInductive, Inductive, TypeOK,
     TablesMove
<1>2. UNCHANGED <<defs, type, resolved>>
  BY DEF VisitChild, SkipVisitedChild, VisitArgument, VisitOtherBranch, tables
<1>3. ASSUME VisitChild \/ VisitArgument
      PROVE  pc'[cur] = pc[cur]
  <2>1. /\ at[cur] < Len(Children(cur)) /\ pc[cur] \in {"children", "arguments"}
        /\ Accept(NextChild, pc[cur])
    BY <1>3 DEF VisitChild, VisitArgument, MoreChildren, Passing
  <2>2. at[cur] + 1 \in 1 .. Len(Children(cur))
    BY <1>1, <2>1, ProgramFacts
  <2>3. NextChild # cur
    BY <1>1, <2>2, ProgramFacts DEF NextChild
  <2> QED BY <1>1, <2>1, <2>3 DEF Accept
<1>4. CASE VisitChild \/ SkipVisitedChild
  <2>1. /\ pc[cur] = "children" /\ pc'[cur] = "children" /\ at' = [at EXCEPT ![cur] = @ + 1]
    BY <1>3, <1>4 DEF VisitChild, SkipVisitedChild, MoreChildren, Advance
  <2>2. Kind(cur) # "function_call"
    BY <1>1, <2>1 DEF ProgressInv
  <2> QED BY <1>1, <1>2, <2>1, <2>2, NothingReturned DEF IndicesMove, DeclaresInTime
<1>5. CASE VisitArgument
  <2>1. /\ pc'[cur] = "arguments" /\ at' = [at EXCEPT ![cur] = @ + 1] /\ ArgumentFailure(cur) = {}
    BY <1>3, <1>5 DEF VisitArgument, Passing, Advance
  <2> QED BY <1>1, <1>2, <2>1, NothingReturned DEF IndicesMove, DeclaresInTime
<1>6. CASE VisitOtherBranch
  <2>1. /\ ArgumentsPassed /\ MustVisitBranch(cur) /\ at' = at /\ Accept(OtherBranch(cur), "branch")
    BY <1>6 DEF VisitOtherBranch
  <2>2. pc'[cur] # "done"
    BY <1>1, <2>1 DEF Accept
  <2> QED BY <1>1, <1>2, <2>1, <2>2, NothingReturned DEF IndicesMove, DeclaresInTime
<1> QED BY <1>4, <1>5, <1>6

LEMMA NextResults == ResultInductive /\ Next => ResultsMove
BY BeginningResults, LeavingResults, DefinitionResults, ReferenceResults, WalkingResults DEF Next

-----------------------------------------------------------------------------
(* The invariant after a step                                              *)

\* What a step leaves alone.
LEMMA OthersStay ==
  ASSUME ResultInductive, ResultsMove
  PROVE  /\ prog' = prog /\ cur \in Node /\ pc[cur] \notin {"idle", "done"} /\ pc'[cur] # "idle"
         /\ \A n \in Node : pc[n] = "done" => pc'[n] = "done" /\ n # cur
         /\ \A n \in Node \ {cur} :
              /\ type'[n] = type[n] /\ resolved'[n] = resolved[n] /\ at'[n] = at[n]
              /\ pc'[n] = pc[n] \/ (pc'[n] = "enter" /\ pc[n] = "idle")
         /\ \A n \in Node : pc[n] = "done" => type'[n] = type[n]
         /\ \A s \in Node : defs[s] \subseteq defs'[s] /\ defs'[s] \subseteq defs[s] \cup {cur}
<1>1. /\ prog' = prog /\ cur \in Node /\ pc[cur] \notin {"idle", "done"} /\ PcMoves
      /\ DefinitionsMove /\ ResolutionMoves /\ prog \in Programs
      /\ type \in [Node -> MaybeType] /\ resolved \in [Node -> MaybeNode]
      /\ defs \in [Node -> SUBSET Node] /\ StartsOnce /\ IndicesMove /\ ReturnsFound
  BY DEF ResultsMove, TablesMove, Active, ResultInductive, LexicalInductive, WalkInductive,
         Inductive, TypeOK
<1>2. \A n \in Node \ {cur} : pc'[n] = pc[n] \/ (pc'[n] = "enter" /\ pc[n] = "idle")
  BY <1>1 DEF PcMoves, StartsOnce
<1>3. \A n \in Node \ {cur} : type'[n] = type[n]
  BY <1>1 DEF ReturnsFound, Return
<1>4. \A n \in Node \ {cur} : resolved'[n] = resolved[n] /\ at'[n] = at[n]
  BY <1>1 DEF ResolutionMoves, IndicesMove
<1>5. \A s \in Node : defs[s] \subseteq defs'[s] /\ defs'[s] \subseteq defs[s] \cup {cur}
  BY <1>1 DEF DefinitionsMove, Declare
<1>6. pc'[cur] # "idle"
  BY <1>1 DEF PcMoves
<1> QED BY <1>1, <1>2, <1>3, <1>4, <1>5, <1>6

LEMMA SameResolved ==
  ASSUME prog' = prog
  PROVE  /\ \A n : /\ Kind(resolved[n])' = Kind(resolved'[n])
                   /\ BlockAround(resolved[n])' = BlockAround(resolved'[n])
                   /\ IsAncestor(resolved[n], n)' <=> IsAncestor(resolved'[n], n)
                   /\ CallFailures(n, resolved[n])' = CallFailures(n, resolved'[n])
                   /\ Spine(n)' = Spine(n)
                   /\ ReturnExpression(LastChild(n))' = ReturnExpression(LastChild(n))
         /\ \A n, i : FormalOf(n, i)' = Child(CallableOf(resolved'[n]), i)
<1>1. \A n : /\ Kind(resolved[n])' = Kind(resolved'[n])
             /\ BlockAround(resolved[n])' = BlockAround(resolved'[n])
  BY DEF Kind, BlockAround, Path, Parent, Below
<1>2. \A n : IsAncestor(resolved[n], n)' <=> IsAncestor(resolved'[n], n)
  BY DEF IsAncestor, Path
<1>3. \A n : CallFailures(n, resolved[n])' = CallFailures(n, resolved'[n])
  BY DEF CallFailures, Kind, Child, Children, CallableOf, FormalCount
<1>4. \A n : Spine(n)' = Spine(n)
  BY DEF Spine, IsTail, Path, Kind, Parent, Child, Children
<1>5. \A n : ReturnExpression(LastChild(n))' = ReturnExpression(LastChild(n))
  BY DEF ReturnExpression, LastChild, Child, Children
<1>6. \A n, i : FormalOf(n, i)' = Child(CallableOf(resolved'[n]), i)
  BY DEF FormalOf, CallableOf, Child, Kind
<1> QED BY <1>1, <1>2, <1>3, <1>4, <1>5, <1>6

LEMMA GivenAfter ==
  ASSUME ResultInductive, ResultsMove
  PROVE  TypesAreGiven' /\ DeclaredInTime'
<1>1. /\ TypesAreGiven /\ DeclaredInTime /\ ReturnsFound /\ DeclaresInTime
      /\ type \in [Node -> MaybeType] /\ defs \in [Node -> SUBSET Node]
  BY DEF ResultInductive, ResultsInv, ResultsMove, LexicalInductive, WalkInductive, Inductive,
         TypeOK
<1>2. /\ prog' = prog /\ cur \in Node /\ pc[cur] \notin {"idle", "done"} /\ pc'[cur] # "idle"
      /\ \A n \in Node : pc[n] = "done" => pc'[n] = "done" /\ n # cur
      /\ \A n \in Node \ {cur} :
           /\ type'[n] = type[n]
           /\ pc'[n] = pc[n] \/ (pc'[n] = "enter" /\ pc[n] = "idle")
      /\ \A s \in Node : defs'[s] \subseteq defs[s] \cup {cur}
  BY OthersStay
<1>3. Node' = Node /\ \A n : Kind(n)' = Kind(n)
  BY <1>2, SameTree
<1>4. pc'[cur] # "done" \/ Kind(cur) = "formal" => type'[cur] = type[cur]
  <2>1. CASE type' = type
    BY <2>1
  <2>2. CASE \E t : Return(t) /\ Found(t)
    <3>1. PICK t : Return(t) /\ Found(t)
      BY <2>2
    <3>2. pc'[cur] = "done" /\ type'[cur] = t
      BY <1>1, <1>2, <3>1 DEF Return, ResultInductive, LexicalInductive, WalkInductive,
                              Inductive, TypeOK
    <3> QED BY <3>1, <3>2 DEF Found
  <2> QED BY <1>1, <2>1, <2>2 DEF ReturnsFound
<1>5. TypesAreGiven'
  BY <1>1, <1>2, <1>3, <1>4 DEF TypesAreGiven
<1>6. ASSUME NEW s \in Node, NEW d \in defs'[s]
      PROVE  pc'[d] = "done" \/ (pc'[d] \notin {"idle", "done"} /\ Kind(d) \in Untyped)
  <2>1. CASE d \in defs[s]
    <3>1. d \in Node
      BY <1>1, <2>1
    <3> QED BY <1>1, <1>2, <2>1, <3>1 DEF DeclaredInTime, Active
  <2>2. CASE d \notin defs[s]
    <3>1. d = cur /\ defs' # defs
      BY <1>2, <1>6, <2>2
    <3> QED BY <1>1, <3>1 DEF DeclaresInTime
  <2> QED BY <2>1, <2>2
<1>7. DeclaredInTime'
  BY <1>3, <1>6 DEF DeclaredInTime, Active
<1> QED BY <1>5, <1>7

LEMMA ResolvedAfter ==
  ASSUME ResultInductive, ResultsMove
  PROVE  ResolvedRight'
<1>1. /\ ResolvedRight /\ ReferencesMove /\ ResolutionMoves /\ LexicalInductive
      /\ prog \in Programs /\ resolved \in [Node -> MaybeNode] /\ Active(cur)
  BY DEF ResultInductive, ResultsInv, ResultsMove, TablesMove, LexicalInductive, WalkInductive,
         Inductive, TypeOK
<1>2. /\ prog' = prog /\ cur \in Node /\ pc[cur] # "done"
      /\ \A n \in Node : pc[n] = "done" => pc'[n] = "done" /\ n # cur
      /\ \A n \in Node \ {cur} : resolved'[n] = resolved[n]
      /\ \A s \in Node : defs[s] \subseteq defs'[s]
  BY OthersStay
<1>3. /\ Node' = Node /\ \A n : Kind(n)' = Kind(n)
      /\ \A n : /\ Kind(resolved[n])' = Kind(resolved'[n])
                /\ BlockAround(resolved[n])' = BlockAround(resolved'[n])
                /\ CallFailures(n, resolved[n])' = CallFailures(n, resolved'[n])
  BY <1>2, SameTree, SameResolved
<1>4. ASSUME NEW d \in Node, Kind(d) \in DefinitionKinds, d \in defs[BlockAround(d)]
      PROVE  d \in defs'[BlockAround(d)]
  <2>1. d # 1
    BY <1>1, <1>4, ProgramFacts DEF DefinitionKinds, VariableKinds, FunctionKinds
  <2> QED BY <1>1, <1>2, <1>4, <2>1, BlockFacts
<1>5. ASSUME NEW n \in Node, resolved'[n] # 0
      PROVE  LET d == resolved'[n]
             IN  /\ Kind(n) \in References /\ d \in Node
                 /\ Kind(d) \in DefinitionKinds /\ d \in defs'[BlockAround(d)]
                 /\ Kind(n) # "function_call" => pc'[n] = "done"
                 /\ Kind(n) = "function_call" => CallFailures(n, d) = {}
  <2>1. CASE n # cur \/ resolved' = resolved
    <3>1. resolved'[n] = resolved[n]
      BY <1>2, <2>1
    <3> QED BY <1>1, <1>2, <1>4, <1>5, <3>1 DEF ResolvedRight
  <2>2. CASE n = cur /\ resolved' # resolved
    <3>1. PICK d : d = Lookup(Name(cur), ScopeAround(cur), Candidates(cur))
      OBVIOUS
    <3>2. Kind(cur) \notin Openers /\ d # 0 /\ resolved' = [resolved EXCEPT ![cur] = d]
      BY <1>1, <2>2, <3>1 DEF ResolutionMoves
    <3>3. Candidates(cur) \subseteq DefinitionKinds
      BY DEF Candidates, DefinitionKinds
    <3>4. d \in Node /\ Kind(d) \in DefinitionKinds /\ d \in defs[BlockAround(d)]
      BY <1>1, <1>2, <3>1, <3>2, <3>3, ResolvesLexically
    <3>5. resolved'[cur] = d
      BY <1>1, <1>2, <3>2
    <3> QED BY <1>1, <1>4, <2>2, <3>4, <3>5 DEF ReferencesMove
  <2> QED BY <2>1, <2>2
<1>6. \A n : (defs[BlockAround(resolved[n])])' = defs'[BlockAround(resolved'[n])]
  BY <1>3
<1> QED BY <1>3, <1>5, <1>6 DEF ResolvedRight

\* A definition that has a type to be copied is done.
LEMMA TypedIsDone ==
  ASSUME ResultInductive, NEW d \in Node, Kind(d) \in DefinitionKinds, d \in defs[BlockAround(d)],
         type[d] # Null
  PROVE  pc[d] = "done"
<1>1. prog \in Programs /\ TypesAreGiven /\ DeclaredInTime
  BY DEF ResultInductive, ResultsInv, LexicalInductive, WalkInductive, Inductive
<1>2. d # 1
  BY <1>1, ProgramFacts DEF DefinitionKinds, VariableKinds, FunctionKinds
<1>3. BlockAround(d) \in Node
  BY <1>1, <1>2, BlockFacts
<1>4. Kind(d) \in Untyped => prog[d].type = Null
  BY <1>1, ProgramsAssumption DEF WellFormed, Kind, Node
<1> QED BY <1>1, <1>3, <1>4 DEF DeclaredInTime, TypesAreGiven

LEMMA AgreementAfter ==
  ASSUME ResultInductive, ResultsMove
  PROVE  ReferencesAgree'
<1>1. /\ ReferencesAgree /\ ReturnsFound /\ ResolvedRight /\ LexicalInductive /\ CallsInOrder
      /\ Bookkeeping /\ Active(cur)
      /\ prog \in Programs /\ resolved \in [Node -> MaybeNode] /\ type \in [Node -> MaybeType]
      /\ pc \in [Node -> Progress]
  BY DEF ResultInductive, ResultsInv, ResultsMove, TablesMove, LexicalInductive, WalkInductive,
         Inductive, TypeOK
<1>2. /\ prog' = prog /\ cur \in Node
      /\ \A n \in Node : pc[n] = "done" => pc'[n] = "done" /\ n # cur /\ type'[n] = type[n]
      /\ \A n \in Node \ {cur} :
           /\ type'[n] = type[n] /\ resolved'[n] = resolved[n]
           /\ pc'[n] = pc[n] \/ (pc'[n] = "enter" /\ pc[n] = "idle")
  BY OthersStay
<1>3. /\ Node' = Node /\ \A n : Kind(n)' = Kind(n)
      /\ \A n : IsAncestor(resolved[n], n)' <=> IsAncestor(resolved'[n], n)
  BY <1>2, SameTree, SameResolved
<1> DEFINE Agrees(n, d) == pc'[d] = "done" /\ type'[n] = type'[d] /\ type'[n] # Null
<1>4. ASSUME NEW n \in Node \ {cur}, Kind(n) \in References, pc'[n] = "done"
      PROVE  /\ resolved'[n] # 0
             /\ (Kind(n) = "function_call" => ~IsAncestor(resolved'[n], n)) => Agrees(n, resolved'[n])
  <2>1. pc[n] = "done" /\ resolved'[n] = resolved[n] /\ type'[n] = type[n]
    BY <1>2, <1>4
  <2>2. resolved[n] # 0 /\ resolved[n] \in Node
    BY <1>1, <1>4, <2>1 DEF ReferencesAgree, ResolvedRight
  <2> QED BY <1>1, <1>2, <1>4, <2>1, <2>2 DEF ReferencesAgree
<1>5. ASSUME Kind(cur) \in References, pc'[cur] = "done"
      PROVE  /\ resolved'[cur] # 0
             /\ (Kind(cur) = "function_call" => ~IsAncestor(resolved'[cur], cur))
                  => Agrees(cur, resolved'[cur])
  <2>1. PICK t : Return(t) /\ Found(t)
    BY <1>1, <1>5 DEF ReturnsFound
  <2>2. type'[cur] = t
    BY <1>1, <1>2, <2>1 DEF Return
  <2>3. ASSUME NEW d \in Node, Kind(d) \in DefinitionKinds, d \in defs[BlockAround(d)],
               type[d] # Null, t = type[d]
        PROVE  Agrees(cur, d)
    <3>1. pc[d] = "done"
      BY <2>3, TypedIsDone
    <3> QED BY <1>2, <2>2, <2>3, <3>1
  <2> HIDE DEF Agrees
  <2>4. CASE Kind(cur) \in {"variable", "set_expression"}
    <3>1. PICK d : d = Lookup(Name(cur), ScopeAround(cur), VariableKinds)
      OBVIOUS
    <3>2. d # 0 /\ type[d] # Null /\ t = type[d] /\ resolved' = [resolved EXCEPT ![cur] = d]
      BY <2>1, <2>4, <3>1 DEF Found
    <3>3. Kind(cur) \notin Openers /\ VariableKinds \subseteq DefinitionKinds
      BY <2>4 DEF Openers, Callables, ScopedExpressions, DefinitionKinds
    <3>4. d \in Node /\ Kind(d) \in DefinitionKinds /\ d \in defs[BlockAround(d)]
      BY <1>1, <1>2, <3>1, <3>2, <3>3, ResolvesLexically
    <3>5. resolved'[cur] = d
      BY <1>1, <1>2, <3>2
    <3> QED BY <2>3, <3>2, <3>4, <3>5
  <2>5. CASE Kind(cur) = "function_call"
    <3>1. /\ t \notin Failures /\ resolved' = resolved
          /\ pc[cur] = "branch" \/ (ArgumentsPassed /\ t = CallType(cur))
      BY <2>1, <2>5 DEF Found
    <3>2. pc[cur] \in {"arguments", "branch"}
      BY <3>1 DEF ArgumentsPassed, Passing
    <3>3. PICK d : d = resolved[cur]
      OBVIOUS
    <3>4. /\ d # 0 /\ d \in Node /\ Kind(d) \in DefinitionKinds /\ d \in defs[BlockAround(d)]
      BY <1>1, <1>2, <3>2, <3>3 DEF Bookkeeping, ResolvedRight
    <3>5. ASSUME ~IsAncestor(d, cur)
          PROVE  Agrees(cur, d)
      <4>1. pc[cur] # "branch"
        BY <1>1, <1>2, <3>3, <3>5 DEF CallsInOrder
      <4>2. Unresolvable(cur)
        BY <3>3, <3>5 DEF Unresolvable
      <4>3. t = CopyOf(type[d])
        BY <3>1, <3>3, <4>1, <4>2 DEF CallType, Failures
      <4>4. type[d] # Null /\ t = type[d]
        BY <3>1, <4>3 DEF CopyOf, Failures
      <4> QED BY <2>3, <3>4, <4>4
    <3> QED BY <2>5, <3>1, <3>3, <3>4, <3>5
  <2> QED BY <1>5, <2>4, <2>5 DEF References
<1>6. \A n \in Node : Kind(n) \in References /\ pc'[n] = "done" =>
        /\ resolved'[n] # 0
        /\ (Kind(n) = "function_call" => ~IsAncestor(resolved'[n], n)) => Agrees(n, resolved'[n])
  BY <1>4, <1>5
<1> QED BY <1>3, <1>6 DEF ReferencesAgree

LEMMA CallsAfter ==
  ASSUME ResultInductive, ResultsMove
  PROVE  CallsInOrder'
<1>1. /\ CallsInOrder /\ IndicesMove /\ ReferencesMove /\ PcMoves
      /\ at \in [Node -> Nat]
  BY DEF ResultInductive, ResultsInv, ResultsMove, TablesMove, LexicalInductive, WalkInductive,
         Inductive, TypeOK
<1>2. /\ prog' = prog /\ cur \in Node
      /\ \A n \in Node \ {cur} :
           /\ resolved'[n] = resolved[n] /\ at'[n] = at[n]
           /\ pc'[n] = pc[n] \/ (pc'[n] = "enter" /\ pc[n] = "idle")
  BY OthersStay
<1>3. Node' = Node /\ \A n : IsAncestor(resolved[n], n)' <=> IsAncestor(resolved'[n], n)
  BY <1>2, SameTree, SameResolved
<1>4. ASSUME NEW n \in Node, pc'[n] \in {"idle", "enter"}
      PROVE  at'[n] = 0
  BY <1>1, <1>2, <1>4 DEF CallsInOrder, IndicesMove, PcMoves
<1>5. ASSUME NEW n \in Node, pc'[n] = "branch"
      PROVE  IsAncestor(resolved'[n], n)
  <2>1. CASE n # cur
    BY <1>1, <1>2, <1>5, <2>1 DEF CallsInOrder
  <2>2. CASE n = cur
    <3>1. IsAncestor(resolved[cur], cur) /\ pc[cur] # "enter"
      BY <1>1, <1>2, <1>5, <2>2 DEF CallsInOrder, IndicesMove, MustVisitBranch, Unresolvable,
                                     ArgumentsPassed, Passing
    <3>2. resolved' = resolved
      BY <1>1, <1>5, <2>2, <3>1 DEF ReferencesMove
    <3> QED BY <2>2, <3>1, <3>2
  <2> QED BY <2>1, <2>2
<1> QED BY <1>3, <1>4, <1>5 DEF CallsInOrder

\* The argument a call has accepted last, once its check has passed.
LEMMA ArgumentFits ==
  ASSUME ResultInductive, cur \in Node, ArgumentFailure(cur) = {},
         at[cur] \in 1 .. Len(Children(cur))
  PROVE  LET c == Child(cur, at[cur])
         IN  pc[c] = "done" /\ ConvertsTo(type[c], type[FormalOf(cur, at[cur])])
<1>1. prog \in Programs /\ ProgressInv /\ WalkInductive
  BY DEF ResultInductive, LexicalInductive, WalkInductive, Inductive
<1>2. PICK i \in 1 .. Len(Children(cur)) : i = at[cur]
  OBVIOUS
<1>3. Child(cur, i) \in Node \ {1} /\ Parent(Child(cur, i)) = cur
  BY <1>1, TreeFacts
<1>4. pc[Child(cur, i)] # "idle"
  <2>1. i \in 1 .. at[cur]
    BY <1>2
  <2> QED BY <1>1, <2>1 DEF ProgressInv
<1>5. pc[Child(cur, i)] = "done"
  BY <1>1, <1>3, <1>4, NoActiveChild DEF Active
<1>6. ConvertsTo(type[Child(cur, i)], type[FormalOf(cur, i)])
  <2>1. at[cur] # 0
    BY <1>2
  <2>2. \A r : Verdict(r) # {}
    BY DEF Verdict
  <2> QED BY <1>2, <2>1, <2>2 DEF ArgumentFailure, FormalOf
<1> QED BY <1>2, <1>5, <1>6

LEMMA ArgumentsAfter ==
  ASSUME ResultInductive, ResultsMove
  PROVE  ArgumentsChecked'
<1>1. /\ ArgumentsChecked /\ CallsInOrder /\ IndicesMove /\ ReferencesMove /\ ReturnsFound
      /\ ResolvedRight /\ TypesAreGiven /\ TypesAreGiven'
      /\ prog \in Programs /\ at \in [Node -> Nat] /\ pc \in [Node -> Progress]
  BY GivenAfter DEF ResultInductive, ResultsInv, ResultsMove, LexicalInductive, WalkInductive,
                    Inductive, TypeOK
<1>2. /\ prog' = prog /\ cur \in Node /\ pc[cur] \notin {"idle", "done"}
      /\ \A n \in Node : pc[n] = "done" => pc'[n] = "done" /\ type'[n] = type[n]
      /\ \A n \in Node \ {cur} :
           /\ resolved'[n] = resolved[n] /\ at'[n] = at[n]
           /\ pc'[n] = pc[n] \/ (pc'[n] = "enter" /\ pc[n] = "idle")
  BY OthersStay
<1>3. /\ Node' = Node /\ \A n : Kind(n)' = Kind(n) /\ Children(n)' = Children(n)
      /\ \A n, i : Child(n, i)' = Child(n, i)
      /\ \A n, i : FormalOf(n, i)' = Child(CallableOf(resolved'[n]), i)
  BY <1>2, SameTree, SameResolved
<1>4. \A n \in Node : Kind(n) = "formal" => type'[n] = type[n]
  BY <1>1, <1>2, <1>3 DEF TypesAreGiven
<1>5. ASSUME NEW n \in Node, Kind(n) = "function_call", resolved[n] # 0,
             NEW i \in 1 .. Len(Children(n)),
             pc[Child(n, i)] = "done", ConvertsTo(type[Child(n, i)], type[FormalOf(n, i)])
      PROVE  pc'[Child(n, i)] = "done" /\ ConvertsTo(type'[Child(n, i)], type'[FormalOf(n, i)])
  <2>1. Child(n, i) \in Node
    BY <1>1, ProgramFacts
  <2>2. FormalOf(n, i) \in Node /\ Kind(FormalOf(n, i)) = "formal"
    BY <1>1, <1>5, CalledFormals DEF ResolvedRight, FormalOf
  <2> QED BY <1>2, <1>4, <1>5, <2>1, <2>2
<1>6. ASSUME NEW n \in Node, Kind(n) = "function_call", resolved'[n] # 0,
             NEW i \in 1 .. Len(Children(n)), i < at'[n] \/ pc'[n] \in {"branch", "done"}
      PROVE  /\ resolved'[n] = resolved[n] /\ pc[Child(n, i)] = "done"
             /\ ConvertsTo(type[Child(n, i)], type[FormalOf(n, i)])
  <2>1. CASE n # cur
    BY <1>1, <1>2, <1>6, <2>1 DEF ArgumentsChecked, Gone
  <2>2. CASE n = cur
    <3>1. resolved' = resolved
      <4> SUFFICES ASSUME resolved' # resolved PROVE FALSE
        OBVIOUS
      <4>1. pc[cur] = "enter" /\ pc'[cur] = "arguments" /\ i < at'[cur]
        BY <1>1, <1>6, <2>2 DEF ReferencesMove
      <4>2. at[cur] = 0 /\ (at'[cur] = at[cur] \/ at'[cur] = at[cur] + 1)
        BY <1>1, <1>2, <4>1 DEF CallsInOrder, IndicesMove
      <4> QED BY <4>1, <4>2
    <3>2. CASE Gone(cur, i)
      BY <1>1, <1>6, <2>2, <3>1, <3>2 DEF ArgumentsChecked
    <3>3. CASE ~Gone(cur, i)
      <4>1. ArgumentFailure(cur) = {} /\ i = at[cur]
        <5>1. at[cur] \in Nat /\ ~(i < at[cur]) /\ pc[cur] # "branch"
          BY <1>1, <1>2, <3>3 DEF Gone
        <5>2. CASE pc'[cur] = "done"
          <6>1. ArgumentsPassed
            BY <1>1, <1>6, <2>2, <5>1, <5>2 DEF ReturnsFound, Found
          <6> QED BY <1>1, <2>2, <5>1, <6>1 DEF ArgumentsPassed
        <5>3. CASE pc'[cur] = "branch"
          <6>1. ArgumentsPassed
            BY <1>1, <5>1, <5>3 DEF IndicesMove
          <6> QED BY <1>1, <2>2, <5>1, <6>1 DEF ArgumentsPassed
        <5>4. CASE i < at'[cur]
          BY <1>1, <1>2, <1>6, <2>2, <5>1, <5>4 DEF IndicesMove
        <5> QED BY <1>6, <2>2, <5>2, <5>3, <5>4
      <4> QED BY <1>2, <2>2, <3>1, <4>1, ArgumentFits
    <3> QED BY <3>2, <3>3
  <2> QED BY <2>1, <2>2
<1>7. ASSUME NEW n \in Node, Kind(n) = "function_call", resolved'[n] # 0,
             NEW i \in 1 .. Len(Children(n)), i < at'[n] \/ pc'[n] \in {"branch", "done"}
      PROVE  /\ pc'[Child(n, i)] = "done"
             /\ ConvertsTo(type'[Child(n, i)], type'[Child(CallableOf(resolved'[n]), i)])
  BY <1>5, <1>6, <1>7 DEF FormalOf
<1> QED BY <1>3, <1>7 DEF ArgumentsChecked, Gone

LEMMA ConstructsAfter ==
  ASSUME ResultInductive, ResultsMove
  PROVE  ConstructsChecked'
<1>1. /\ ConstructsChecked /\ ReturnsFound /\ WalkInductive /\ prog \in Programs
      /\ type \in [Node -> MaybeType] /\ pc \in [Node -> Progress]
  BY DEF ResultInductive, ResultsInv, ResultsMove, LexicalInductive, WalkInductive, Inductive,
         TypeOK
<1>2. /\ prog' = prog /\ cur \in Node
      /\ \A n \in Node : pc[n] = "done" => pc'[n] = "done" /\ n # cur
      /\ \A n \in Node \ {cur} :
           /\ type'[n] = type[n]
           /\ pc'[n] = pc[n] \/ (pc'[n] = "enter" /\ pc[n] = "idle")
  BY OthersStay
<1>3. /\ Node' = Node /\ \A n : Kind(n)' = Kind(n) /\ Spine(n)' = Spine(n)
      /\ \A n : ReturnExpression(LastChild(n))' = ReturnExpression(LastChild(n))
      /\ \A n, i : Child(n, i)' = Child(n, i)
  BY <1>2, SameTree, SameResolved
\* What a check reads lies below the node, hence has ended with it and is not the node.
<1>4. ASSUME NEW n \in Node, NEW m \in Node, NEW c \in Node \ {1}, n \in Path(m), Parent(c) = m,
             ~Optional(c)
      PROVE  c # n /\ (pc[n] = "done" => pc[c] = "done")
  <2>1. n \in Path(c) /\ n < c
    <3>1. m \in Path(m) /\ Path(m) \subseteq Path(c) /\ n <= m
      BY <1>1, <1>4, PathFacts DEF Path
    <3>2. m < c
      BY <1>1, <1>4, TreeOrder
    <3> QED BY <1>1, <1>4, <3>1, <3>2, ProgramFacts
  <2> QED BY <1>1, <1>2, <1>4, <2>1, DoneBelow, ProgramFacts
<1>5. \A n \in Node : n \in Path(n)
  BY <1>1, PathFacts
<1>6. ASSUME NEW n \in Node, pc'[n] = "done", Kind(n) = "if_expr"
      PROVE  /\ ConvertsTo(type'[Child(n, 1)], Scalar("BOOL"))
             /\ ConvertsTo(type'[Child(n, 3)], type'[n]) /\ type'[n] = type'[Child(n, 2)]
  <2>1. \A i \in {1, 2, 3} : /\ Child(n, i) \in Node \ {1} /\ Parent(Child(n, i)) = n
                             /\ ~Optional(Child(n, i))
    BY <1>1, <1>6, CheckedNodes DEF Optional
  <2>2. \A i \in {1, 2, 3} : Child(n, i) # n /\ (pc[n] = "done" => pc[Child(n, i)] = "done")
    BY <1>4, <1>5, <2>1
  <2>3. CASE n # cur
    <3>1. pc[n] = "done" /\ type'[n] = type[n]
      BY <1>2, <1>6, <2>3
    <3>2. \A i \in {1, 2, 3} : type'[Child(n, i)] = type[Child(n, i)]
      BY <1>2, <2>1, <2>2, <3>1
    <3>3. IfChecked(n)
      BY <1>1, <1>6, <3>1 DEF ConstructsChecked
    <3> QED BY <3>1, <3>2, <3>3 DEF IfChecked
  <2>4. CASE n = cur
    <3>1. \A i \in {1, 2, 3} : type'[Child(n, i)] = type[Child(n, i)]
      BY <1>2, <2>1, <2>2, <2>4
    <3>2. PICK t : Return(t) /\ Found(t)
      BY <1>1, <1>6, <2>4 DEF ReturnsFound
    <3>3. type'[n] = t /\ t = IfType(n) /\ t \notin Failures
      BY <1>1, <1>2, <1>6, <2>4, <3>2 DEF Return, Found
    <3>4. /\ ConvertsTo(type[Child(n, 1)], Scalar("BOOL"))
          /\ ConvertsTo(type[Child(n, 3)], type[Child(n, 2)]) /\ t = type[Child(n, 2)]
      <4>1. \A a, b : Mismatch(a, b) \in Failures
        BY TypeFacts
      <4> QED BY <3>3, <4>1 DEF IfType, Failures
    <3> QED BY <3>1, <3>3, <3>4
  <2> QED BY <2>3, <2>4
<1>7. ASSUME NEW n \in Node, pc'[n] = "done", Kind(n) = "list", NEW m \in Spine(n)
      PROVE  ConvertsTo(type'[Child(m, 1)], Subtype(type'[n]))
  <2>1. /\ m \in Node /\ n \in Path(m) /\ Kind(m) = "list"
        /\ Child(m, 1) \in Node \ {1} /\ Parent(Child(m, 1)) = m
    BY <1>1, <1>7, CheckedNodes
  <2>2. Child(m, 1) # n /\ (pc[n] = "done" => pc[Child(m, 1)] = "done")
    BY <1>4, <2>1 DEF Optional
  <2>3. CASE n # cur
    <3>1. pc[n] = "done" /\ type'[n] = type[n]
      BY <1>2, <1>7, <2>3
    <3>2. type'[Child(m, 1)] = type[Child(m, 1)]
      BY <1>2, <2>1, <2>2, <3>1
    <3> QED BY <1>1, <1>7, <3>1, <3>2 DEF ConstructsChecked, ListChecked
  <2>4. CASE n = cur
    <3>1. type'[Child(m, 1)] = type[Child(m, 1)]
      BY <1>2, <2>1, <2>2, <2>4
    <3>2. PICK t : Return(t) /\ Found(t)
      BY <1>1, <1>7, <2>4 DEF ReturnsFound
    <3>3. type'[n] = t /\ t = ListType(n) /\ t \notin Failures
      BY <1>1, <1>2, <1>7, <2>4, <3>2 DEF Return, Found
    <3>4. PICK e : e = IF Subtype(type[n]) # Null THEN Subtype(type[n]) ELSE type[Child(n, 1)]
      OBVIOUS
    <3>5. t = ListOf(e) /\ ConvertsTo(type[Child(m, 1)], e) /\ type[Child(n, 1)] # Null
      <4>1. \A a, b : Mismatch(a, b) \in Failures
        BY TypeFacts
      <4> QED BY <1>7, <3>3, <3>4, <4>1 DEF ListType, Failures
    <3>6. e \in Type
      <4>1. Len(Children(n)) \in Nat /\ Len(Children(n)) > 0
        BY <1>1, <1>7, ShapeFacts, ProgramFacts
      <4>2. Child(n, 1) \in Node
        BY <1>1, <4>1, ProgramFacts
      <4>3. type[Child(n, 1)] \in Type /\ type[n] \in MaybeType
        BY <1>1, <3>5, <4>2 DEF MaybeType
      <4> QED BY <3>4, <4>3, TypeFacts DEF MaybeType
    <3>7. Subtype(ListOf(e)) = e
      BY <3>6 DEF Subtype, ListOf, Type
    <3> QED BY <3>1, <3>3, <3>5, <3>7
  <2> QED BY <2>3, <2>4
<1>8. ASSUME NEW n \in Node, pc'[n] = "done", Kind(n) \in Callables
      PROVE  type'[n] = type'[ReturnExpression(LastChild(n))]
  <2>1. PICK b \in Node : b = LastChild(n) /\ Parent(b) = n /\ Kind(b) = "function_body" /\ b # 1
    BY <1>1, <1>8, CheckedNodes
  <2>2. PICK r \in Node \ {1} : r = ReturnExpression(b) /\ Parent(r) = b
    BY <1>1, <1>8, <2>1, CheckedNodes
  <2>3. n \in Path(b) /\ ~Optional(r)
    BY <1>1, <2>1, <2>2, PathFacts DEF Optional
  <2>4. r # n /\ (pc[n] = "done" => pc[r] = "done")
    BY <1>4, <2>2, <2>3
  <2>5. CASE n # cur
    <3>1. pc[n] = "done" /\ type'[n] = type[n]
      BY <1>2, <1>8, <2>5
    <3>2. type'[r] = type[r]
      BY <1>2, <2>4, <3>1
    <3> QED BY <1>1, <1>8, <2>1, <2>2, <3>1, <3>2 DEF ConstructsChecked, CallableChecked
  <2>6. CASE n = cur
    <3>1. type'[r] = type[r]
      BY <1>2, <2>4, <2>6
    <3>2. PICK t : Return(t) /\ Found(t)
      BY <1>1, <1>8, <2>6 DEF ReturnsFound
    <3>3. type'[n] = t /\ t = CallableType(n) /\ t \notin Failures
      BY <1>1, <1>2, <1>8, <2>6, <3>2 DEF Return, Found
    <3> QED BY <2>1, <2>2, <3>1, <3>3 DEF CallableType, CopyOf, Failures
  <2> QED BY <2>5, <2>6
<1> QED BY <1>3, <1>6, <1>7, <1>8 DEF ConstructsChecked, IfChecked, ListChecked, CallableChecked

LEMMA ResultsUnchanged ==
  ASSUME ResultInductive, UNCHANGED vars
  PROVE  ResultsInv'
<1>1. UNCHANGED <<prog, pc, at, defs, type, resolved>> /\ ResultsInv
  BY DEF vars, ResultInductive
<1>2. /\ Node' = Node
      /\ \A n : /\ Kind(n)' = Kind(n) /\ Children(n)' = Children(n) /\ Active(n)' = Active(n)
                /\ Spine(n)' = Spine(n)
      /\ \A n, i : Child(n, i)' = Child(n, i) /\ Gone(n, i)' = Gone(n, i)
  BY <1>1, SameTree, SameResolved DEF Active, Gone
<1>3. /\ \A n : /\ Kind(resolved[n])' = Kind(resolved[n])
                /\ BlockAround(resolved[n])' = BlockAround(resolved[n])
                /\ IsAncestor(resolved[n], n)' <=> IsAncestor(resolved[n], n)
                /\ CallFailures(n, resolved[n])' = CallFailures(n, resolved[n])
                /\ ReturnExpression(LastChild(n))' = ReturnExpression(LastChild(n))
      /\ \A n, i : FormalOf(n, i)' = FormalOf(n, i)
  BY <1>1, SameResolved DEF FormalOf
<1>4. TypesAreGiven' /\ DeclaredInTime' /\ CallsInOrder'
  BY <1>1, <1>2, <1>3 DEF ResultsInv, TypesAreGiven, DeclaredInTime, CallsInOrder
<1>5. ResolvedRight' /\ ReferencesAgree'
  BY <1>1, <1>2, <1>3 DEF ResultsInv, ResolvedRight, ReferencesAgree
<1>6. ArgumentsChecked'
  BY <1>1, <1>2, <1>3 DEF ResultsInv, ArgumentsChecked
<1>7. ConstructsChecked'
  BY <1>1, <1>2, <1>3 DEF ResultsInv, ConstructsChecked, IfChecked, ListChecked, CallableChecked
<1> QED BY <1>4, <1>5, <1>6, <1>7 DEF ResultsInv

-----------------------------------------------------------------------------
(* The theorems                                                            *)

LEMMA ResultsInitially == Init => ResultInductive
<1> SUFFICES ASSUME Init PROVE ResultInductive
  OBVIOUS
<1>1. LexicalInductive /\ prog \in Programs
  BY LexicalInitially DEF Init
<1>2. Node = 1 .. Len(prog) /\ 1 \in Node /\ Kind(1) = "root"
  BY <1>1, ProgramFacts
<1>3. \A n \in Node : /\ pc[n] = IF n = 1 THEN "children" ELSE "idle"
                      /\ at[n] = 0 /\ defs[n] = {} /\ resolved[n] = 0 /\ type[n] = prog[n].type
  BY <1>2 DEF Init
<1>4. ResultsInv
  BY <1>3 DEF ResultsInv, TypesAreGiven, DeclaredInTime, ResolvedRight, ReferencesAgree,
              ArgumentsChecked, CallsInOrder, ConstructsChecked
<1> QED BY <1>1, <1>4 DEF ResultInductive

LEMMA ResultsPreserved == ResultInductive /\ [Next]_vars => ResultInductive'
<1> SUFFICES ASSUME ResultInductive, [Next]_vars PROVE ResultInductive'
  OBVIOUS
<1>1. LexicalInductive'
  BY LexicalPreserved DEF ResultInductive
<1>2. CASE Next
  <2>1. ResultsMove
    BY <1>2, NextResults
  <2> QED BY <1>1, <2>1, GivenAfter, ResolvedAfter, AgreementAfter, CallsAfter, ArgumentsAfter,
             ConstructsAfter DEF ResultInductive, ResultsInv
<1>3. CASE UNCHANGED vars
  BY <1>1, <1>3, ResultsUnchanged DEF ResultInductive
<1> QED BY <1>2, <1>3

\* When a program is accepted, every handler but those of externs' formals has returned.
LEMMA AcceptedIsDone ==
  ASSUME ResultInductive, status = "accepted", NEW n \in Node, Kind(n) # "formal"
  PROVE  pc[n] = "done"
<1>1. prog \in Programs /\ ProgressInv /\ WalkInductive /\ Node = 1 .. Len(prog)
  BY ProgramFacts DEF ResultInductive, LexicalInductive, WalkInductive, Inductive
<1>2. 1 \in Node /\ 1 \in Path(n) /\ pc[1] = "done"
  BY <1>1, ProgramFacts, ProgramsAssumption DEF ProgressInv, Path, WellFormed
<1> QED BY <1>1, <1>2, DoneBelow DEF Optional

\* In an accepted program, whatever it is, every reference has been resolved and has the
\* final type of what it refers to, recursive calls aside: no type was copied from a
\* definition before it was known.
THEOREM ReferencesHaveTheirTypes == Spec => []AcceptedReferencesAgree
<1>1. ResultInductive => AcceptedReferencesAgree
  BY AcceptedIsDone DEF ResultInductive, ResultsInv, AcceptedReferencesAgree, ReferencesAgree,
                        ResolvedRight, References
<1> QED BY <1>1, ResultsInitially, ResultsPreserved, PTL DEF Spec

\* In an accepted program the checks of ifs, calls, lists and callables hold of the final
\* types of what they compared.
THEOREM AcceptedProgramsAreTyped == Spec => []AcceptedIsWellTyped
<1>1. ResultInductive => AcceptedIsWellTyped
  <2> SUFFICES ASSUME ResultInductive, status = "accepted", NEW n \in Node
               PROVE  /\ Kind(n) = "if_expr" => IfChecked(n)
                      /\ Kind(n) = "function_call" =>
                           \A i \in DOMAIN Children(n) :
                             ConvertsTo(type[Child(n, i)], type[FormalOf(n, i)])
                      /\ Kind(n) = "list" => ListChecked(n)
                      /\ Kind(n) \in {"function_definition", "lambda"} => CallableChecked(n)
    BY DEF AcceptedIsWellTyped, IfChecked, FormalOf, ListChecked, CallableChecked
  <2>1. Kind(n) # "formal" => pc[n] = "done"
    BY AcceptedIsDone
  <2>2. ConstructsChecked /\ ArgumentsChecked /\ ReferencesAgree /\ prog \in Programs
    BY DEF ResultInductive, ResultsInv, LexicalInductive, WalkInductive, Inductive
  <2>3. ASSUME Kind(n) = "function_call"
        PROVE  \A i \in DOMAIN Children(n) : ConvertsTo(type[Child(n, i)], type[FormalOf(n, i)])
    <3>1. resolved[n] # 0
      BY <2>1, <2>2, <2>3 DEF ReferencesAgree, References
    <3>2. DOMAIN Children(n) = 1 .. Len(Children(n))
      <4>1. prog \in Seq(NodeRecord) /\ prog[n] \in NodeRecord
        BY <2>2, ProgramsAssumption DEF WellFormed, Node
      <4> QED BY <4>1 DEF NodeRecord, Children
    <3> QED BY <2>1, <2>2, <2>3, <3>1, <3>2 DEF ArgumentsChecked, Gone
  <2> QED BY <2>1, <2>2, <2>3 DEF ConstructsChecked, Callables
<1> QED BY <1>1, ResultsInitially, ResultsPreserved, PTL DEF Spec
=============================================================================
