----------------------------- MODULE Semantics ------------------------------
(***************************************************************************)
(* The semantic analyzer: src/semantics.cpp, with the node, visitor state  *)
(* and scope structures of include/asw.                                    *)
(*                                                                         *)
(* The analyzer is one recursive walk.  Its C++ call stack is kept per     *)
(* node: pc[n] is how far the handler of n has come, caller[n] the node    *)
(* whose handler invoked it, and cur the node whose handler is running.    *)
(* An action is the stretch of one handler between two calls of accept.    *)
(* A program is a node table in the numbering of module Grammar: n's       *)
(* subtree is n .. prog[n].last, so ancestors have smaller numbers.        *)
(***************************************************************************)
EXTENDS TypeInfo, Sequences

CONSTANT Programs   \* the parsed programs that may be analyzed

VariableKinds == {"variable_definition", "formal", "iterator_definition"}
FunctionKinds == {"function_definition", "extern_function"}
DefinitionKinds == VariableKinds \cup FunctionKinds
Callables == {"function_definition", "lambda"}
ScopedExpressions == {"if_expr", "do_loop", "collect_loop"}
Unscoped == {"binary_op", "unary_op", "list_op", "list", "set_expression",
             "iterator_definition", "infinite_loop", "when_loop"}
BodyLoops == {"do_loop", "collect_loop", "infinite_loop", "when_loop"}
Kinds == DefinitionKinds \cup Callables \cup ScopedExpressions \cup Unscoped
           \cup {"root", "function_body", "function_call", "variable", "literal"}

NodeRecord == [kind : Kinds, name : STRING, op : STRING, type : MaybeType,
               parent : Nat, children : Seq(Nat), last : Nat]

\* How many children the grammar gives a node, and which they are.
Shape(p, n) ==
  LET kids == p[n].children
      KindOf(i) == p[kids[i]].kind
      Is(kinds) == p[n].kind \in kinds
  IN  /\ Is({"if_expr"}) => Len(kids) = 3
      /\ Is({"binary_op", "when_loop", "do_loop", "collect_loop"}) => Len(kids) = 2
      /\ Is({"unary_op", "set_expression", "variable_definition", "list_op", "infinite_loop"})
           => Len(kids) = 1
      /\ Is({"list"}) => Len(kids) = 1 \/ (Len(kids) = 2 /\ KindOf(2) = "list")
      /\ Is({"list_op"}) => KindOf(1) = "list"
      /\ Is({"do_loop"}) => KindOf(1) = "iterator_definition" /\ KindOf(2) = "function_body"
      /\ Is({"collect_loop"}) => KindOf(1) = "function_body" /\ KindOf(2) = "iterator_definition"
      /\ Is({"infinite_loop"}) => KindOf(1) = "function_body"
      /\ Is(Callables \cup {"root", "function_body", "iterator_definition"}) => Len(kids) > 0
      /\ Is({"function_body"}) => KindOf(Len(kids)) \notin DefinitionKinds
      /\ Is(Callables) => /\ KindOf(Len(kids)) = "function_body"
                          /\ \A i \in 1 .. Len(kids) - 1 : KindOf(i) = "formal"
      /\ Is({"variable", "literal", "formal"}) => kids = <<>>
      /\ Is({"extern_function"}) => \A i \in DOMAIN kids : KindOf(i) = "formal"

\* Bodies are what callables and loops have, iterators what two of the loops have, formals
\* what functions have; and variables and functions are defined at the top or in bodies.
Placement(p, n) ==
  n # 1 => LET above == p[p[n].parent].kind
           IN  /\ p[n].kind = "function_body" => above \in Callables \cup BodyLoops
               /\ p[n].kind = "iterator_definition" => above \in {"do_loop", "collect_loop"}
               /\ p[n].kind = "formal" => above \in Callables \cup {"extern_function"}
               /\ p[n].kind \in FunctionKinds \cup {"variable_definition"} => above \in {"root", "function_body"}

\* slc.yy sets the types of literals, variables, lists, formals and externs only.
Untyped == {"variable_definition", "function_definition"}
LiteralTypes == {Scalar("INT"), Scalar("FLOAT"), Scalar("STRING"), Scalar("NIL")}

WellFormed(p) ==
  /\ p \in Seq(NodeRecord) /\ p # <<>> /\ p[1].last = Len(p)
  /\ \A n \in DOMAIN p :
       /\ p[n].last \in n .. Len(p)
       /\ (p[n].kind = "root") <=> (n = 1)
       /\ IF n = 1 THEN p[n].parent = 0
          ELSE /\ p[n].parent \in 1 .. (n - 1) /\ p[n].last <= p[p[n].parent].last
               /\ \E i \in DOMAIN p[p[n].parent].children : p[p[n].parent].children[i] = n
       /\ \A i \in DOMAIN p[n].children :
            /\ p[n].children[i] \in DOMAIN p /\ p[p[n].children[i]].parent = n
            /\ \A j \in DOMAIN p[n].children : i < j => p[n].children[i] < p[n].children[j]
       /\ Shape(p, n) /\ Placement(p, n)
       /\ p[n].kind \in Untyped => p[n].type = Null
       /\ p[n].kind = "literal" => p[n].type \in LiteralTypes
  /\ \A a, n \in DOMAIN p : a <= n /\ n <= p[a].last => p[n].last <= p[a].last
  /\ \A a, n \in DOMAIN p : a < n /\ n <= p[a].last => a <= p[n].parent

ASSUME ProgramsAssumption == \A p \in Programs : WellFormed(p)

VARIABLES
  prog,      \* the program under analysis; never assigned
  cur,       \* the node whose handler is running, 0 once visit(root) returned
  pc,        \* [Node -> progress of the node's handler]
  at,        \* [Node -> children or arguments its handler has gone through]
  caller,    \* [Node -> the node whose handler called accept on it]
  mark,      \* node::visit_state
  scopeOf,   \* node::scope_, as the node that created the scope; 0 is null
  chain,     \* a scope and the scopes its parent pointers lead to
  defs,      \* scope::variables and scope::functions
  type,      \* node::tid
  resolved,  \* resolved_definition / resolved_ of references and calls
  status     \* the verdict

vars == <<prog, cur, pc, at, caller, mark, scopeOf, chain, defs, type, resolved, status>>
tables == <<scopeOf, chain, defs>>

Node == DOMAIN prog
MaybeNode == Node \cup {0}

Progress == {"idle", "enter", "children", "arguments", "branch", "done"}
Marks == {"NOT_VISITED", "VISITING", "VISITED"}
\* A null dereference or a conversion specifier without its argument is
\* "crashed" where the process dies of it.
Verdicts == {"accepted", "rejected", "crashed"}

TypeOK ==
  /\ cur \in MaybeNode
  /\ pc \in [Node -> Progress]
  /\ at \in [Node -> Nat]
  /\ caller \in [Node -> MaybeNode]
  /\ mark \in [Node -> Marks]
  /\ scopeOf \in [Node -> MaybeNode]
  /\ chain \in [Node -> SUBSET Node]
  /\ defs \in [Node -> SUBSET Node]
  /\ type \in [Node -> MaybeType]
  /\ resolved \in [Node -> MaybeNode]
  /\ status \in Verdicts \cup {"running"}

-----------------------------------------------------------------------------
(* The tree                                                                *)

Kind(n) == prog[n].kind
Name(n) == prog[n].name
Parent(n) == prog[n].parent
Children(n) == prog[n].children
Child(n, i) == prog[n].children[i]
LastChild(n) == Child(n, Len(Children(n)))

\* n and the nodes above it, the root included.
Path(n) == {a \in 1 .. n : n <= prog[a].last}
Below(S) == CHOOSE x \in S : \A y \in S : y <= x
Above(S) == CHOOSE x \in S : \A y \in S : x <= y

\* node::is_anscestor never answers true for the root.
IsAncestor(a, n) == a # 1 /\ a \in Path(n)

ReturnExpression(body) == LastChild(body)

\* Whether n is the tail of the list above it, and the lists one reaches from n
\* by get_tail.
IsTail(n) ==
  /\ Kind(n) = "list" /\ n # 1 /\ Kind(Parent(n)) = "list"
  /\ Len(Children(Parent(n))) = 2 /\ Child(Parent(n), 2) = n
Spine(n) == {m \in n .. prog[n].last : \A a \in Path(m) : a > n => IsTail(a)}

-----------------------------------------------------------------------------
(* Scopes                                                                  *)

\* The scope of the closest node above n that has one.
ScopeAround(n) == scopeOf[Below({a \in Path(Parent(n)) : scopeOf[a] # 0})]

\* scope_has_variable, scope_has_function, scope_has_definition: a definition
\* called x in scope s.  No scope holds two (ScopeUnique).
Named(s, x, kinds) == {d \in defs[s] : Name(d) = x /\ Kind(d) \in kinds}

\* Mutant: the search starts at the global scope.
LookupFromOutside(x, s, kinds) ==
  LET holders == {c \in chain[s] : Named(c, x, kinds) # {}}
  IN  IF holders = {} THEN 0 ELSE CHOOSE d \in Named(Above(holders), x, kinds) : TRUE

\* The search through a scope and its parents, 0 when it finds nothing.  The
\* closer scope is the one created further down the tree.
Lookup(x, s, kinds) ==
  LET holders == {c \in chain[s] : Named(c, x, kinds) # {}}
  IN  IF holders = {} THEN 0 ELSE CHOOSE d \in Named(Below(holders), x, kinds) : TRUE

\* Mutant: the new scope takes over its parent's place instead of pointing to it.
OpenScopeInPlace(n, outer) ==
  /\ scopeOf' = [scopeOf EXCEPT ![n] = n]
  /\ chain' = [chain EXCEPT ![n] = IF outer = 0 THEN {} ELSE chain[outer]]
OpenScope(n, outer) ==
  /\ scopeOf' = [scopeOf EXCEPT ![n] = n]
  /\ chain' = [chain EXCEPT ![n] = {n} \cup (IF outer = 0 THEN {} ELSE chain[outer])]

Declare(n, s) == defs' = [defs EXCEPT ![s] = @ \cup {n}]

\* The scope a definition is added to: a variable crawls up to the first scope,
\* the others use the scope of their parent and of no one else.
HomeScope(n) ==
  IF Kind(n) = "variable_definition" THEN ScopeAround(n) ELSE scopeOf[Parent(n)]

\* Mutant: a function only looks for functions of its name.
ConflictsOfOwnSort(n, s) ==
  Named(s, Name(n), IF Kind(n) \in FunctionKinds THEN FunctionKinds ELSE DefinitionKinds)
Conflicts(n, s) == Named(s, Name(n), DefinitionKinds)

(***************************************************************************)
(* Reporting a conflict reads the location of the earlier definition,      *)
(* which the grammar sets on neither externs nor iterators; the message    *)
(* for two variables has a %s more than it has arguments.                  *)
(***************************************************************************)
ConflictVerdicts(n, d) ==
  IF Kind(d) \in {"extern_function", "iterator_definition"} THEN {"crashed"}
  ELSE IF Kind(n) \in VariableKinds /\ Kind(d) \in VariableKinds THEN {"rejected", "crashed"}
  ELSE {"rejected"}

-----------------------------------------------------------------------------
(* Calling and returning from handlers                                     *)

Running(kinds, p) == status = "running" /\ cur \in Node /\ Kind(cur) \in kinds /\ pc[cur] = p
Entering(kinds) == Running(kinds, "enter")
Leaving(kinds) == Running(kinds, "children") /\ at[cur] = Len(Children(cur))

\* The handler of cur calls c->accept, to go on at p afterwards.
Accept(c, p) ==
  /\ cur' = c
  /\ pc' = [pc EXCEPT ![cur] = p, ![c] = "enter"]
  /\ caller' = [caller EXCEPT ![c] = cur]

GoOn(p) == pc' = [pc EXCEPT ![cur] = p] /\ UNCHANGED <<cur, caller>>

\* cur's handler returns true with its type set to t.  visit and visit_children
\* then mark the node visited; visit_function_call does not mark its arguments.
Return(t) ==
  /\ type' = [type EXCEPT ![cur] = t]
  /\ pc' = [pc EXCEPT ![cur] = "done"]
  /\ mark' = IF cur # 1 /\ pc[caller[cur]] = "arguments" THEN mark
             ELSE [mark EXCEPT ![cur] = "VISITED"]
  /\ cur' = caller[cur]
  /\ status' = IF cur = 1 THEN "accepted" ELSE status
  /\ UNCHANGED <<at, caller>>

\* The handler returns false, and so do all its callers; or the process dies.
Stop(verdicts) ==
  /\ status' \in verdicts
  /\ UNCHANGED <<prog, cur, pc, at, caller, mark, tables, type, resolved>>

\* The type a handler computes, or the way in which it fails to.
Rejected == [base |-> "rejected", depth |-> 0]
Crashed == [base |-> "crashed", depth |-> 0]
Failures == {Rejected, Crashed}
Verdict(r) == IF r = Rejected THEN {"rejected"} ELSE {"crashed"}

Conclude(r) ==
  \/ r \in Failures /\ Stop(Verdict(r))
  \/ r \notin Failures /\ Return(r) /\ UNCHANGED <<prog, tables, resolved>>

\* new type_info(*t)
CopyOf(t) == IF t = Null THEN Crashed ELSE t
\* A type error whose message prints both types.
Mismatch(s, t) == IF Printable(s) /\ Printable(t) THEN Rejected ELSE Crashed

-----------------------------------------------------------------------------
(* What the handlers compute once their children are visited               *)

CompareOps == {"GREATER", "GREATER_EQ", "LESS", "LESS_EQ", "EQUAL"}

CompareType(l, r) ==
  IF l = Null \/ r = Null THEN Crashed
  ELSE IF Id(l) = Id(r) \/ {Id(l), Id(r)} \in {{"INT", "FLOAT"}, {"NIL", "LIST"}}
  THEN Scalar("BOOL") ELSE Rejected

\* cons refuses a quoted list as its head whatever the types are, and looks at
\* no type in that case.
ConsType(head, tail) ==
  LET h == type[head]  t == type[tail]
  IN  IF Kind(head) = "list" THEN Rejected
      ELSE IF t = Null THEN Crashed
      ELSE IF ~IsList(t) THEN Rejected
      ELSE IF h = Null \/ Subtype(t) = Null THEN Crashed
      ELSE IF ConvertsTo(h, Subtype(t)) THEN t ELSE Mismatch(h, t)

BinaryOpType(n) ==
  IF prog[n].op \in CompareOps
  THEN CompareType(type[Child(n, 1)], type[Child(n, 2)])
  ELSE ConsType(Child(n, 1), Child(n, 2))

UnaryOpType(n) ==
  LET t == type[Child(n, 1)]
  IN  IF t = Null THEN Crashed
      ELSE IF prog[n].op = "NOT"
      THEN IF Id(t) \in {"INVALID", "VARIABLE"} THEN Rejected ELSE Scalar("BOOL")
      ELSE IF ~IsList(t) THEN Rejected
      ELSE IF prog[n].op = "CAR" THEN CopyOf(Subtype(t)) ELSE t

ListOpType(n) ==
  LET l == type[Child(n, 1)]
      e == Subtype(l)
      op == prog[n].op
  IN  IF e = Null THEN Rejected
      ELSE IF op = "PRINT" THEN Scalar("INT")
      ELSE IF op \in {"MINUS", "TIMES", "DIVIDE"}
      THEN IF Id(e) \in {"INT", "FLOAT"} THEN e ELSE Mismatch(l, l)
      ELSE IF Id(e) \notin {"INT", "FLOAT", "BOOL", "STRING", "LIST"} THEN Rejected
      ELSE IF op = "PLUS" THEN e ELSE Scalar("BOOL")

\* A list takes its element type from its head; the heads of the lists in its
\* tail, visited before, have to convert to it.
ListType(n) ==
  LET head == type[Child(n, 1)]
      e == IF Subtype(type[n]) # Null THEN Subtype(type[n]) ELSE head
      bad == {m \in Spine(n) : ~ConvertsTo(type[Child(m, 1)], e)}
  IN  IF head = Null THEN Crashed
      ELSE IF bad = {} THEN ListOf(e)
      ELSE Mismatch(type[Child(Above(bad), 1)], e)

\* Mutant: the conversion between the branches is tested the other way round.
IfTypeSwapped(n) ==
  LET affirmative == type[Child(n, 2)]
      else == type[Child(n, 3)]
  IN  IF type[Child(n, 1)] = Null \/ affirmative = Null \/ else = Null THEN Crashed
      ELSE IF ~ConvertsTo(type[Child(n, 1)], Scalar("BOOL")) THEN Rejected
      ELSE IF ConvertsTo(affirmative, else) THEN affirmative
      ELSE Mismatch(else, affirmative)

IfType(n) ==
  LET condition == type[Child(n, 1)]
      affirmative == type[Child(n, 2)]
      else == type[Child(n, 3)]
  IN  IF condition = Null THEN Crashed
      ELSE IF ~ConvertsTo(condition, Scalar("BOOL")) THEN Rejected
      ELSE IF affirmative = Null \/ else = Null THEN Crashed
      ELSE IF ConvertsTo(else, affirmative) THEN affirmative
      ELSE Mismatch(else, affirmative)

\* function_definition and lambda: the type of the body's last expression.
CallableType(n) == CopyOf(type[ReturnExpression(LastChild(n))])

\* Mutant: the type of the collected value is used without being there.
LoopTypeUnchecked(n) ==
  IF Kind(n) = "do_loop" THEN CopyOf(type[ReturnExpression(Child(n, 2))])
  ELSE ListOf(type[ReturnExpression(Child(n, 1))])

LoopType(n) ==
  IF Kind(n) = "do_loop" THEN CopyOf(type[ReturnExpression(Child(n, 2))])
  ELSE LET t == type[ReturnExpression(Child(n, 1))]
       IN  IF t = Null THEN Crashed ELSE ListOf(t)

IteratorType(n) ==
  LET t == type[Child(n, 1)]
  IN  IF t = Null THEN Crashed
      ELSE IF ~IsList(t) THEN Rejected ELSE CopyOf(Subtype(t))

-----------------------------------------------------------------------------
(* Calls                                                                   *)

\* What a call runs: the function, or the lambda a variable was defined with.
CallableOf(d) == IF Kind(d) \in VariableKinds THEN Child(d, 1) ELSE d
FormalCount(f) ==
  IF Kind(f) = "extern_function" THEN Len(Children(f)) ELSE Len(Children(f)) - 1

\* Why a call cannot go on with the definition d its name resolves to.  A formal
\* has no first child to look at.
CallFailures(n, d) ==
  IF d = 0 THEN {"rejected"}
  ELSE IF Kind(d) = "formal" THEN {"crashed"}
  ELSE IF Kind(d) \in VariableKinds /\ Kind(Child(d, 1)) # "lambda" THEN {"rejected"}
  ELSE IF Len(Children(n)) # FormalCount(CallableOf(d)) THEN {"rejected"}
  ELSE {}

\* The check of the argument a call has accepted last.
ArgumentFailure(n) ==
  LET arg == type[Child(n, at[n])]
      formal == type[Child(CallableOf(resolved[n]), at[n])]
  IN  IF at[n] = 0 THEN {}
      ELSE IF arg = Null THEN {"crashed"}
      ELSE IF ConvertsTo(arg, formal) THEN {} ELSE Verdict(Mismatch(arg, formal))

\* A call is recursive when its callee is still being visited.
Recursive(n) == mark[resolved[n]] = "VISITING"

\* The topmost if between the call and the body it is in, 0 when there is none.
EnclosingIf(n) ==
  LET body == Below({a \in Path(n) : Kind(a) = "function_body"} \cup {0})
      ifs == {a \in Path(n) : Kind(a) = "if_expr" /\ a > body}
  IN  IF ifs = {} THEN 0 ELSE Above(ifs)

\* The branch a recursive call takes its type from, and whether it has one yet:
\* the else branch must have been visited, the affirmative one must have a type.
InAffirmative(n) == IsAncestor(Child(EnclosingIf(n), 2), n)
OtherBranch(n) == Child(EnclosingIf(n), IF InAffirmative(n) THEN 3 ELSE 2)

BranchKnown(n) ==
  IF InAffirmative(n) THEN mark[OtherBranch(n)] = "VISITED"
  ELSE type[OtherBranch(n)] # Null

Unresolvable(n) ==
  \/ ~IsAncestor(resolved[n], n)
  \/ EnclosingIf(n) = 0
  \/ ~BranchKnown(n) /\ mark[OtherBranch(n)] = "VISITING"

MustVisitBranch(n) ==
  /\ Recursive(n) /\ ~Unresolvable(n) /\ ~BranchKnown(n)
  /\ mark[OtherBranch(n)] = "NOT_VISITED"

CallType(n) ==
  IF ~Recursive(n) THEN CopyOf(type[resolved[n]])
  ELSE IF Unresolvable(n) THEN Rejected
  ELSE CopyOf(type[OtherBranch(n)])

-----------------------------------------------------------------------------
(* The initial state: visit(&root) has created the global scope.           *)

Init ==
  /\ prog \in Programs
  /\ cur = 1
  /\ pc = [n \in Node |-> IF n = 1 THEN "children" ELSE "idle"]
  /\ at = [n \in Node |-> 0]
  /\ caller = [n \in Node |-> 0]
  /\ mark = [n \in Node |-> IF n = 1 THEN "VISITING" ELSE "NOT_VISITED"]
  /\ scopeOf = [n \in Node |-> IF n = 1 THEN 1 ELSE 0]
  /\ chain = [n \in Node |-> IF n = 1 THEN {1} ELSE {}]
  /\ defs = [n \in Node |-> {}]
  /\ type = [n \in Node |-> prog[n].type]
  /\ resolved = [n \in Node |-> 0]
  /\ status = "running"

-----------------------------------------------------------------------------
(* The handlers, from their start to their first call of accept            *)

BeginChildren == GoOn("children") /\ UNCHANGED <<prog, at, mark, type, resolved, status>>

VisitUnscoped == Entering(Unscoped) /\ BeginChildren /\ UNCHANGED tables

\* A body uses the very scope of its parent, also when that is null.
VisitFunctionBody ==
  /\ Entering({"function_body"})
  /\ scopeOf' = [scopeOf EXCEPT ![cur] = scopeOf[Parent(cur)]]
  /\ BeginChildren /\ UNCHANGED <<chain, defs>>

\* if, do and collect put a new scope under the scope of their direct parent,
\* which is null when the parent is an operator, a list or a call.
VisitScopedExpression ==
  /\ Entering(ScopedExpressions)
  /\ OpenScope(cur, scopeOf[Parent(cur)])
  /\ BeginChildren /\ UNCHANGED defs

\* A lambda looks for the first scope above it.
VisitLambda ==
  /\ Entering({"lambda"})
  /\ OpenScope(cur, ScopeAround(cur))
  /\ BeginChildren /\ UNCHANGED defs

\* A definition whose name its scope already holds, or that has no scope to be
\* added to.  An iterator gets here after its list.
RejectDefinition ==
  /\ \/ Entering(DefinitionKinds \ {"iterator_definition"})
     \/ Leaving({"iterator_definition"}) /\ IteratorType(cur) \notin Failures
  /\ \/ HomeScope(cur) = 0 /\ Stop({"crashed"})
     \/ /\ HomeScope(cur) # 0
        /\ \E d \in Conflicts(cur, HomeScope(cur)) : Stop(ConflictVerdicts(cur, d))

Declarable(n) == HomeScope(n) # 0 /\ Conflicts(n, HomeScope(n)) = {}

\* Formals and externs have their type from the parser.
VisitFormalOrExtern ==
  /\ Entering({"formal", "extern_function"})
  /\ Declarable(cur) /\ Declare(cur, HomeScope(cur))
  /\ Return(type[cur]) /\ UNCHANGED <<prog, scopeOf, chain, resolved>>

VisitFunctionDefinition ==
  /\ Entering({"function_definition"})
  /\ Declarable(cur) /\ Declare(cur, HomeScope(cur))
  /\ OpenScope(cur, HomeScope(cur))
  /\ BeginChildren

\* A variable is declared before its value is visited, so that a lambda can call
\* itself by the variable's name.
VisitVariableDefinition ==
  /\ Entering({"variable_definition"})
  /\ Declarable(cur) /\ Declare(cur, HomeScope(cur))
  /\ scopeOf' = [scopeOf EXCEPT ![cur] = HomeScope(cur)]
  /\ BeginChildren /\ UNCHANGED chain

VisitLiteral ==
  /\ Entering({"literal"})
  /\ Return(type[cur]) /\ UNCHANGED <<prog, tables, resolved>>

-----------------------------------------------------------------------------
(* visit_children                                                          *)

NextChild == Child(cur, at[cur] + 1)
MoreChildren ==
  status = "running" /\ cur \in Node /\ pc[cur] = "children" /\ at[cur] < Len(Children(cur))
Advance == at' = [at EXCEPT ![cur] = @ + 1]

\* Mutant: visit_children does not look whether the child was visited already.
VisitChildAgain ==
  /\ MoreChildren
  /\ mark' = [mark EXCEPT ![NextChild] = "VISITING"]
  /\ Accept(NextChild, "children") /\ Advance
  /\ UNCHANGED <<prog, tables, type, resolved, status>>
VisitChild ==
  /\ MoreChildren /\ mark[NextChild] # "VISITED"
  /\ mark' = [mark EXCEPT ![NextChild] = "VISITING"]
  /\ Accept(NextChild, "children") /\ Advance
  /\ UNCHANGED <<prog, tables, type, resolved, status>>

\* Mutants: the test for visited children is inverted; the loop does not move on.
SkipUnvisitedChild ==
  /\ MoreChildren /\ mark[NextChild] # "VISITING"
  /\ Advance
  /\ UNCHANGED <<prog, cur, pc, caller, mark, tables, type, resolved, status>>
SkipNothing ==
  /\ MoreChildren /\ mark[NextChild] = "VISITED"
  /\ UNCHANGED vars

SkipVisitedChild ==
  /\ MoreChildren /\ mark[NextChild] = "VISITED"
  /\ Advance
  /\ UNCHANGED <<prog, cur, pc, caller, mark, tables, type, resolved, status>>

-----------------------------------------------------------------------------
(* The handlers, after their children                                      *)

LeaveOperator ==
  \/ Leaving({"binary_op"}) /\ Conclude(BinaryOpType(cur))
  \/ Leaving({"unary_op"}) /\ Conclude(UnaryOpType(cur))
  \/ Leaving({"list_op"}) /\ Conclude(ListOpType(cur))
  \/ Leaving({"list"}) /\ Conclude(ListType(cur))

LeaveIf == Leaving({"if_expr"}) /\ Conclude(IfType(cur))
LeaveCallable == Leaving(Callables) /\ Conclude(CallableType(cur))
LeaveLoop == Leaving({"do_loop", "collect_loop"}) /\ Conclude(LoopType(cur))
LeaveVariableDefinition ==
  Leaving({"variable_definition"}) /\ Conclude(CopyOf(type[Child(cur, 1)]))

\* The root, bodies and the loops without a type.
LeaveUntyped ==
  Leaving({"root", "function_body", "infinite_loop", "when_loop"}) /\ Conclude(type[cur])

\* An iterator is declared only now.
LeaveIterator ==
  /\ Leaving({"iterator_definition"})
  /\ LET t == IteratorType(cur)
     IN  \/ t \in Failures /\ Stop(Verdict(t))
         \/ /\ t \notin Failures
            /\ Declarable(cur) /\ Declare(cur, HomeScope(cur))
            /\ scopeOf' = [scopeOf EXCEPT ![cur] = HomeScope(cur)]
            /\ Return(t) /\ UNCHANGED <<prog, chain, resolved>>

\* Mutant: resolving leaves the type the parser has set.
ResolveKeepsType ==
  /\ Entering({"variable"}) \/ Leaving({"set_expression"})
  /\ LET d == Lookup(Name(cur), ScopeAround(cur), VariableKinds)
     IN  \/ d = 0 /\ Stop({"rejected"})
         \/ d # 0 /\ type[d] = Null /\ Stop({"crashed"})
         \/ /\ d # 0 /\ type[d] # Null
            /\ resolved' = [resolved EXCEPT ![cur] = d]
            /\ Return(type[cur]) /\ UNCHANGED <<prog, tables>>

\* A variable, and a set once its value is visited, look up a variable and take
\* over its type; the type of the value is not looked at.
ResolveVariable ==
  /\ Entering({"variable"}) \/ Leaving({"set_expression"})
  /\ LET d == Lookup(Name(cur), ScopeAround(cur), VariableKinds)
     IN  \/ d = 0 /\ Stop({"rejected"})
         \/ d # 0 /\ type[d] = Null /\ Stop({"crashed"})
         \/ /\ d # 0 /\ type[d] # Null
            /\ resolved' = [resolved EXCEPT ![cur] = d]
            /\ Return(type[d]) /\ UNCHANGED <<prog, tables>>

-----------------------------------------------------------------------------
(* visit_function_call                                                     *)

VisitFunctionCall ==
  /\ Entering({"function_call"})
  /\ LET d == Lookup(Name(cur), ScopeAround(cur), DefinitionKinds)
     IN  \/ Stop(CallFailures(cur, d))
         \/ /\ CallFailures(cur, d) = {}
            /\ resolved' = [resolved EXCEPT ![cur] = d]
            /\ GoOn("arguments")
            /\ UNCHANGED <<prog, at, mark, tables, type, status>>

Passing == status = "running" /\ cur \in Node /\ pc[cur] = "arguments"

RejectArgument == Passing /\ Stop(ArgumentFailure(cur))

\* Arguments are accepted without being marked.
VisitArgument ==
  /\ Passing /\ ArgumentFailure(cur) = {} /\ at[cur] < Len(Children(cur))
  /\ Accept(NextChild, "arguments") /\ Advance
  /\ UNCHANGED <<prog, mark, tables, type, resolved, status>>

ArgumentsPassed == Passing /\ ArgumentFailure(cur) = {} /\ at[cur] = Len(Children(cur))

\* A recursive call may have the other branch of the if visited out of turn.
VisitOtherBranch ==
  /\ ArgumentsPassed /\ MustVisitBranch(cur)
  /\ mark' = [mark EXCEPT ![OtherBranch(cur)] = "VISITING"]
  /\ Accept(OtherBranch(cur), "branch")
  /\ UNCHANGED <<prog, at, tables, type, resolved, status>>

LeaveFunctionCall ==
  \/ ArgumentsPassed /\ ~MustVisitBranch(cur) /\ Conclude(CallType(cur))
  \/ Running({"function_call"}, "branch") /\ Conclude(CopyOf(type[OtherBranch(cur)]))

-----------------------------------------------------------------------------
Next ==
  \/ VisitUnscoped \/ VisitFunctionBody \/ VisitScopedExpression \/ VisitLambda
  \/ RejectDefinition \/ VisitFormalOrExtern \/ VisitFunctionDefinition
  \/ VisitVariableDefinition \/ VisitLiteral
  \/ VisitChild \/ SkipVisitedChild
  \/ LeaveOperator \/ LeaveIf \/ LeaveCallable \/ LeaveLoop \/ LeaveVariableDefinition
  \/ LeaveUntyped \/ LeaveIterator \/ ResolveVariable
  \/ VisitFunctionCall \/ RejectArgument \/ VisitArgument \/ VisitOtherBranch
  \/ LeaveFunctionCall

Spec == Init /\ [][Next]_vars

\* One thread runs the walk, and nothing it does can block.
FairSpec == Spec /\ WF_vars(Next)

-----------------------------------------------------------------------------
(* Properties                                                              *)

\* No scope ever holds two definitions of a name, in whatever order the
\* recursion rule makes the walk meet them: every definition handler looks for a
\* conflict before it declares.
ScopeUnique ==
  \A s \in Node : \A d, e \in defs[s] : Name(d) = Name(e) => d = e

\* A handler is started at most once for a node, although visit_function_call
\* visits branches ahead of visit_children and leaves its arguments unmarked: a
\* second run would declare the definitions below the node again.
HandlersStartOnce ==
  [][\A n \in Node : pc'[n] = "enter" /\ pc[n] # "enter" => pc[n] = "idle"]_vars

\* The walk of the abstract specification, seen in how far handlers have come.  The
\* formals of externs are children nobody visits.
Walk == INSTANCE Traversal WITH
  NoNode <- 0,
  parent <- [n \in Node |-> Parent(n)],
  optional <- {n \in Node : Kind(n) = "formal" /\ Kind(Parent(n)) = "extern_function"},
  begun <- {n \in Node : pc[n] # "idle"},
  ended <- {n \in Node : pc[n] = "done"},
  verdict <- status

\* Branches visited ahead of turn, marks that are missing on arguments and handlers
\* that call others themselves still make a walk: no node is begun twice, none ends
\* while something below it is missing or in progress, and only the root accepts.
ImplementsTraversal == Walk!Spec

\* The parent pointers of a scope only ever lead to scopes created by nodes
\* above its own, so that the search for a name moves outwards and ends.
ScopesLeadOutwards ==
  \A s \in Node : /\ chain[s] \subseteq Path(s)
                  /\ scopeOf[s] # 0 => scopeOf[s] \in Path(s) /\ scopeOf[s] \in chain[scopeOf[s]]

\* The construct whose scope holds what n defines: the closest above n that opens one.
Openers == {"root"} \cup Callables \cup ScopedExpressions
BlockAround(n) == Below({a \in Path(Parent(n)) : Kind(a) \in Openers})

\* What the walk has come to before the reference n.  An iterator is declared after its
\* list, the formals of an extern never; and of the parts of an if around n only the one
\* n is in counts, because a recursive call may have a later one visited first.
StatedBefore(e, n) ==
  /\ e < n /\ Kind(Parent(e)) # "extern_function"
  /\ Kind(e) = "iterator_definition" => e \notin Path(n)
  /\ \A i \in Path(e) \cap Path(n) : Kind(i) = "if_expr" => \E c \in Path(e) \cap Path(n) : Parent(c) = i

\* Resolution is lexical, though scopes are tables that are filled while the tree is
\* walked, partly out of turn: a reference resolves to a definition of its name, in a
\* block around it, and no block closer to it has one that the program states before.
LexicalResolution ==
  \A n \in Node : resolved[n] # 0 =>
    LET d == resolved[n]
        Candidates == IF Kind(n) = "function_call" THEN DefinitionKinds ELSE VariableKinds
    IN  /\ Name(d) = Name(n) /\ Kind(d) \in Candidates /\ BlockAround(d) \in Path(n)
        /\ \A e \in Node : /\ Kind(e) \in Candidates /\ Name(e) = Name(n)
                          /\ StatedBefore(e, n) /\ BlockAround(e) \in Path(n)
                          => BlockAround(e) <= BlockAround(d)

\* When a program is accepted, the walk has come to every node of it, formals of
\* externs aside.
AcceptedIsComplete ==
  status = "accepted" =>
    \A n \in Node : pc[n] # "done" => Kind(n) = "formal" /\ Kind(Parent(n)) = "extern_function"

\* When a program is accepted, every reference is resolved and has the final
\* type of what it refers to, calls by the recursion rule aside: no type was
\* copied before it was known.
AcceptedReferencesAgree ==
  status = "accepted" =>
    \A n \in Node :
      /\ Kind(n) \in {"variable", "set_expression", "function_call"} => resolved[n] # 0
      /\ resolved[n] # 0 /\ (Kind(n) = "function_call" => ~IsAncestor(resolved[n], n)) =>
           type[n] = type[resolved[n]] /\ type[n] # Null

\* When a program is accepted, the checks made on the way hold of the final
\* types: what was compared then has not been given another type since.
AcceptedIsWellTyped ==
  status = "accepted" =>
    \A n \in Node :
      /\ Kind(n) = "if_expr" =>
           /\ ConvertsTo(type[Child(n, 1)], Scalar("BOOL"))
           /\ ConvertsTo(type[Child(n, 3)], type[n]) /\ type[n] = type[Child(n, 2)]
      /\ Kind(n) = "function_call" =>
           \A i \in DOMAIN Children(n) :
             ConvertsTo(type[Child(n, i)], type[Child(CallableOf(resolved[n]), i)])
      /\ Kind(n) = "list" =>
           \A m \in Spine(n) : ConvertsTo(type[Child(m, 1)], Subtype(type[n]))
      /\ Kind(n) \in {"function_definition", "lambda"} =>
           type[n] = type[ReturnExpression(LastChild(n))]

\* The expressions whose types the handler of n dereferences, or prints, without looking
\* whether they are there: a set expression looks at no type of its value.
TypesRead(n) ==
  IF Kind(n) = "set_expression" THEN {}
  ELSE {Child(n, i) : i \in DOMAIN Children(n)}
         \cup {LastChild(b) : b \in {c \in Node : Kind(c) = "function_body" /\ Parent(c) = n}}
         \cup {OtherBranch(c) : c \in {n} \cap {m \in Node : Kind(m) = "function_call" /\ EnclosingIf(m) # 0}}


\* The analysis of every program ends with a verdict.
AnalysisEnds == <>(status # "running")

-----------------------------------------------------------------------------
(* What comments and examples of the repository say of the analysis        *)

\* semantics.cpp:213 "we crawl back up and find a branch that resolves to a
\* concrete type": a call never takes over a type that is not one.
RecursionFindsConcreteType ==
  \A n \in Node : Kind(n) = "function_call" /\ pc[n] = "done" =>
    type[n].base \notin {"VARIABLE", "LIST"}

\* semantics.cpp:788 "search for the requested variable in this scope, or parent
\* scopes", and example/fib3.sl: a scope leads to the closest one around it.
ScopesNest ==
  \A n \in Node \ {1} : scopeOf[n] = n => chain[ScopeAround(n)] \subseteq chain[n]

\* example/loop.sl:35 "(loop for n in (range 1 (+ n 1)) collect (* n n))": in the
\* body of a loop the iterator's name means the iterator.
BodySeesIterator ==
  \A n \in Node : \A l \in Path(n) :
    /\ resolved[n] # 0 /\ Kind(n) = "variable" /\ Kind(l) = "collect_loop"
    /\ Child(l, 1) \in Path(n) /\ Name(n) = Name(Child(l, 2))
    => l <= resolved[n]

\* semantics.cpp:428 "check scope for redefinition", and example/bad.sl:3: a
\* redefinition is an error the analyzer reports, not one it dies of.
RedefinitionIsReported ==
  status = "crashed" /\ Kind(cur) \in DefinitionKinds /\ HomeScope(cur) # 0 =>
    cur \in defs[HomeScope(cur)] \/ Conflicts(cur, HomeScope(cur)) = {}

\* README.md:3 "a very basic LISP-like language that is statically typed": the
\* value a variable is set to converts to the type it was defined with.
SetKeepsType ==
  \A n \in Node : Kind(n) = "set_expression" /\ pc[n] = "done" =>
    ConvertsTo(type[Child(n, 1)], type[n])
=============================================================================
