------------------------------- MODULE Codegen -------------------------------
(***************************************************************************)
(* The code generator, src/llvm_codegen.cpp, on the trees the analyzer has *)
(* accepted: it reads the types, scopes and resolutions Semantics leaves.  *)
(*                                                                         *)
(* The generator is a second recursive walk.  gcur is the node whose       *)
(* handler runs and step[n] which of its nodes the handler of n has come   *)
(* to; an action is the stretch between two calls of accept.  Emitted code *)
(* is the blocks with their terminators, and for every node the value its  *)
(* handler returned: its low type, the definition it is a value of, and    *)
(* the function its instruction is in.                                     *)
(***************************************************************************)
EXTENDS Semantics, RuntimeDeclarations, FiniteSets

VARIABLES
  gcur,       \* the node whose handler is running
  step,       \* [Node -> which of its nodes its handler called accept on last]
  value,      \* [Node -> what its handler returned]
  named,      \* named_values_, one flat map for all functions and scopes
  slot,       \* [Node -> the low type of a variable's alloca], by its definition
  maps,       \* the scopes scope_to_alloca_map_ has a map for
  symbol,     \* the module's symbols, without the runtime's
  ip,         \* the builder's insertion point
  blocks,     \* the blocks: their function, successors, and whether they end
  phi,        \* [Node -> the blocks the phi of an if names]
  keptBlock,  \* what handlers keep in locals: bb_old of a lambda, bb_then of an if
  keptValue,  \* old_iter_val of a loop
  faults,     \* ill-formed instructions, and null values: <<what is wrong, node>>
  result      \* the verdict

lookups == <<named, slot, maps>>
code == <<symbol, ip, blocks, phi>>
kept == <<keptBlock, keptValue>>
gvars == <<gcur, step, value, lookups, code, kept, faults, result>>

\* ok: a value for main; failed: null.  Null dereferences are crashes.
Results == {"ok", "failed", "crashed"}
FaultKinds == {"operand", "predicate", "late", "null"}

NoBlock == <<0, "none">>
Labels == {"entry", "then", "else", "cont", "check", "loop", "update", "loopend"}
BlockNames == Node \X Labels
Block == [fn : Node, to : SUBSET BlockNames, done : BOOLEAN]

\* LogErrorV returns null; Dead is the value of a handler that does not survive.
Failed(how) == [ty |-> how, def |-> 0, fn |-> 0]
NullValue == Failed("null")
Dead == Failed("dead")
Value == [ty : LowTypes, def : MaybeNode, fn : MaybeNode] \cup {NullValue}

CodegenTypeOK ==
  /\ gcur \in Node /\ step \in [Node -> Nat] /\ value \in [Node -> Value]
  /\ DOMAIN named \subseteq {Name(n) : n \in Node} /\ \A x \in DOMAIN named : named[x] \in Value
  /\ slot \in [Node -> LowTypes] /\ maps \subseteq Node
  /\ \A x \in DOMAIN symbol : symbol[x] \in Node /\ Name(symbol[x]) = x
  /\ ip \in DOMAIN blocks \cup {NoBlock}
  /\ DOMAIN blocks \subseteq BlockNames /\ \A b \in DOMAIN blocks : blocks[b] \in Block
  /\ phi \in [Node -> SUBSET DOMAIN blocks]
  /\ keptBlock \in [Node -> BlockNames \cup {NoBlock}] /\ keptValue \in [Node -> Value]
  /\ faults \subseteq FaultKinds \X Node
  /\ result \in Results \cup {"generating"}

-----------------------------------------------------------------------------
(* Values                                                                  *)

\* _type_id_to_llvm, with the runtime's lists told apart (see LowTypes).
LowType(t) ==
  CASE Id(t) = "INT" -> "i64"
    [] Id(t) = "FLOAT" -> "double"
    [] Id(t) = "BOOL" -> "i1"
    [] Id(t) = "STRING" -> "ptr"
    [] IsList(t) -> IF Subtype(t) = Scalar("INT") THEN "ints"
                    ELSE IF Subtype(t) = Scalar("FLOAT") THEN "doubles" ELSE "ptr"
    [] OTHER -> "none"
SameLow(a, b) == a = b \/ {a, b} \subseteq Pointers

\* The runtime list a list type is kept in; the others are not implemented.
ListKind(t) == IF IsList(t) THEN LowType(t) ELSE "none"
Implemented(t) == ListKind(t) \in ListTypes

\* The function the insertion point is in, and values of instructions put there.
CurrentFunction == IF ip = NoBlock THEN 0 ELSE blocks[ip].fn
Constant(ty) == [ty |-> ty, def |-> 0, fn |-> 0]
Of(ty, d) == [ty |-> ty, def |-> d, fn |-> CurrentFunction]
Instruction(ty) == Of(ty, 0)

\* Loads, stores and allocas ask the block at the insertion point for its module.
AtBlock(v) == IF ip = NoBlock THEN Dead ELSE v

(***************************************************************************)
(* _convert_to_int, _convert_to_float, _convert_to_bool.  Only casts from  *)
(* and to double are emitted: what is called a BOOL afterwards may still   *)
(* be an i64 or a pointer.  A cast reads its operand.                      *)
(***************************************************************************)
Cast(v, ty) == IF v = NullValue THEN Dead ELSE Instruction(ty)
Coerce(v, from, to) ==
  LET kept_as_is == [INT |-> {"INT", "BOOL"}, FLOAT |-> {"FLOAT"},
                     BOOL |-> {"INT", "BOOL", "STRING", "LIST"}]
      cast == [INT |-> {"FLOAT"}, FLOAT |-> {"INT", "BOOL"}, BOOL |-> {"FLOAT"}]
  IN  IF from \in kept_as_is[to] THEN v
      ELSE IF from \in cast[to] THEN Cast(v, LowType(Scalar(to))) ELSE NullValue

\* _maybe_convert accepts n only when it knows the conversion.
Convertible == {"INT", "FLOAT", "BOOL"}
Converts(n, to) == Id(type[n]) = to \/ to \in Convertible
Converted(n, to) ==
  IF Id(type[n]) = to THEN value[n]
  ELSE IF to \in Convertible THEN Coerce(value[n], Id(type[n]), to) ELSE NullValue

\* What a handler returns, and what is wrong with the instructions it emits.
Outcome(v, wrong) == [v |-> v, wrong |-> wrong]
NoOutcome == Outcome(NullValue, {})
Unless(ok, fault) == IF ok THEN {} ELSE {fault}
Late == Unless(ip = NoBlock \/ ~blocks[ip].done, "late")

\* CreateCall: a null argument is kept, an argument of another type as well.
CallOf(signature, args, d) ==
  LET fits == /\ Len(args) = Len(signature.takes)
              /\ \A i \in DOMAIN args : args[i].ty = signature.takes[i]
  IN  IF \E i \in DOMAIN args : args[i] = Dead THEN Outcome(Dead, {})
      ELSE Outcome(Of(signature.gives, d), Unless(fits, "operand") \cup Late)
CallRuntime(list, op, args) == CallOf(RuntimeSignature(list, op), args, 0)

-----------------------------------------------------------------------------
(* Variables                                                               *)

\* A variable defined where the scope has no parent becomes a global, also in a
\* loop whose scope lost its parent.
IsGlobal(n) == LET s == scopeOf[Parent(n)] IN s # 0 /\ chain[s] = {s}

\* The entries of f, and those of g that f has none for.
Onto(f, g) == [x \in DOMAIN f \cup DOMAIN g |-> IF x \in DOMAIN f THEN f[x] ELSE g[x]]
Bind(x, v) == Onto([y \in {x} |-> v], named)

\* _load_var and _store_var: a scope without a map is a null pointer.
Loaded(d) ==
  IF scopeOf[d] \notin maps THEN Dead
  ELSE IF slot[d] = "none" THEN NullValue ELSE AtBlock(Of(slot[d], d))
Stored(d, v) ==
  IF scopeOf[d] \notin maps THEN Dead
  ELSE IF slot[d] = "none" THEN NullValue
  ELSE IF v = NullValue THEN Dead ELSE AtBlock(v)

\* Mutant: the scope's variables come before named_values_.
VariableOutcomeScopeFirst(n) ==
  IF scopeOf[resolved[n]] \in maps /\ slot[resolved[n]] # "none"
  THEN Outcome(Loaded(resolved[n]), Late)
  ELSE Outcome(IF Name(n) \in DOMAIN named THEN named[Name(n)] ELSE Dead, {})

\* visit_variable: any entry in named_values_ comes first, a null one as well.
VariableOutcome(n) ==
  IF Name(n) \in DOMAIN named THEN Outcome(named[Name(n)], {})
  ELSE Outcome(Loaded(resolved[n]), Late)

SetOutcome(n) ==
  LET d == resolved[n]  v == value[Child(n, 1)]
  IN  Outcome(Stored(d, v), Unless(slot[d] = v.ty, "operand") \cup Late)

-----------------------------------------------------------------------------
(* Functions and calls                                                     *)

FormalsOf(f) == SubSeq(Children(f), 1, FormalCount(f))
SignatureOf(f) ==
  FunctionType([i \in 1 .. FormalCount(f) |-> LowType(type[FormalsOf(f)[i]])], LowType(type[f]))
HasSignature(f) ==
  LET s == SignatureOf(f) IN s.gives # "none" /\ \A i \in DOMAIN s.takes : s.takes[i] # "none"

\* Function::Create and new GlobalVariable: the first to come has the name, a
\* later one is given another.  Lambdas are named after their place.
Entered(n) ==
  IF Name(n) \in DOMAIN symbol \cup RuntimeNames \/ Kind(n) = "lambda" THEN symbol
  ELSE Onto([x \in {Name(n)} |-> n], symbol)

Entry(f) == <<f, "entry">>

\* Mutant: a lambda is looked up by the name of the variable it is bound to.
CalleeByName(n) ==
  IF Name(n) \in RuntimeNames THEN {0}
  ELSE {d \in Node : Kind(d) \in FunctionKinds /\ Name(n) \in DOMAIN symbol /\ symbol[Name(n)] = d}

\* module_->getFunction: the node of the function, 0 for the runtime's, none if
\* the name is that of a global, or of a lambda no handler has come to.
Callee(n) ==
  LET f == CallableOf(resolved[n])
  IN  IF Kind(f) = "lambda" THEN {f} \cap {b[1] : b \in DOMAIN blocks}
      ELSE IF Name(n) \in RuntimeNames THEN {0}
      ELSE {d \in Node : Kind(d) \in FunctionKinds /\ Name(n) \in DOMAIN symbol /\ symbol[Name(n)] = d}
CalleeSignature(n, f) == IF f = 0 THEN SignatureNamed(Name(n)) ELSE SignatureOf(f)

FormalId(n, i) == Id(type[Child(CallableOf(resolved[n]), i)])

CallOutcome(n) ==
  LET args == [i \in DOMAIN Children(n) |-> Converted(Child(n, i), FormalId(n, i))]
  IN  IF Callee(n) = {} THEN NoOutcome
      ELSE LET f == CHOOSE f \in Callee(n) : TRUE IN CallOf(CalleeSignature(n, f), args, f)

-----------------------------------------------------------------------------
(* Operators and lists                                                     *)

\* The ids visit_binary_op has predicates for; the others keep the predicate a
\* vector is filled with, the first of the floating point ones.
Predicated == {"INT", "BOOL", "FLOAT", "NIL"}

\* Mutant: the right operand is compared as it is.
CompareOutcomeUnconverted(n) ==
  LET l == value[Child(n, 1)]  r == value[Child(n, 2)]  id == Id(type[Child(n, 1)])
  IN  IF l = NullValue THEN Outcome(Dead, {})
      ELSE Outcome(Instruction("i1"),
             Unless(SameLow(l.ty, r.ty), "operand") \cup Unless(id \in Predicated, "predicate") \cup Late)

\* The right operand is converted to the left one's type.
CompareOutcome(n) ==
  LET id == Id(type[Child(n, 1)])
      l == value[Child(n, 1)]
      right == value[Child(n, 2)]
      r == IF id \notin Predicated THEN right
           ELSE Coerce(right, Id(type[Child(n, 2)]), IF id = "NIL" THEN "BOOL" ELSE id)
      consistent == SameLow(l.ty, r.ty) /\ ((id = "FLOAT") <=> (l.ty = "double"))
  IN  IF l = NullValue \/ r = Dead THEN Outcome(Dead, {})
      ELSE Outcome(Instruction("i1"),
             Unless(consistent, "operand") \cup Unless(id \in Predicated, "predicate") \cup Late)

ConsOutcome(n) ==
  LET t == type[Child(n, 2)]
      args == <<Converted(Child(n, 1), Id(Subtype(t))), value[Child(n, 2)]>>
  IN  IF args[1] = Dead THEN Outcome(Dead, {})
      ELSE IF Implemented(t) THEN CallRuntime(ListKind(t), "cons", args) ELSE NoOutcome

\* _do_car and the unary operators: the head of an integer list is loaded, that of
\* a float list is left as the pointer the runtime returns.
CarOutcome(list, v) ==
  LET call == CallRuntime(list, "car", <<v>>)
  IN  Outcome(IF list = "ints" THEN AtBlock(Instruction("i64")) ELSE call.v, call.wrong)

UnaryOutcome(n) ==
  LET t == type[Child(n, 1)]  v == value[Child(n, 1)]
  IN  IF ~Implemented(t) THEN NoOutcome
      ELSE IF prog[n].op = "CAR" THEN CarOutcome(ListKind(t), v)
      ELSE IF prog[n].op = "CDR" THEN CallRuntime(ListKind(t), "cdr", <<v>>) ELSE NoOutcome

\* The element type alone says which runtime a fold is taken from.
ListOpOutcome(n) ==
  LET op == prog[n].op
      fold == [PLUS |-> "add", MINUS |-> "subtract", TIMES |-> "multiply", DIVIDE |-> "divide"]
  IN  IF ~Implemented(ListOf(type[n])) \/ op \notin DOMAIN fold THEN NoOutcome
      ELSE CallRuntime(ListKind(ListOf(type[n])), fold[op], <<value[Child(n, 1)]>>)

\* A quoted list is consed together from the right; its last cell is created and
\* given a head.  Elements are not converted.
ListOutcome(n) ==
  LET list == ListKind(type[n])
      head == value[Child(n, 1)]
      last == CallRuntime(list, "set_head", <<Instruction(list), head>>)
  IN  IF ~Implemented(type[n]) THEN NoOutcome
      ELSE IF Len(Children(n)) = 1 THEN Outcome(Instruction(list), last.wrong)
      ELSE CallRuntime(list, "cons", <<head, value[Child(n, 2)]>>)

LiteralOutcome(n) ==
  LET id == Id(type[n])
  IN  Outcome(CASE id \in {"INT", "FLOAT"} -> Constant(LowType(type[n]))
                [] id = "STRING" -> AtBlock(Constant("ptr"))
                [] id = "NIL" -> Constant("ptr")
                [] OTHER -> NullValue, {})

-----------------------------------------------------------------------------
(* The walk                                                                *)

\* The handler that calls accept on n: loops accept the list of their iterator.
Handler(n) == IF Kind(Parent(n)) = "iterator_definition" THEN Parent(Parent(n)) ELSE Parent(n)

Generating(kinds, i) == result = "generating" /\ Kind(gcur) \in kinds /\ step[gcur] = i

\* The handler calls accept on c, the ith of the nodes it may visit.
Visit(c, i) ==
  /\ gcur' = c
  /\ step' = [step EXCEPT ![gcur] = i]
  /\ UNCHANGED <<value, faults, result>>

Give(v, wrong) ==
  /\ value' = [value EXCEPT ![gcur] = v]
  /\ gcur' = Handler(gcur)
  /\ faults' = faults \cup {<<w, gcur>> : w \in wrong \cup Unless(v # NullValue, "null")}
  /\ UNCHANGED <<step, result>>

Die ==
  /\ result' = "crashed"
  /\ UNCHANGED <<gcur, step, value, lookups, code, kept, faults>>

\* A handler that changes nothing but what it returns.
Finish(outcome) ==
  \/ outcome.v = Dead /\ Die
  \/ outcome.v # Dead /\ Give(outcome.v, outcome.wrong) /\ UNCHANGED <<lookups, code, kept>>

\* The children a handler accepts one after the other, whatever they return.
Operators == {"binary_op", "unary_op", "list_op", "list"}
Statements == {"root", "function_body"}
Leafs == {"literal", "variable"}
Plain == Operators \cup Statements \cup {"set_expression", "function_call"}

\* Whether they are worth it: operators without code and calls without a callee visit
\* nothing, and what cannot be converted is not visited either.
Accepts(n, i) ==
  CASE Kind(n) = "unary_op" -> Implemented(type[Child(n, 1)])
    [] Kind(n) = "list_op" -> Implemented(ListOf(type[n]))
    [] Kind(n) = "list" -> Implemented(type[n])
    [] Kind(n) = "binary_op" /\ prog[n].op = "CONS" ->
         i = 2 \/ Converts(Child(n, 1), Id(Subtype(type[Child(n, 2)])))
    [] Kind(n) = "function_call" -> Callee(n) # {} /\ Converts(Child(n, i), FormalId(n, i))
    [] OTHER -> TRUE
Upcoming(n) == {i \in DOMAIN Children(n) : i > step[n] /\ Accepts(n, i)}

\* Mutant: the walk through a body stops at the first child without a value.
VisitOperandStopping ==
  /\ result = "generating" /\ Kind(gcur) \in Plain /\ Upcoming(gcur) # {}
  /\ step[gcur] > 0 => value[Child(gcur, step[gcur])] # NullValue
  /\ LET i == Above(Upcoming(gcur)) IN Visit(Child(gcur, i), i)
  /\ UNCHANGED <<lookups, code, kept>>

VisitOperand ==
  /\ result = "generating" /\ Kind(gcur) \in Plain /\ Upcoming(gcur) # {}
  /\ LET i == Above(Upcoming(gcur)) IN Visit(Child(gcur, i), i)
  /\ UNCHANGED <<lookups, code, kept>>

Emitting(kinds) == result = "generating" /\ Kind(gcur) \in kinds /\ Upcoming(gcur) = {}

EmitLeaf ==
  \/ Emitting({"literal"}) /\ Finish(LiteralOutcome(gcur))
  \/ Emitting({"variable"}) /\ Finish(VariableOutcome(gcur))
EmitOperator ==
  \/ Emitting({"binary_op"}) /\ prog[gcur].op \in CompareOps /\ Finish(CompareOutcome(gcur))
  \/ Emitting({"binary_op"}) /\ prog[gcur].op = "CONS" /\ Finish(ConsOutcome(gcur))
  \/ Emitting({"unary_op"}) /\ Finish(UnaryOutcome(gcur))
EmitList ==
  \/ Emitting({"list_op"}) /\ Finish(ListOpOutcome(gcur))
  \/ Emitting({"list"}) /\ Finish(ListOutcome(gcur))
EmitSet == Emitting({"set_expression"}) /\ Finish(SetOutcome(gcur))
EmitCall == Emitting({"function_call"}) /\ Finish(CallOutcome(gcur))
EmitBody == Emitting({"function_body"}) /\ Finish(Outcome(value[ReturnExpression(gcur)], {}))
\* when and infinite loops are refused before anything in them is visited.
EmitNothing == Generating({"when_loop", "infinite_loop"}, 0) /\ Finish(NoOutcome)

\* visit_node: main looks at what the last statement returned and at no other.
EmitRoot ==
  /\ Emitting({"root"})
  /\ result' = IF Children(1) = <<>> \/ value[LastChild(1)] = NullValue THEN "failed" ELSE "ok"
  /\ UNCHANGED <<gcur, step, value, lookups, code, kept, faults>>

-----------------------------------------------------------------------------
(* Definitions                                                             *)

EmitExtern ==
  /\ Generating({"extern_function"}, 0)
  /\ \/ ~HasSignature(gcur) /\ Die
     \/ /\ HasSignature(gcur)
        /\ symbol' = Entered(gcur)
        /\ Give(Constant("ptr"), {}) /\ UNCHANGED <<lookups, ip, blocks, phi, kept>>

\* A global is declared; its value is not visited.
DeclareGlobal ==
  /\ Generating({"variable_definition"}, 0) /\ IsGlobal(gcur)
  /\ IF Id(type[gcur]) \in {"INT", "FLOAT"}
     THEN symbol' = Entered(gcur) /\ Give(Constant("ptr"), {})
     ELSE UNCHANGED symbol /\ Give(NullValue, {})
  /\ UNCHANGED <<lookups, ip, blocks, phi, kept>>

OpenVariable ==
  /\ Generating({"variable_definition"}, 0) /\ ~IsGlobal(gcur)
  /\ \/ scopeOf[Parent(gcur)] = 0 /\ Die
     \/ /\ scopeOf[Parent(gcur)] # 0
        /\ maps' = maps \cup {scopeOf[Parent(gcur)]}
        /\ Visit(Child(gcur, 1), 1) /\ UNCHANGED <<named, slot, code, kept>>

\* Mutant: the value is stored without being there.
EmitVariableUnchecked ==
  /\ Generating({"variable_definition"}, 1)
  /\ slot' = [slot EXCEPT ![gcur] = value[Child(gcur, 1)].ty]
  /\ Give(value[Child(gcur, 1)], Late) /\ UNCHANGED <<named, maps, code, kept>>

\* The alloca has the type of the value, not of the variable.
EmitVariable ==
  /\ Generating({"variable_definition"}, 1)
  /\ LET v == value[Child(gcur, 1)]
     IN  \/ (v = NullValue \/ ip = NoBlock) /\ Die
         \/ /\ v # NullValue /\ ip # NoBlock
            /\ slot' = [slot EXCEPT ![gcur] = v.ty]
            /\ Give(v, Late) /\ UNCHANGED <<named, maps, code, kept>>

NewBlock(f) == [fn |-> f, to |-> {}, done |-> FALSE]
Ending(b, targets) == [blocks EXCEPT ![b].done = TRUE, ![b].to = @ \cup targets]

\* Formals are mapped over whatever has their names, and stay so.
MapFormals(f) ==
  LET Arg(d) == [ty |-> LowType(type[d]), def |-> d, fn |-> f]
      formals == {FormalsOf(f)[i] : i \in 1 .. FormalCount(f)}
      args == [x \in {Name(d) : d \in formals} |-> Arg(CHOOSE d \in formals : Name(d) = x)]
  IN  named' = Onto(args, named)

OpenFunction ==
  /\ Generating(Callables, 0)
  /\ \/ ~HasSignature(gcur) /\ Die
     \/ /\ HasSignature(gcur)
        /\ symbol' = Entered(gcur)
        /\ MapFormals(gcur)
        /\ blocks' = Onto([b \in {Entry(gcur)} |-> NewBlock(gcur)], blocks)
        /\ keptBlock' = [keptBlock EXCEPT ![gcur] = IF Kind(gcur) = "lambda" THEN ip ELSE @]
        /\ ip' = Entry(gcur)
        /\ Visit(LastChild(gcur), 1) /\ UNCHANGED <<slot, maps, phi, keptValue>>

\* Mutant: the insertion point stays in the lambda.
CloseFunctionInside ==
  /\ Generating(Callables, 1)
  /\ blocks' = Ending(ip, {})
  /\ Give(Constant("ptr"), Unless(value[LastChild(gcur)].ty = LowType(type[gcur]), "operand") \cup Late)
  /\ UNCHANGED <<lookups, symbol, ip, phi, kept>>

\* A lambda goes back to where it was met, a function does not.
CloseFunction ==
  /\ Generating(Callables, 1)
  /\ \/ Kind(gcur) = "lambda" /\ keptBlock[gcur] = NoBlock /\ Die
     \/ /\ Kind(gcur) = "lambda" => keptBlock[gcur] # NoBlock
        /\ blocks' = Ending(ip, {})
        /\ ip' = IF Kind(gcur) = "lambda" THEN keptBlock[gcur] ELSE ip
        /\ Give(Constant("ptr"), Unless(value[LastChild(gcur)].ty = LowType(type[gcur]), "operand") \cup Late)
        /\ UNCHANGED <<lookups, symbol, phi, kept>>

-----------------------------------------------------------------------------
(* if                                                                      *)

IfBlock(label) == <<gcur, label>>
LeaveIfUnfinished == Give(NullValue, {}) /\ UNCHANGED <<lookups, code, kept>>
ElseBlock == blocks' = Ending(ip, {IfBlock("cont")}) /\ ip' = IfBlock("else")

OpenIf ==
  /\ Generating({"if_expr"}, 0)
  /\ \/ ip = NoBlock /\ Die
     \/ ip # NoBlock /\ Visit(Child(gcur, 1), 1) /\ UNCHANGED <<lookups, code, kept>>

\* The branch on the condition.  The else and the merge block join the function
\* when the insertion point comes to them.
BeginThen ==
  /\ Generating({"if_expr"}, 1)
  /\ LET c == Converted(Child(gcur, 1), "BOOL")
     IN  \/ c = Dead /\ Die
         \/ /\ c # Dead
            /\ blocks' = Onto([b \in {IfBlock("then"), IfBlock("else"), IfBlock("cont")} |-> NewBlock(CurrentFunction)],
                              Ending(ip, {IfBlock("then"), IfBlock("else")}))
            /\ ip' = IfBlock("then")
            /\ faults' = faults \cup {<<w, gcur>> : w \in Unless(c.ty = "i1", "operand") \cup Late}
            /\ gcur' = Child(gcur, 2) /\ step' = [step EXCEPT ![gcur] = 2]
            /\ UNCHANGED <<value, result, lookups, symbol, phi, kept>>

\* Mutant: bb_then stays the block the branch began in.
BeginElseUnmoved ==
  /\ Generating({"if_expr"}, 2)
  /\ LET v == Converted(Child(gcur, 2), Id(type[gcur]))
     IN  \/ v = NullValue /\ LeaveIfUnfinished
         \/ /\ v \notin {NullValue, Dead} /\ Converts(Child(gcur, 3), Id(type[gcur]))
            /\ ElseBlock
            /\ keptBlock' = [keptBlock EXCEPT ![gcur] = IfBlock("then")]
            /\ Visit(Child(gcur, 3), 3) /\ UNCHANGED <<lookups, symbol, phi, keptValue>>

\* After the affirmative branch, which may have moved the insertion point.  A branch
\* without a value ends the handler there and then; an else that cannot be converted
\* ends it unvisited, in the block made for it.
BeginElse ==
  /\ Generating({"if_expr"}, 2)
  /\ LET v == Converted(Child(gcur, 2), Id(type[gcur]))
     IN  \/ v = Dead /\ Die
         \/ v = NullValue /\ LeaveIfUnfinished
         \/ /\ v \notin {NullValue, Dead} /\ ElseBlock
            /\ UNCHANGED <<lookups, symbol, phi, keptValue>>
            /\ IF Converts(Child(gcur, 3), Id(type[gcur]))
               THEN keptBlock' = [keptBlock EXCEPT ![gcur] = ip] /\ Visit(Child(gcur, 3), 3)
               ELSE UNCHANGED keptBlock /\ Give(NullValue, {})

MergeBranches ==
  /\ Generating({"if_expr"}, 3)
  /\ LET v == Converted(Child(gcur, 2), Id(type[gcur]))
         w == Converted(Child(gcur, 3), Id(type[gcur]))
         ty == LowType(type[gcur])
     IN  \/ w = NullValue /\ LeaveIfUnfinished
         \/ (w = Dead \/ (w # NullValue /\ ty = "none")) /\ Die
         \/ /\ w \notin {NullValue, Dead} /\ ty # "none"
            /\ blocks' = Ending(ip, {IfBlock("cont")})
            /\ phi' = [phi EXCEPT ![gcur] = {keptBlock[gcur], ip}]
            /\ ip' = IfBlock("cont")
            /\ Give(Instruction(ty), Unless(v.ty = ty /\ w.ty = ty, "operand"))
            /\ UNCHANGED <<lookups, symbol, kept>>

-----------------------------------------------------------------------------
(* Loops                                                                   *)

Loops == {"do_loop", "collect_loop"}
LoopBlock(label) == <<gcur, label>>
IteratorOf(n) == Child(n, IF Kind(n) = "do_loop" THEN 1 ELSE 2)
LoopBody(n) == Child(n, IF Kind(n) = "do_loop" THEN 2 ELSE 1)
IterationType(n) == type[ReturnExpression(LoopBody(n))]

\* The allocas come first, then the list is visited.
OpenLoop ==
  /\ Generating(Loops, 0)
  /\ LET iterator == IteratorOf(gcur)
         allocates == /\ ip # NoBlock /\ LowType(type[iterator]) # "none"
                      /\ Kind(gcur) = "do_loop" => LowType(IterationType(gcur)) # "none"
     IN  \/ ~allocates /\ Die
         \/ /\ allocates
            /\ keptValue' = [keptValue EXCEPT ![gcur] =
                               IF Name(iterator) \in DOMAIN named THEN named[Name(iterator)] ELSE NullValue]
            /\ Visit(Child(iterator, 1), 1) /\ UNCHANGED <<lookups, code, keptBlock>>

(***************************************************************************)
(* The list in hand: its tail and its head are stored, which is the        *)
(* pointer to the head in a list of floats, and the blocks of the loop are *)
(* strung together.  Only lists of INT and FLOAT have a car and a cdr.     *)
(***************************************************************************)
BeginIteration ==
  /\ Generating(Loops, 1)
  /\ LET iterator == IteratorOf(gcur)
         list == value[Child(iterator, 1)]
         kind == ListKind(ListOf(type[iterator]))
     IN  \/ kind \notin ListTypes /\ Die
         \/ /\ kind \in ListTypes
            /\ blocks' = Onto([b \in {LoopBlock(l) : l \in {"check", "loop", "update", "loopend"}} |->
                                 IF b # LoopBlock("check") THEN NewBlock(CurrentFunction)
                                 ELSE [fn |-> CurrentFunction, to |-> {LoopBlock("loop"), LoopBlock("loopend")}, done |-> TRUE]],
                              Ending(ip, {LoopBlock("check")}))
            /\ ip' = LoopBlock("loop")
            /\ named' = Bind(Name(iterator), Of(LowType(type[iterator]), iterator))
            /\ faults' = faults \cup {<<w, gcur>> : w \in Late \cup
                            Unless(list.ty = kind /\ CarOutcome(kind, list).v.ty = ElementOf(kind), "operand")}
            /\ gcur' = LoopBody(gcur) /\ step' = [step EXCEPT ![gcur] = 2]
            /\ UNCHANGED <<value, result, slot, maps, symbol, phi, kept>>

\* What the body yields, stored or appended to the list that is collected.
IterationOutcome(n) ==
  LET v == value[LoopBody(n)]
      ty == LowType(IterationType(n))
      list == ListKind(ListOf(IterationType(n)))
  IN  IF Kind(n) = "do_loop"
      THEN IF v = NullValue THEN Outcome(Dead, {})
           ELSE Outcome(Instruction(ty), Unless(v.ty = ty, "operand") \cup Late)
      ELSE IF list \notin ListTypes THEN Outcome(Dead, {})
           ELSE CallRuntime(list, "append", <<Instruction(list), v>>)

\* The iterator's name gets back what it had, and a null entry if it had none.
CloseLoop ==
  /\ Generating(Loops, 2)
  /\ LET o == IterationOutcome(gcur)
     IN  \/ o.v = Dead /\ Die
         \/ /\ o.v # Dead
            /\ blocks' = [Ending(ip, {LoopBlock("update")}) EXCEPT ![LoopBlock("update")].done = TRUE,
                                                                  ![LoopBlock("update")].to = {LoopBlock("check")}]
            /\ ip' = LoopBlock("loopend")
            /\ named' = Bind(Name(IteratorOf(gcur)), keptValue[gcur])
            /\ Give([o.v EXCEPT !.fn = blocks[LoopBlock("loopend")].fn], o.wrong)
            /\ UNCHANGED <<slot, maps, symbol, phi, kept>>

-----------------------------------------------------------------------------
(* main runs the generator when the analysis has accepted the program.     *)

CompilerInit ==
  /\ Init
  /\ gcur = 1
  /\ step = [n \in Node |-> 0]
  /\ value = [n \in Node |-> NullValue]
  /\ named = <<>>
  /\ slot = [n \in Node |-> "none"]
  /\ maps = {} /\ symbol = <<>> /\ ip = NoBlock /\ blocks = <<>>
  /\ phi = [n \in Node |-> {}]
  /\ keptBlock = [n \in Node |-> NoBlock]
  /\ keptValue = [n \in Node |-> NullValue]
  /\ faults = {} /\ result = "generating"

Generate ==
  \/ VisitOperand \/ EmitLeaf \/ EmitOperator \/ EmitList \/ EmitSet \/ EmitCall
  \/ EmitBody \/ EmitNothing \/ EmitRoot
  \/ EmitExtern \/ DeclareGlobal \/ OpenVariable \/ EmitVariable
  \/ OpenFunction \/ CloseFunction
  \/ OpenIf \/ BeginThen \/ BeginElse \/ MergeBranches
  \/ OpenLoop \/ BeginIteration \/ CloseLoop

CompilerNext ==
  \/ Next /\ UNCHANGED gvars
  \/ status = "accepted" /\ Generate /\ UNCHANGED vars

CompilerSpec == CompilerInit /\ [][CompilerNext]_<<vars, gvars>>

\* One thread analyzes and generates, and waits for nothing.
FairCompilerSpec == CompilerSpec /\ WF_<<vars, gvars>>(CompilerNext)

-----------------------------------------------------------------------------
(* Properties                                                              *)

CallableAround(n) == Below({a \in Path(n) : Kind(a) \in Callables} \cup {0})
InBody(n, l) == Kind(l) \in Loops /\ LoopBody(l) \in Path(n)

\* What the text of a program says a variable means: the analyzer visits a body
\* that is collected before its iterator, which is nevertheless what it is about.
Intended(n) ==
  LET around == {l \in Path(n) : InBody(n, l) /\ Name(IteratorOf(l)) = Name(n) /\ l > Parent(resolved[n])}
  IN  IF around = {} THEN resolved[n] ELSE IteratorOf(Below(around))

\* The module is written out and read again by name: an argument of another
\* function, in the text of function f, is f's formal of that name.
Meaning(v, f) ==
  IF v.fn = f \/ v.def = 0 THEN v.def
  ELSE LET own == {d \in Node : Kind(d) = "formal" /\ Kind(v.def) = "formal" /\ Parent(d) = f /\ Name(d) = Name(v.def)}
       IN  IF own = {} THEN 0 ELSE CHOOSE d \in own : TRUE

\* What comes before n in the text, or in the list of a loop around it that collects:
\* the code of the list precedes that of the body, which the parser puts first.
Precedes(e, n) ==
  \/ e <= n
  \/ \E l \in Path(n) : Kind(l) = "collect_loop" /\ InBody(n, l) /\ IteratorOf(l) \in Path(e)

\* Whether named_values_ has had an entry for n's name that is not meant by n.
Mapped(e) == Kind(e) = "iterator_definition" \/ (Kind(e) = "formal" /\ Kind(Parent(e)) \in Callables)
Disturbed(n) ==
  LET d == Intended(n)
  IN  \E e \in Node :
        /\ Mapped(e) /\ Name(e) = Name(n) /\ Precedes(e, n)
        /\ \/ Kind(d) = "variable_definition"
           \/ Kind(d) = "iterator_definition" /\ Kind(e) = "formal" /\ LoopBody(Parent(d)) \in Path(e)

\* A function in a function leaves the insertion point in the inner one.
NestedFunctions == {n \in Node : Kind(n) = "function_definition" /\ Parent(n) # 1}

\* named_values_ and the allocas of scopes are two flat tables for what the analyzer
\* resolved scope by scope.  They agree on every variable a function reads of its own:
\* a let whose name no formal and no iterator has had before, a formal, and an
\* iterator unless a lambda in its loop has a formal of its name.
ReferencesMeanTheirDefinition ==
  \A n \in Node : Kind(n) = "variable" /\ value[n] # NullValue /\ NestedFunctions = {} =>
    LET d == Intended(n)
        f == CallableAround(n)
    IN  f # 0 /\ CallableAround(d) = f /\ ~Disturbed(n) => Meaning(value[n], f) = d

\* The phi of an if names exactly the blocks that branch to it, wherever the code
\* for its branches has moved the insertion point, in one function.
PhisMatchPredecessors ==
  \A n \in Node : phi[n] # {} =>
    /\ phi[n] = {b \in DOMAIN blocks : <<n, "cont">> \in blocks[b].to}
    /\ Cardinality(phi[n]) = 2
    /\ \A b \in phi[n] : blocks[b].fn = blocks[<<n, "cont">>].fn

Unfinished == {n \in Node : Kind(n) = "if_expr" /\ <<"null", n>> \in faults}

\* An expression at the top of a program goes after the end of the function before it.
TopExpressions == {n \in Node \ {1} : Parent(n) = 1 /\ Kind(n) \notin DefinitionKinds}

\* Generated code is a graph per function: every block ends, with branches to blocks
\* of its own function, and something leads to every block, in a program without
\* functions in functions and expressions between them.
BlocksAreComplete ==
  result \in {"ok", "failed"} /\ NestedFunctions \cup TopExpressions \cup Unfinished = {} =>
    \A b \in DOMAIN blocks :
      /\ blocks[b].done
      /\ \A t \in blocks[b].to : t \in DOMAIN blocks /\ blocks[t].fn = blocks[b].fn
      /\ b[2] = "entry" \/ \E a \in DOMAIN blocks : b \in blocks[a].to

\* A call whose name the program gives to one definition only, at the top or in a body
\* the call is in, runs what the analyzer resolved it to, though the generator looks it up
\* by name in a module that also holds the runtime and the globals; the lambda of a global
\* is the exception.  What the body of another loop defines may not be there: the analyzer
\* keeps it for what follows an infinite loop, which is not generated, and for the list of a
\* loop that collects, which is generated before.
CallsReachTheirCallee ==
  \A n \in Node : Kind(n) = "function_call" /\ (value[n] # NullValue \/ <<"null", n>> \in faults) =>
    LET d == resolved[n]
        Namesakes == {e \in Node : Kind(e) \in DefinitionKinds /\ Name(e) = Name(n) /\ e # d}
    IN  \/ Name(n) \in RuntimeNames \/ Namesakes # {} \/ Parent(d) \notin Path(n)
        \/ Kind(d) = "variable_definition" /\ IsGlobal(d)
        \/ value[n].def = CallableOf(d)

(***************************************************************************)
(* The language that compiles: what a program must keep to, beyond what    *)
(* the analyzer asks, for the generator to have a value for all of it.     *)
(***************************************************************************)
SameType(m, t) == type[m] = t
Number(t) == t \in {Scalar("INT"), Scalar("FLOAT")}
\* Between these the generator converts; others it takes for what they are not.
Faithful(m, t) == SameType(m, t) \/ (Number(type[m]) /\ Number(t))

SupportedOperator(n) ==
  LET t == type[Child(n, 1)]  op == prog[n].op
  IN  /\ Kind(n) = "unary_op" => op \in {"CAR", "CDR"} /\ Implemented(t) /\ (op = "CAR" => t = ListOf(Scalar("INT")))
      /\ Kind(n) = "list_op" => op \in {"PLUS", "MINUS", "TIMES", "DIVIDE"} /\ Number(type[n])
      /\ Kind(n) = "list" =>
           Implemented(type[n]) /\ \A m \in Spine(n) : SameType(Child(m, 1), Subtype(type[n]))
      /\ Kind(n) = "binary_op" =>
           IF op = "CONS" THEN Implemented(type[n]) /\ Faithful(Child(n, 1), Subtype(type[n]))
           ELSE Id(t) \in Predicated /\ (Id(t) = "NIL" => Id(type[Child(n, 2)]) # "NIL")

\* What is set is a variable, and not one an iterator's name hides from the analyzer.
SupportedVariable(n) ==
  LET d == Intended(n)
  IN  /\ Parent(d) \in Path(n)
      /\ Kind(n) = "set_expression" =>
           resolved[n] = d /\ Kind(d) = "variable_definition" /\ SameType(Child(n, 1), type[n])
      /\ CallableAround(d) = CallableAround(n) /\ type[n] = type[d]
      /\ Kind(d) = "variable_definition" => Kind(Child(d, 1)) # "lambda" /\ LowType(type[d]) # "none"
      /\ ~Disturbed(n)
      /\ \A e \in Node : Kind(e) = "formal" /\ Name(e) = Name(d) => type[e] = type[d] \/ Kind(d) # "formal"

SupportedLoop(n) ==
  /\ type[IteratorOf(n)] = Scalar("INT")
  /\ IF Kind(n) = "do_loop" THEN LowType(IterationType(n)) # "none" ELSE Number(IterationType(n))

\* The recursion rule may give a call another type than the function has.
SupportedCall(n) ==
  /\ Parent(resolved[n]) \in Path(n) /\ type[n] = type[resolved[n]]
  /\ \A e \in Node : Kind(e) \in DefinitionKinds /\ Name(e) = Name(n) => e = resolved[n]
  /\ Name(n) \notin RuntimeNames
  /\ \A i \in DOMAIN Children(n) : Faithful(Child(n, i), type[Child(CallableOf(resolved[n]), i)])

SupportedIf(n) ==
  /\ Id(type[Child(n, 1)]) \in {"BOOL", "FLOAT"} /\ LowType(type[n]) # "none"
  /\ Faithful(Child(n, 3), type[n])

\* Functions and nothing else at the top; elsewhere variables, which are none of a loop
\* whose scope has lost its parent, and lambdas as the values of variables only.
SupportedDefinition(n) ==
  /\ n # 1 /\ Parent(n) = 1 => Kind(n) \in FunctionKinds
  /\ Kind(n) = "function_definition" => Parent(n) = 1
  /\ Kind(n) = "lambda" => Kind(Parent(n)) = "variable_definition"
  /\ Kind(n) \in FunctionKinds \cup {"lambda"} => HasSignature(n)
  /\ Kind(n) = "variable_definition" => ~IsGlobal(n)

Supported ==
  \A n \in Node :
    /\ Kind(n) \notin {"when_loop", "infinite_loop"}
    /\ SupportedDefinition(n)
    /\ Kind(n) \in Operators => SupportedOperator(n)
    /\ Kind(n) \in {"variable", "set_expression"} => SupportedVariable(n)
    /\ Kind(n) = "function_call" => SupportedCall(n)
    /\ Kind(n) \in Loops => SupportedLoop(n)
    /\ Kind(n) = "if_expr" => SupportedIf(n)

\* What the analyzer accepts and the list above does not exclude compiles: the
\* generator ends with a value for main, and every instruction has operands of the
\* types it asks for, a predicate, and a place before the end of its block.
SupportedProgramsCompile ==
  status = "accepted" /\ (result # "generating" \/ faults # {}) /\ Supported =>
    result \in {"generating", "ok"} /\ faults = {}

\* The generator ends on every program.
GenerationEnds == <>(result # "generating" \/ status \notin {"running", "accepted"})
-----------------------------------------------------------------------------
(* What comments and examples of the repository say of the generator       *)

\* llvm_codegen.cpp:77 "save iter variable in case it shadows another variable": a
\* variable still has a value after a loop.
ShadowedNamesComeBack == \A n \in Node : <<"null", n>> \in faults => Kind(n) # "variable"

\* README.md:70 "declare a variable | (let x (+ 1 2))": what a function reads of a
\* variable it has declared itself is the variable, whatever names others have used.
VariablesAreRead ==
  \A n \in Node : Kind(n) = "variable" /\ value[n] # NullValue /\ Kind(Intended(n)) = "variable_definition"
                    /\ CallableAround(Intended(n)) = CallableAround(n) /\ NestedFunctions = {}
    => value[n].def = Intended(n)

\* example/hello.sl:1 "x (int) <- 3 * 4 = 12": a global gets its value.
InitialValuesAreEmitted ==
  result = "ok" => \A d \in Node : Kind(d) = "variable_definition" /\ Parent(d) = 1 /\ Number(type[d])
                                     => value[Child(d, 1)] # NullValue

\* example/hello.sl:8 "(if ll": the branch of an if is on a truth value.
ConditionsAreTruthValues == \A n \in Node : <<"operand", n>> \in faults => Kind(n) # "if_expr"

\* llvm_codegen.cpp:360 "types are consistent, do the comparison".
ComparisonsAreConsistent == \A n \in Node : <<"predicate", n>> \notin faults

\* README.md:24 "`not` | bool | logical not": the operators are there.
UnaryOperatorsHaveValues == \A n \in Node : <<"null", n>> \in faults => Kind(n) # "unary_op"

\* example/basic.sl:3 "(car '(1 3))": an expression may stand at the top of a program.
ExpressionsStandAlone == status = "accepted" /\ result = "crashed" => Parent(gcur) # 1
=============================================================================
