-------------------------- MODULE SemanticsProofs ---------------------------
(***************************************************************************)
(* Proofs about the semantic analyzer, for every set of well-formed        *)
(* programs: what its tables hold (TypeOK), that no scope ever holds two   *)
(* definitions of one name (ScopeUnique), and how it walks.                *)
(***************************************************************************)
EXTENDS Semantics, WellFoundedInduction, TLAPS

-----------------------------------------------------------------------------
(* Least and greatest elements                                             *)

LEMMA LeastElement ==
  ASSUME NEW S \in SUBSET Nat, S # {}
  PROVE  \E x \in S : \A y \in S : x <= y
<1> DEFINE R == OpToRel(<, Nat)
<1>1. IsWellFoundedOn(R, Nat)
  BY NatLessThanWellFounded
<1>2. \E x \in S : \A y \in S : ~ (<<y, x>> \in R)
  BY <1>1, WFMin
<1>3. \A x \in S, y \in S : ~(<<y, x>> \in R) => x <= y
  BY SMT DEF OpToRel
<1> QED BY <1>2, <1>3

LEMMA GreatestElement ==
  ASSUME NEW n \in Nat, NEW S \in SUBSET (0 .. n), S # {}
  PROVE  \E x \in S : \A y \in S : y <= x
<1> DEFINE T == {t \in 0 .. n : n - t \in S}
<1>1. T \in SUBSET Nat
  OBVIOUS
<1>2. T # {}
  <2>1. PICK x \in S : TRUE
    OBVIOUS
  <2>2. n - x \in 0 .. n /\ n - (n - x) = x
    BY <2>1
  <2> QED BY <2>1, <2>2
<1>3. PICK t \in T : \A u \in T : t <= u
  BY <1>1, <1>2, LeastElement
<1>4. n - t \in S
  BY <1>3
<1>5. ASSUME NEW y \in S
      PROVE  y <= n - t
  <2>1. y \in 0 .. n /\ t \in 0 .. n
    BY <1>3
  <2>2. n - y \in T
    BY <2>1
  <2>3. t <= n - y
    BY <1>3, <2>2
  <2> HIDE DEF T
  <2> QED BY <2>1, <2>3
<1> QED BY <1>4, <1>5

\* Below and Above, the analyzer's choices among ancestors, pick an element.
LEMMA BelowPicks ==
  ASSUME NEW n \in Nat, NEW S \in SUBSET (0 .. n), S # {}
  PROVE  Below(S) \in S /\ \A y \in S : y <= Below(S)
BY GreatestElement DEF Below

LEMMA AbovePicks ==
  ASSUME NEW S \in SUBSET Nat, S # {}
  PROVE  Above(S) \in S /\ \A y \in S : Above(S) <= y
BY LeastElement DEF Above

-----------------------------------------------------------------------------
(* Programs                                                                *)

\* What the proofs use of a well-formed program: the shapes of its nodes, in
\* terms of the operators of the specification.
LEMMA ProgramFacts ==
  ASSUME prog \in Programs
  PROVE  /\ Len(prog) \in Nat /\ Node = 1 .. Len(prog) /\ 1 \in Node
         /\ \A n \in Node :
              /\ Kind(n) \in Kinds /\ prog[n].type \in MaybeType
              /\ Kind(n) = "root" <=> n = 1
              /\ prog[n].last \in n .. Len(prog)
              /\ n # 1 => Parent(n) \in Node
              /\ Len(Children(n)) \in Nat
              /\ \A i \in 1 .. Len(Children(n)) : Child(n, i) \in Node /\ Child(n, i) # n
<1>1. WellFormed(prog)
  BY ProgramsAssumption
<1>2. /\ prog \in Seq(NodeRecord) /\ Len(prog) \in Nat /\ Node = 1 .. Len(prog) /\ 1 \in Node
      /\ \A n \in Node : prog[n] \in NodeRecord
  BY <1>1 DEF WellFormed, Node
<1>3. ASSUME NEW n \in Node
      PROVE  /\ Kind(n) \in Kinds /\ prog[n].type \in MaybeType
             /\ Children(n) \in Seq(Nat)
  BY <1>2 DEF NodeRecord, Kind, Children
<1>4. ASSUME NEW n \in Node
      PROVE  /\ Kind(n) = "root" <=> n = 1
             /\ prog[n].last \in n .. Len(prog)
             /\ n # 1 => Parent(n) \in 1 .. (n - 1)
             /\ \A i \in DOMAIN Children(n) : Child(n, i) \in Node /\ Parent(Child(n, i)) = n
  BY <1>1, <1>2 DEF WellFormed, Kind, Children, Child, Parent, Node
<1>5. ASSUME NEW n \in Node, NEW i \in DOMAIN Children(n)
      PROVE  Child(n, i) # n
  <2>1. Parent(1) = 0
    BY <1>1, <1>2 DEF WellFormed, Parent, Node
  <2> QED BY <1>2, <1>4, <2>1
<1> QED BY <1>2, <1>3, <1>4, <1>5

LEMMA ShapeFacts ==
  ASSUME prog \in Programs, NEW n \in Node
  PROVE  /\ Kind(n) = "if_expr" => Len(Children(n)) = 3
         /\ Kind(n) \in {"binary_op", "do_loop", "collect_loop"} => Len(Children(n)) = 2
         /\ Kind(n) \in {"unary_op", "list_op", "set_expression", "variable_definition"}
              => Len(Children(n)) = 1
         /\ Kind(n) \in {"list", "function_body", "iterator_definition"}
              => Len(Children(n)) > 0
         /\ Kind(n) = "do_loop" => Kind(Child(n, 2)) = "function_body"
         /\ Kind(n) = "collect_loop" => Kind(Child(n, 1)) = "function_body"
         /\ Kind(n) \in Callables
              => Len(Children(n)) > 0 /\ Kind(LastChild(n)) = "function_body"
<1>1. Shape(prog, n)
  BY ProgramsAssumption DEF WellFormed, Node
<1>2. Len(Children(n)) \in Nat
  BY ProgramFacts
<1>3. Kind(n) \in Callables \cup {"list", "function_body", "iterator_definition"}
        => Len(Children(n)) > 0
  BY <1>1, <1>2 DEF Shape, Kind, Children
<1>6. Kind(n) \in Callables => Kind(LastChild(n)) = "function_body"
  BY <1>1, <1>2 DEF Shape, Kind, Children, Child, LastChild
<1>4. /\ Kind(n) = "do_loop" => Kind(Child(n, 2)) = "function_body"
      /\ Kind(n) = "collect_loop" => Kind(Child(n, 1)) = "function_body"
  BY <1>1 DEF Shape, Kind, Children, Child
<1>5. /\ Kind(n) = "if_expr" => Len(Children(n)) = 3
      /\ Kind(n) \in {"binary_op", "do_loop", "collect_loop"} => Len(Children(n)) = 2
      /\ Kind(n) \in {"unary_op", "list_op", "set_expression", "variable_definition"}
           => Len(Children(n)) = 1
  BY <1>1 DEF Shape, Kind, Children
<1> QED BY <1>3, <1>4, <1>5, <1>6

\* Path is the ancestor relation: reflexive, transitive, and above a node come the
\* ancestors of its parent.
LEMMA PathFacts ==
  ASSUME prog \in Programs
  PROVE  \A n \in Node :
           /\ Path(n) \subseteq Node /\ n \in Path(n)
           /\ \A b \in Path(n) : Path(b) \subseteq Path(n)
           /\ n # 1 => Parent(n) \in Node /\ Path(Parent(n)) \subseteq Path(n)
<1>1. /\ Len(prog) \in Nat /\ Node = 1 .. Len(prog)
      /\ \A n \in Node : prog[n].last \in n .. Len(prog)
  BY ProgramFacts
<1>2. /\ \A n \in Node \ {1} : /\ Parent(n) \in 1 .. (n - 1)
                               /\ prog[n].last <= prog[Parent(n)].last
      /\ \A a, n \in Node : a <= n /\ n <= prog[a].last => prog[n].last <= prog[a].last
  BY ProgramsAssumption DEF WellFormed, Node, Parent
<1>3. ASSUME NEW n \in Node
      PROVE  Path(n) \subseteq Node /\ n \in Path(n)
  BY <1>1 DEF Path
<1>4. ASSUME NEW n \in Node, NEW b \in Path(n)
      PROVE  Path(b) \subseteq Path(n)
  <2>1. b \in Node /\ b <= n /\ n <= prog[b].last
    BY <1>1, <1>3, <1>4 DEF Path
  <2>2. ASSUME NEW a \in Path(b)
        PROVE  a \in Path(n)
    <3>1. a \in Node /\ a <= b /\ b <= prog[a].last
      BY <1>3, <2>1 DEF Path
    <3>2. prog[b].last <= prog[a].last
      BY <1>2, <2>1, <3>1
    <3> QED BY <1>1, <2>1, <3>1, <3>2 DEF Path
  <2> QED BY <2>2
<1>5. ASSUME NEW n \in Node, n # 1
      PROVE  Parent(n) \in Node /\ Path(Parent(n)) \subseteq Path(n)
  <2>1. Parent(n) \in Node /\ Parent(n) \in Path(n)
    BY <1>1, <1>2, <1>5 DEF Path
  <2> QED BY <1>4, <2>1
<1> QED BY <1>3, <1>4, <1>5

-----------------------------------------------------------------------------
(* Types                                                                   *)

LEMMA TypeFacts ==
  /\ Null \notin Type /\ Type \subseteq MaybeType
  /\ \A t \in Type : ListOf(t) \in Type
  /\ \A t \in MaybeType : Subtype(t) \in MaybeType /\ CopyOf(t) \in Type \cup Failures
  /\ \A s, t : Mismatch(s, t) \in Failures
  /\ \A id \in {"INT", "BOOL"} : Scalar(id) \in Type
BY DEF Type, MaybeType, Null, ListOf, Subtype, CopyOf, Mismatch, Failures, Rejected, Crashed,
       Scalar, TypeIds, ScalarIds

-----------------------------------------------------------------------------
(* Scopes and lookups                                                      *)

LEMMA ScopeAroundExists ==
  ASSUME prog \in Programs, TypeOK, scopeOf[1] = 1, NEW n \in Node, n # 1
  PROVE  ScopeAround(n) \in Node
<1> DEFINE S == {a \in Path(Parent(n)) : scopeOf[a] # 0}
<1>1. /\ Len(prog) \in Nat /\ Node = 1 .. Len(prog) /\ 1 \in Node /\ Parent(n) \in Node
  BY ProgramFacts
<1>2. prog[1].last = Len(prog)
  BY ProgramsAssumption DEF WellFormed
<1>3. S \subseteq Node /\ S \in SUBSET (0 .. Len(prog))
  BY <1>1 DEF Path
<1>4. 1 \in S
  BY <1>1, <1>2 DEF Path
<1>5. Below(S) \in S
  <2> HIDE DEF S
  <2> QED BY <1>1, <1>3, <1>4, BelowPicks
<1>6. scopeOf[Below(S)] # 0 /\ Below(S) \in Node
  BY <1>3, <1>5
<1>7. scopeOf[Below(S)] \in Node
  <2> HIDE DEF S
  <2> QED BY <1>6 DEF TypeOK, MaybeNode
<1> QED BY <1>7 DEF ScopeAround

LEMMA LookupFinds ==
  ASSUME prog \in Programs, TypeOK, NEW x, NEW s \in Node, NEW kinds
  PROVE  \/ Lookup(x, s, kinds) = 0
         \/ /\ Lookup(x, s, kinds) \in Node
            /\ Name(Lookup(x, s, kinds)) = x /\ Kind(Lookup(x, s, kinds)) \in kinds
<1> DEFINE H == {c \in chain[s] : Named(c, x, kinds) # {}}
<1>1. CASE H = {}
  BY <1>1 DEF Lookup
<1>2. CASE H # {}
  <2>1. Len(prog) \in Nat /\ Node = 1 .. Len(prog)
    BY ProgramFacts
  <2>2. H \subseteq Node /\ H \in SUBSET (0 .. Len(prog))
    <3>1. chain[s] \in SUBSET Node
      BY DEF TypeOK
    <3>2. H \subseteq chain[s]
      OBVIOUS
    <3> HIDE DEF H
    <3> QED BY <2>1, <3>1, <3>2
  <2>3. Below(H) \in H
    <3> HIDE DEF H
    <3> QED BY <1>2, <2>1, <2>2, BelowPicks
  <2>4. Named(Below(H), x, kinds) # {} /\ Below(H) \in Node
    BY <2>2, <2>3
  <2> DEFINE d == CHOOSE d \in Named(Below(H), x, kinds) : TRUE
  <2>5. d \in Named(Below(H), x, kinds)
    BY <2>4
  <2>6. d \in Node /\ Name(d) = x /\ Kind(d) \in kinds
    <3> HIDE DEF H, d
    <3> QED BY <2>4, <2>5 DEF Named, TypeOK
  <2>7. Lookup(x, s, kinds) = d
    BY <1>2 DEF Lookup
  <2> QED BY <2>6, <2>7
<1> QED BY <1>1, <1>2

LEMMA EnclosingIfIsIf ==
  ASSUME prog \in Programs, NEW n \in Node, EnclosingIf(n) # 0
  PROVE  /\ EnclosingIf(n) \in Node /\ Kind(EnclosingIf(n)) = "if_expr"
         /\ EnclosingIf(n) \in Path(n)
<1> DEFINE body == Below({a \in Path(n) : Kind(a) = "function_body"} \cup {0})
           ifs == {a \in Path(n) : Kind(a) = "if_expr" /\ a > body}
<1>1. Node = 1 .. Len(prog) /\ Len(prog) \in Nat
  BY ProgramFacts
<1>2. ifs # {} /\ EnclosingIf(n) = Above(ifs)
  BY DEF EnclosingIf
<1>3. /\ ifs \in SUBSET Nat /\ ifs \subseteq Node
      /\ \A a \in ifs : Kind(a) = "if_expr" /\ a \in Path(n)
  BY <1>1 DEF Path
<1>4. Above(ifs) \in ifs
  <2> HIDE DEF ifs
  <2> QED BY <1>2, <1>3, AbovePicks
<1> QED
  <2> HIDE DEF ifs
  <2> QED BY <1>2, <1>3, <1>4

LEMMA OtherBranchExists ==
  ASSUME prog \in Programs, NEW n \in Node, EnclosingIf(n) # 0
  PROVE  OtherBranch(n) \in Node
<1>1. EnclosingIf(n) \in Node /\ Kind(EnclosingIf(n)) = "if_expr"
  BY EnclosingIfIsIf
<1>2. Len(Children(EnclosingIf(n))) = 3
  BY <1>1, ShapeFacts
<1>3. \A i \in 1 .. Len(Children(EnclosingIf(n))) : Child(EnclosingIf(n), i) \in Node
  BY <1>1, ProgramFacts
<1>4. Child(EnclosingIf(n), 2) \in Node /\ Child(EnclosingIf(n), 3) \in Node
  BY <1>2, <1>3
<1> QED BY <1>4 DEF OtherBranch

-----------------------------------------------------------------------------
(* What the handlers compute is a type or a failure                        *)

TypeResults == MaybeType \cup Failures

LEMMA ChildTypes ==
  ASSUME prog \in Programs, TypeOK, NEW n \in Node, NEW i \in 1 .. Len(Children(n))
  PROVE  Child(n, i) \in Node /\ type[Child(n, i)] \in MaybeType
<1>1. Child(n, i) \in Node
  BY ProgramFacts
<1> QED BY <1>1 DEF TypeOK

LEMMA OperatorResults ==
  ASSUME prog \in Programs, TypeOK, NEW n \in Node
  PROVE  /\ Kind(n) = "binary_op" => BinaryOpType(n) \in TypeResults
         /\ Kind(n) = "unary_op" => UnaryOpType(n) \in TypeResults
         /\ Kind(n) = "list_op" => ListOpType(n) \in TypeResults
         /\ Kind(n) = "list" => ListType(n) \in TypeResults
<1>1. ASSUME Kind(n) = "binary_op"
      PROVE  BinaryOpType(n) \in TypeResults
  <2>1. type[Child(n, 1)] \in MaybeType /\ type[Child(n, 2)] \in MaybeType
    <3>1. Len(Children(n)) = 2
      BY <1>1, ShapeFacts
    <3>2. 1 \in 1 .. Len(Children(n)) /\ 2 \in 1 .. Len(Children(n))
      BY <3>1
    <3> QED BY <3>2, ChildTypes
  <2>2. CompareType(type[Child(n, 1)], type[Child(n, 2)]) \in TypeResults
    BY TypeFacts DEF CompareType, TypeResults, Failures
  <2>3. ConsType(Child(n, 1), Child(n, 2)) \in TypeResults
    BY <2>1, TypeFacts DEF ConsType, TypeResults, Failures
  <2> QED BY <2>2, <2>3 DEF BinaryOpType
<1>2. ASSUME Kind(n) = "unary_op"
      PROVE  UnaryOpType(n) \in TypeResults
  <2>1. type[Child(n, 1)] \in MaybeType
    <3>1. Len(Children(n)) = 1
      BY <1>2, ShapeFacts
    <3> QED BY <3>1, ChildTypes
  <2> QED BY <2>1, TypeFacts DEF UnaryOpType, TypeResults, Failures
<1>3. ASSUME Kind(n) = "list_op"
      PROVE  ListOpType(n) \in TypeResults
  <2>1. type[Child(n, 1)] \in MaybeType
    <3>1. Len(Children(n)) = 1
      BY <1>3, ShapeFacts
    <3> QED BY <3>1, ChildTypes
  <2>2. Subtype(type[Child(n, 1)]) \in MaybeType
    BY <2>1, TypeFacts
  <2> QED BY <2>2, TypeFacts DEF ListOpType, TypeResults, Failures
<1>4. ASSUME Kind(n) = "list"
      PROVE  ListType(n) \in TypeResults
  <2>1. type[Child(n, 1)] \in MaybeType /\ type[n] \in MaybeType
    <3>1. Len(Children(n)) > 0 /\ Len(Children(n)) \in Nat
      BY <1>4, ShapeFacts, ProgramFacts
    <3>2. type[Child(n, 1)] \in MaybeType
      BY <3>1, ChildTypes
    <3> QED BY <3>2 DEF TypeOK
  <2> DEFINE e == IF Subtype(type[n]) # Null THEN Subtype(type[n]) ELSE type[Child(n, 1)]
  <2>2. Subtype(type[n]) \in MaybeType
    BY <2>1, TypeFacts
  <2>3. type[Child(n, 1)] # Null => e \in Type
    BY <2>1, <2>2 DEF MaybeType
  <2>4. type[Child(n, 1)] # Null => ListOf(e) \in TypeResults
    <3> HIDE DEF e
    <3> QED BY <2>3, TypeFacts DEF TypeResults
  <2> QED BY <2>4, TypeFacts DEF ListType, TypeResults, Failures
<1> QED BY <1>1, <1>2, <1>3, <1>4

LEMMA ConstructResults ==
  ASSUME prog \in Programs, TypeOK, NEW n \in Node
  PROVE  /\ Kind(n) = "if_expr" => IfType(n) \in TypeResults
         /\ Kind(n) \in Callables => CallableType(n) \in TypeResults
         /\ Kind(n) \in {"do_loop", "collect_loop"} => LoopType(n) \in TypeResults
         /\ Kind(n) = "variable_definition" => CopyOf(type[Child(n, 1)]) \in TypeResults
         /\ Kind(n) = "iterator_definition" => IteratorType(n) \in TypeResults
<1>1. ASSUME Kind(n) = "if_expr"
      PROVE  IfType(n) \in TypeResults
  <2>1. 2 \in 1 .. Len(Children(n))
    BY <1>1, ShapeFacts
  <2>2. type[Child(n, 2)] \in MaybeType
    BY <2>1, ChildTypes
  <2> QED BY <2>2, TypeFacts DEF IfType, TypeResults, Failures
<1>2. ASSUME NEW b \in Node, Kind(b) = "function_body"
      PROVE  type[ReturnExpression(b)] \in MaybeType
  <2>1. Len(Children(b)) \in Nat /\ Len(Children(b)) > 0
    BY <1>2, ShapeFacts, ProgramFacts
  <2> QED BY <2>1, ChildTypes DEF ReturnExpression, LastChild
<1>3. ASSUME Kind(n) \in Callables
      PROVE  CallableType(n) \in TypeResults
  <2>1. Len(Children(n)) \in Nat /\ Len(Children(n)) > 0 /\ Kind(LastChild(n)) = "function_body"
    BY <1>3, ShapeFacts, ProgramFacts
  <2>2. LastChild(n) \in Node
    BY <2>1, ChildTypes DEF LastChild
  <2>3. type[ReturnExpression(LastChild(n))] \in MaybeType
    BY <1>2, <2>1, <2>2
  <2> QED BY <2>3, TypeFacts DEF CallableType, TypeResults
<1>4. ASSUME Kind(n) \in {"do_loop", "collect_loop"}
      PROVE  LoopType(n) \in TypeResults
  <2>1. 1 \in 1 .. Len(Children(n)) /\ 2 \in 1 .. Len(Children(n))
    BY <1>4, ShapeFacts
  <2>2. Child(n, 1) \in Node /\ Child(n, 2) \in Node
    BY <2>1, ChildTypes
  <2>3. CASE Kind(n) = "do_loop"
    <3>1. type[ReturnExpression(Child(n, 2))] \in MaybeType
      BY <1>2, <2>2, <2>3, ShapeFacts
    <3> QED BY <2>3, <3>1, TypeFacts DEF LoopType, TypeResults
  <2>4. CASE Kind(n) = "collect_loop"
    <3>1. type[ReturnExpression(Child(n, 1))] \in MaybeType
      BY <1>2, <2>2, <2>4, ShapeFacts
    <3> QED BY <2>4, <3>1, TypeFacts DEF LoopType, TypeResults, Failures, MaybeType
  <2> QED BY <1>4, <2>3, <2>4
<1>5. ASSUME Kind(n) \in {"variable_definition", "iterator_definition"}
      PROVE  type[Child(n, 1)] \in MaybeType
  <2>1. Len(Children(n)) = 1 \/ Len(Children(n)) > 0
    BY <1>5, ShapeFacts
  <2>2. Len(Children(n)) \in Nat
    BY ProgramFacts
  <2>3. 1 \in 1 .. Len(Children(n))
    BY <2>1, <2>2
  <2> QED BY <2>3, ChildTypes
<1>6. Kind(n) = "variable_definition" => CopyOf(type[Child(n, 1)]) \in TypeResults
  BY <1>5, TypeFacts DEF TypeResults
<1>7. Kind(n) = "iterator_definition" => IteratorType(n) \in TypeResults
  BY <1>5, TypeFacts DEF IteratorType, TypeResults, Failures
<1> QED BY <1>1, <1>3, <1>4, <1>6, <1>7

LEMMA CallResults ==
  ASSUME prog \in Programs, TypeOK, NEW n \in Node, resolved[n] # 0
  PROVE  /\ CallType(n) \in TypeResults
         /\ EnclosingIf(n) # 0 => CopyOf(type[OtherBranch(n)]) \in TypeResults
<1>1. CopyOf(type[resolved[n]]) \in TypeResults
  <2>1. type[resolved[n]] \in MaybeType
    BY DEF TypeOK, MaybeNode
  <2> QED BY <2>1, TypeFacts DEF TypeResults
<1>2. ASSUME EnclosingIf(n) # 0
      PROVE  CopyOf(type[OtherBranch(n)]) \in TypeResults
  <2>1. type[OtherBranch(n)] \in MaybeType
    BY <1>2, OtherBranchExists DEF TypeOK
  <2> QED BY <2>1, TypeFacts DEF TypeResults
<1> QED BY <1>1, <1>2 DEF CallType, Unresolvable, TypeResults, Failures

-----------------------------------------------------------------------------
(* The inductive invariant, and the pieces steps are made of               *)

\* What TypeOK and ScopeUnique need to be inductive: the global scope is there, a
\* handler's index stays within its children, only calls pass arguments and only after
\* their name was resolved, a branch is visited out of turn only under an if, and scopes
\* hold nothing but definitions.
Bookkeeping ==
  /\ scopeOf[1] = 1
  /\ \A n \in Node :
       /\ at[n] <= Len(Children(n))
       /\ pc[n] \in {"arguments", "branch"} => Kind(n) = "function_call" /\ resolved[n] # 0
       /\ pc[n] = "branch" => EnclosingIf(n) # 0
       /\ \A d \in defs[n] : Kind(d) \in DefinitionKinds

Inductive == prog \in Programs /\ TypeOK /\ Bookkeeping /\ ScopeUnique

LEMMA SameProgram ==
  ASSUME prog' = prog
  PROVE  /\ Node' = Node /\ MaybeNode' = MaybeNode
         /\ \A n \in Node : /\ Kind(n)' = Kind(n) /\ Name(n)' = Name(n)
                            /\ Len(Children(n))' = Len(Children(n))
                            /\ EnclosingIf(n)' = EnclosingIf(n)
BY DEF Node, MaybeNode, Kind, Name, Children, EnclosingIf, Path, Below, Above

\* The bookkeeping after a step, in terms of the tables it leaves.
LEMMA BookkeepingAfter ==
  ASSUME prog \in Programs, prog' = prog, scopeOf'[1] = 1,
         \A n \in Node :
           /\ at'[n] <= Len(Children(n))
           /\ pc'[n] \in {"arguments", "branch"} => Kind(n) = "function_call" /\ resolved'[n] # 0
           /\ pc'[n] = "branch" => EnclosingIf(n) # 0
           /\ \A d \in defs'[n] : Kind(d) \in DefinitionKinds
  PROVE  Bookkeeping'
<1>1. \A n : /\ Kind(n)' = Kind(n) /\ Children(n)' = Children(n)
             /\ EnclosingIf(n)' = EnclosingIf(n)
  BY DEF Kind, Children, EnclosingIf, Path, Below, Above
<1>2. Node' = Node
  BY DEF Node
<1> QED BY <1>1, <1>2 DEF Bookkeeping

\* A step that declares nothing.
LEMMA NothingDeclared ==
  ASSUME Inductive, prog' = prog, defs' = defs
  PROVE  /\ ScopeUnique'
         /\ \A n \in Node : \A d \in defs'[n] : Kind(d) \in DefinitionKinds
<1>1. \A n : Name(n)' = Name(n)
  BY DEF Name
<1>2. Node' = Node
  BY DEF Node
<1> QED BY <1>1, <1>2 DEF Inductive, ScopeUnique, Bookkeeping

\* A handler that fails.
LEMMA StopStep ==
  ASSUME Inductive, NEW V \in SUBSET Verdicts, Stop(V)
  PROVE  Inductive'
<1>1. UNCHANGED <<prog, cur, pc, at, caller, mark, scopeOf, chain, defs, type, resolved>>
  BY DEF Stop, tables
<1>2. status' \in Verdicts
  BY DEF Stop
<1>3. TypeOK'
  BY <1>1, <1>2, SameProgram DEF Inductive, TypeOK
<1>4. Bookkeeping'
  BY <1>1, BookkeepingAfter, NothingDeclared DEF Inductive, Bookkeeping
<1>5. ScopeUnique'
  BY <1>1, NothingDeclared
<1> QED BY <1>1, <1>3, <1>4, <1>5 DEF Inductive

\* A handler that returns true.
LEMMA ReturnStep ==
  ASSUME Inductive, cur \in Node, status = "running", prog' = prog,
         NEW t \in MaybeType, Return(t)
  PROVE  /\ cur' \in MaybeNode /\ pc' \in [Node -> Progress] /\ at' \in [Node -> Nat]
         /\ caller' \in [Node -> MaybeNode] /\ mark' \in [Node -> Marks]
         /\ type' \in [Node -> MaybeType] /\ status' \in Verdicts \cup {"running"}
         /\ \A n \in Node : /\ at'[n] = at[n]
                            /\ pc'[n] \in {"arguments", "branch"} => pc[n] = pc'[n]
BY DEF Inductive, TypeOK, Return, Progress, Marks, Verdicts

\* A handler that calls accept on another node.
LEMMA AcceptStep ==
  ASSUME Inductive, cur \in Node, NEW c \in Node, NEW q \in Progress, Accept(c, q)
  PROVE  /\ cur' \in Node /\ pc' \in [Node -> Progress] /\ caller' \in [Node -> MaybeNode]
         /\ \A n \in Node : pc'[n] \in {"arguments", "branch"} => pc[n] = pc'[n] \/ (n = cur /\ pc'[n] = q)
BY DEF Inductive, TypeOK, Accept, Progress, MaybeNode

\* A handler that does not return yet.
LEMMA GoOnStep ==
  ASSUME Inductive, cur \in Node, NEW q \in Progress, GoOn(q)
  PROVE  /\ cur' \in MaybeNode /\ pc' \in [Node -> Progress] /\ caller' \in [Node -> MaybeNode]
         /\ \A n \in Node : pc'[n] \in {"arguments", "branch"} => pc[n] = pc'[n] \/ (n = cur /\ pc'[n] = q)
BY DEF Inductive, TypeOK, GoOn, Progress, MaybeNode

\* A definition added to a scope that has none of its name.
LEMMA DeclareStep ==
  ASSUME Inductive, cur \in Node, prog' = prog, Kind(cur) \in DefinitionKinds,
         HomeScope(cur) \in MaybeNode, Declarable(cur), Declare(cur, HomeScope(cur))
  PROVE  /\ defs' \in [Node -> SUBSET Node] /\ ScopeUnique'
         /\ \A n \in Node : \A d \in defs'[n] : Kind(d) \in DefinitionKinds
<1> DEFINE s == HomeScope(cur)
<1>1. s \in Node /\ Conflicts(cur, s) = {}
  BY DEF Declarable, MaybeNode
<1>2. defs \in [Node -> SUBSET Node] /\ defs' = [defs EXCEPT ![s] = @ \cup {cur}]
  BY DEF Inductive, TypeOK, Declare
<1> HIDE DEF s
<1>3. \A d \in defs[s] : Name(d) # Name(cur)
  BY <1>1 DEF Conflicts, Named, Inductive, Bookkeeping
<1>4. \A n \in Node : defs'[n] = defs[n] \/ (n = s /\ defs'[n] = defs[n] \cup {cur})
  BY <1>1, <1>2
<1>5. defs' \in [Node -> SUBSET Node]
  BY <1>1, <1>2
<1>6. \A n \in Node : \A d, e \in defs'[n] : Name(d) = Name(e) => d = e
  BY <1>3, <1>4 DEF Inductive, ScopeUnique
<1>7. ScopeUnique'
  <2>1. \A n \in Node : \A d \in defs'[n] : Name(d)' = Name(d)
    BY <1>5, SameProgram
  <2> QED BY <1>6, <2>1, SameProgram DEF ScopeUnique
<1>8. \A n \in Node : \A d \in defs'[n] : Kind(d) \in DefinitionKinds
  BY <1>4 DEF Inductive, Bookkeeping
<1> QED BY <1>5, <1>7, <1>8

\* A scope opened by a node other than the root.
LEMMA OpenScopeStep ==
  ASSUME Inductive, cur \in Node, cur # 1, NEW o \in MaybeNode, OpenScope(cur, o)
  PROVE  /\ scopeOf' \in [Node -> MaybeNode] /\ chain' \in [Node -> SUBSET Node]
         /\ scopeOf'[1] = 1
<1>1. 1 \in Node
  BY ProgramFacts DEF Inductive
<1>2. (IF o = 0 THEN {} ELSE chain[o]) \in SUBSET Node
  BY DEF Inductive, TypeOK, MaybeNode
<1> QED BY <1>1, <1>2 DEF Inductive, TypeOK, Bookkeeping, OpenScope, MaybeNode

-----------------------------------------------------------------------------
(* The steps, one lemma for the actions of one form                        *)

\* A handler computes its type, or fails to.
LEMMA ConcludeStep ==
  ASSUME Inductive, cur \in Node, status = "running", NEW r \in TypeResults, Conclude(r)
  PROVE  Inductive'
<1>1. CASE r \in Failures /\ Stop(Verdict(r))
  <2>1. Verdict(r) \in SUBSET Verdicts
    BY DEF Verdict, Verdicts
  <2> QED BY <1>1, <2>1, StopStep
<1>2. CASE r \notin Failures /\ Return(r) /\ UNCHANGED <<prog, tables, resolved>>
  <2>1. r \in MaybeType /\ UNCHANGED <<prog, scopeOf, chain, defs, resolved>>
    BY <1>2 DEF TypeResults, tables
  <2>2. TypeOK'
    BY <1>2, <2>1, ReturnStep, SameProgram DEF Inductive, TypeOK
  <2>3. Bookkeeping'
    BY <1>2, <2>1, ReturnStep, NothingDeclared, BookkeepingAfter DEF Inductive, Bookkeeping
  <2> QED BY <2>1, <2>2, <2>3, NothingDeclared DEF Inductive
<1> QED BY <1>1, <1>2 DEF Conclude

\* A handler goes on to its children, having touched no table but the scopes'.
LEMMA BeginStep ==
  ASSUME Inductive, cur \in Node, BeginChildren, scopeOf'[1] = 1,
         scopeOf' \in [Node -> MaybeNode], chain' \in [Node -> SUBSET Node],
         defs' \in [Node -> SUBSET Node], ScopeUnique',
         \A n \in Node : \A d \in defs'[n] : Kind(d) \in DefinitionKinds
  PROVE  Inductive'
<1>1. GoOn("children") /\ UNCHANGED <<prog, at, mark, type, resolved, status>>
  BY DEF BeginChildren
<1>2. "children" \in Progress
  BY DEF Progress
<1>3. /\ cur' \in MaybeNode /\ pc' \in [Node -> Progress] /\ caller' \in [Node -> MaybeNode]
      /\ \A n \in Node : pc'[n] \in {"arguments", "branch"} => pc[n] = pc'[n]
  BY <1>1, <1>2, GoOnStep
<1>4. TypeOK'
  BY <1>1, <1>3, SameProgram DEF Inductive, TypeOK
<1>5. Bookkeeping'
  BY <1>1, <1>3, BookkeepingAfter DEF Inductive, Bookkeeping
<1> QED BY <1>1, <1>4, <1>5 DEF Inductive

\* A handler calls accept on a child, an argument or a branch.
LEMMA WalkStep ==
  ASSUME Inductive, cur \in Node, NEW c \in Node, NEW q \in Progress, Accept(c, q),
         at' \in [Node -> Nat], mark' \in [Node -> Marks],
         \A n \in Node : at'[n] <= Len(Children(n)),
         q \in {"arguments", "branch"} => pc[cur] = "arguments",
         q = "branch" => EnclosingIf(cur) # 0,
         UNCHANGED <<prog, tables, type, resolved, status>>
  PROVE  Inductive'
<1>1. UNCHANGED <<prog, scopeOf, chain, defs, type, resolved, status>>
  BY DEF tables
<1>2. TypeOK'
  <2>1. cur' \in MaybeNode /\ pc' \in [Node -> Progress] /\ caller' \in [Node -> MaybeNode]
    BY AcceptStep DEF MaybeNode
  <2> QED BY <1>1, <2>1, SameProgram DEF Inductive, TypeOK
<1>3. Bookkeeping'
  <2>1. \A n \in Node : pc'[n] \in {"arguments", "branch"} =>
                           pc[n] = pc'[n] \/ (n = cur /\ pc'[n] = q)
    BY AcceptStep
  <2>2. \A n \in Node :
          /\ pc'[n] \in {"arguments", "branch"} => pc[n] \in {"arguments", "branch"}
          /\ pc'[n] = "branch" => EnclosingIf(n) # 0
    BY <2>1 DEF Inductive, Bookkeeping
  <2> QED BY <1>1, <2>2, BookkeepingAfter DEF Inductive, Bookkeeping
<1> QED BY <1>1, <1>2, <1>3, NothingDeclared DEF Inductive

\* A definition's scope is a node's, and the root is not a definition.
LEMMA HomeScopeExists ==
  ASSUME Inductive, NEW n \in Node, n # 1
  PROVE  HomeScope(n) \in MaybeNode
<1>1. Parent(n) \in Node
  BY ProgramFacts DEF Inductive
<1>2. scopeOf[Parent(n)] \in MaybeNode
  BY <1>1 DEF Inductive, TypeOK
<1>3. ScopeAround(n) \in MaybeNode
  BY ScopeAroundExists DEF Inductive, Bookkeeping, MaybeNode
<1> QED BY <1>2, <1>3 DEF HomeScope

LEMMA NotTheRoot ==
  ASSUME prog \in Programs, NEW n \in Node, Kind(n) # "root"
  PROVE  n # 1 /\ Parent(n) \in Node
BY ProgramFacts

\* A handler that declares its node and returns.
LEMMA DeclareAndReturnStep ==
  ASSUME Inductive, cur \in Node, status = "running", Kind(cur) \in DefinitionKinds,
         Declarable(cur), Declare(cur, HomeScope(cur)), NEW t \in MaybeType, Return(t),
         UNCHANGED <<prog, chain, resolved>>, scopeOf' \in [Node -> MaybeNode], scopeOf'[1] = 1
  PROVE  Inductive'
<1>1. HomeScope(cur) \in MaybeNode
  BY NotTheRoot, HomeScopeExists DEF Inductive, DefinitionKinds, VariableKinds, FunctionKinds
<1>2. TypeOK'
  BY <1>1, DeclareStep, ReturnStep, SameProgram DEF Inductive, TypeOK
<1>3. Bookkeeping'
  BY <1>1, DeclareStep, ReturnStep, BookkeepingAfter DEF Inductive, Bookkeeping
<1> QED BY <1>1, <1>2, <1>3, DeclareStep DEF Inductive

LEMMA BeginningSteps ==
  ASSUME Inductive,
         \/ VisitUnscoped \/ VisitFunctionBody \/ VisitScopedExpression \/ VisitLambda
         \/ VisitFunctionDefinition \/ VisitVariableDefinition
  PROVE  Inductive'
<1>1. /\ scopeOf \in [Node -> MaybeNode] /\ chain \in [Node -> SUBSET Node]
      /\ defs \in [Node -> SUBSET Node] /\ scopeOf[1] = 1 /\ prog \in Programs
  BY DEF Inductive, TypeOK, Bookkeeping
<1>2. CASE VisitUnscoped
  <2>1. cur \in Node /\ BeginChildren /\ UNCHANGED <<prog, scopeOf, chain, defs>>
    BY <1>2 DEF VisitUnscoped, Entering, Running, BeginChildren, tables
  <2> QED BY <1>1, <2>1, NothingDeclared, BeginStep
<1>3. CASE VisitFunctionBody
  <2>1. /\ cur \in Node /\ Kind(cur) = "function_body" /\ BeginChildren
        /\ scopeOf' = [scopeOf EXCEPT ![cur] = scopeOf[Parent(cur)]]
        /\ UNCHANGED <<prog, chain, defs>>
    BY <1>3 DEF VisitFunctionBody, Entering, Running, BeginChildren
  <2>2. cur # 1 /\ Parent(cur) \in Node
    BY <1>1, <2>1, NotTheRoot
  <2>3. scopeOf' \in [Node -> MaybeNode] /\ scopeOf'[1] = 1
    BY <1>1, <2>1, <2>2
  <2> QED BY <1>1, <2>1, <2>3, NothingDeclared, BeginStep
<1>4. CASE VisitScopedExpression
  <2>1. /\ cur \in Node /\ Kind(cur) # "root" /\ BeginChildren
        /\ OpenScope(cur, scopeOf[Parent(cur)]) /\ UNCHANGED <<prog, defs>>
    BY <1>4 DEF VisitScopedExpression, ScopedExpressions, Entering, Running, BeginChildren
  <2>2. cur # 1 /\ scopeOf[Parent(cur)] \in MaybeNode
    BY <1>1, <2>1, NotTheRoot
  <2> QED BY <1>1, <2>1, <2>2, OpenScopeStep, NothingDeclared, BeginStep
<1>5. CASE VisitLambda
  <2>1. /\ cur \in Node /\ Kind(cur) # "root" /\ BeginChildren
        /\ OpenScope(cur, ScopeAround(cur)) /\ UNCHANGED <<prog, defs>>
    BY <1>5 DEF VisitLambda, Entering, Running, BeginChildren
  <2>2. cur # 1 /\ ScopeAround(cur) \in MaybeNode
    BY <1>1, <2>1, NotTheRoot, ScopeAroundExists DEF Inductive, MaybeNode
  <2> QED BY <1>1, <2>1, <2>2, OpenScopeStep, NothingDeclared, BeginStep
<1>6. CASE VisitFunctionDefinition
  <2>1. /\ cur \in Node /\ Kind(cur) = "function_definition" /\ BeginChildren
        /\ OpenScope(cur, HomeScope(cur)) /\ Declarable(cur) /\ Declare(cur, HomeScope(cur))
        /\ prog' = prog
    BY <1>6 DEF VisitFunctionDefinition, Entering, Running, BeginChildren
  <2>2. cur # 1 /\ HomeScope(cur) \in MaybeNode
    BY <1>1, <2>1, NotTheRoot, HomeScopeExists
  <2>3. Kind(cur) \in DefinitionKinds
    BY <2>1 DEF DefinitionKinds, FunctionKinds
  <2> QED BY <2>1, <2>2, <2>3, OpenScopeStep, DeclareStep, BeginStep
<1>7. CASE VisitVariableDefinition
  <2>1. /\ cur \in Node /\ Kind(cur) = "variable_definition" /\ BeginChildren
        /\ Declarable(cur) /\ Declare(cur, HomeScope(cur))
        /\ scopeOf' = [scopeOf EXCEPT ![cur] = HomeScope(cur)]
        /\ UNCHANGED <<prog, chain>>
    BY <1>7 DEF VisitVariableDefinition, Entering, Running, BeginChildren
  <2>2. cur # 1 /\ HomeScope(cur) \in MaybeNode
    BY <1>1, <2>1, NotTheRoot, HomeScopeExists
  <2>3. Kind(cur) \in DefinitionKinds
    BY <2>1 DEF DefinitionKinds, VariableKinds
  <2>4. scopeOf' \in [Node -> MaybeNode] /\ scopeOf'[1] = 1
    BY <1>1, <2>1, <2>2
  <2> QED BY <1>1, <2>1, <2>2, <2>3, <2>4, DeclareStep, BeginStep
<1> QED BY <1>2, <1>3, <1>4, <1>5, <1>6, <1>7

LEMMA DeclaringSteps ==
  ASSUME Inductive, RejectDefinition \/ VisitFormalOrExtern \/ LeaveIterator
  PROVE  Inductive'
<1>1. /\ scopeOf \in [Node -> MaybeNode] /\ type \in [Node -> MaybeType]
      /\ scopeOf[1] = 1 /\ prog \in Programs /\ TypeOK
  BY DEF Inductive, TypeOK, Bookkeeping
<1>2. CASE RejectDefinition
  <2>1. \A n, d : ConflictVerdicts(n, d) \in SUBSET Verdicts
    BY DEF ConflictVerdicts, Verdicts
  <2>2. Stop({"crashed"}) \/ \E d : Stop(ConflictVerdicts(cur, d))
    BY <1>2 DEF RejectDefinition
  <2>3. {"crashed"} \in SUBSET Verdicts
    BY DEF Verdicts
  <2> QED BY <2>1, <2>2, <2>3, StopStep
<1>3. CASE VisitFormalOrExtern
  <2>1. /\ cur \in Node /\ status = "running" /\ Kind(cur) \in {"formal", "extern_function"}
        /\ Declarable(cur) /\ Declare(cur, HomeScope(cur)) /\ Return(type[cur])
        /\ UNCHANGED <<prog, scopeOf, chain, resolved>>
    BY <1>3 DEF VisitFormalOrExtern, Entering, Running
  <2>2. type[cur] \in MaybeType /\ Kind(cur) \in DefinitionKinds
    BY <1>1, <2>1 DEF DefinitionKinds, VariableKinds, FunctionKinds
  <2>3. scopeOf' \in [Node -> MaybeNode] /\ scopeOf'[1] = 1
    BY <1>1, <2>1
  <2> QED BY <2>1, <2>2, <2>3, DeclareAndReturnStep
<1>4. CASE LeaveIterator
  <2> DEFINE t == IteratorType(cur)
  <2>1. cur \in Node /\ status = "running" /\ Kind(cur) = "iterator_definition"
    BY <1>4 DEF LeaveIterator, Leaving, Running
  <2>2. t \in TypeResults
    BY <1>1, <2>1, ConstructResults
  <2>3. CASE t \in Failures /\ Stop(Verdict(t))
    <3>1. Verdict(t) \in SUBSET Verdicts
      BY DEF Verdict, Verdicts
    <3> QED BY <2>3, <3>1, StopStep
  <2>4. CASE /\ t \notin Failures
             /\ Declarable(cur) /\ Declare(cur, HomeScope(cur))
             /\ scopeOf' = [scopeOf EXCEPT ![cur] = HomeScope(cur)]
             /\ Return(t) /\ UNCHANGED <<prog, chain, resolved>>
    <3>1. t \in MaybeType /\ Kind(cur) \in DefinitionKinds
      BY <2>1, <2>2, <2>4 DEF TypeResults, DefinitionKinds, VariableKinds
    <3>2. cur # 1 /\ HomeScope(cur) \in MaybeNode
      BY <1>1, <2>1, NotTheRoot, HomeScopeExists
    <3>3. scopeOf' \in [Node -> MaybeNode] /\ scopeOf'[1] = 1
      <4>1. scopeOf' = [scopeOf EXCEPT ![cur] = HomeScope(cur)]
        BY <2>4
      <4> QED BY <1>1, <2>1, <3>2, <4>1
    <3> HIDE DEF t
    <3> QED BY <2>1, <2>4, <3>1, <3>3, DeclareAndReturnStep
  <2> QED BY <1>4, <2>3, <2>4 DEF LeaveIterator
<1> QED BY <1>2, <1>3, <1>4

LEMMA LeavingSteps ==
  ASSUME Inductive,
         \/ LeaveOperator \/ LeaveIf \/ LeaveCallable \/ LeaveLoop
         \/ LeaveVariableDefinition \/ LeaveUntyped
  PROVE  Inductive'
<1>1. cur \in Node /\ status = "running" /\ prog \in Programs /\ TypeOK
  BY DEF Inductive, LeaveOperator, LeaveIf, LeaveCallable, LeaveLoop, LeaveVariableDefinition,
         LeaveUntyped, Leaving, Running
<1>2. \E r \in TypeResults : Conclude(r)
  <2>1. LeaveOperator => \E r \in TypeResults : Conclude(r)
    BY <1>1, OperatorResults DEF LeaveOperator, Leaving, Running
  <2>2. LeaveIf => \E r \in TypeResults : Conclude(r)
    BY <1>1, ConstructResults DEF LeaveIf, Leaving, Running
  <2>3. LeaveCallable => \E r \in TypeResults : Conclude(r)
    BY <1>1, ConstructResults DEF LeaveCallable, Leaving, Running
  <2>4. LeaveLoop => \E r \in TypeResults : Conclude(r)
    BY <1>1, ConstructResults DEF LeaveLoop, Leaving, Running
  <2>5. LeaveVariableDefinition => \E r \in TypeResults : Conclude(r)
    BY <1>1, ConstructResults DEF LeaveVariableDefinition, Leaving, Running
  <2>6. type[cur] \in TypeResults
    BY <1>1 DEF TypeOK, TypeResults
  <2>7. LeaveUntyped => \E r \in TypeResults : Conclude(r)
    BY <2>6 DEF LeaveUntyped
  <2> QED BY <2>1, <2>2, <2>3, <2>4, <2>5, <2>7
<1> QED BY <1>1, <1>2, ConcludeStep

LEMMA ResolvingSteps ==
  ASSUME Inductive, VisitLiteral \/ ResolveVariable
  PROVE  Inductive'
<1>1. /\ prog \in Programs /\ TypeOK /\ scopeOf[1] = 1
      /\ type \in [Node -> MaybeType] /\ resolved \in [Node -> MaybeNode]
  BY DEF Inductive, TypeOK, Bookkeeping
<1>2. ASSUME NEW t \in MaybeType, cur \in Node, status = "running", Return(t),
             UNCHANGED <<prog, tables>>, resolved' \in [Node -> MaybeNode],
             \A n \in Node : resolved[n] # 0 => resolved'[n] # 0
      PROVE  Inductive'
  <2>1. UNCHANGED <<prog, scopeOf, chain, defs>>
    BY <1>2 DEF tables
  <2>2. TypeOK'
    BY <1>2, <2>1, ReturnStep, SameProgram DEF Inductive, TypeOK
  <2>3. Bookkeeping'
    BY <1>2, <2>1, ReturnStep, NothingDeclared, BookkeepingAfter DEF Inductive, Bookkeeping
  <2> QED BY <2>1, <2>2, <2>3, NothingDeclared DEF Inductive
<1>3. CASE VisitLiteral
  <2>1. /\ cur \in Node /\ status = "running" /\ Return(type[cur])
        /\ UNCHANGED <<prog, tables, resolved>>
    BY <1>3 DEF VisitLiteral, Entering, Running
  <2> QED BY <1>1, <1>2, <2>1
<1>4. CASE ResolveVariable
  <2> DEFINE d == Lookup(Name(cur), ScopeAround(cur), VariableKinds)
  <2>1. cur \in Node /\ status = "running" /\ Kind(cur) # "root"
    BY <1>4 DEF ResolveVariable, Entering, Leaving, Running
  <2>2. ScopeAround(cur) \in Node
    BY <1>1, <2>1, NotTheRoot, ScopeAroundExists
  <2>3. d = 0 \/ d \in Node
    BY <1>1, <2>2, LookupFinds
  <2>4. CASE Stop({"rejected"}) \/ Stop({"crashed"})
    BY <2>4, StopStep DEF Verdicts
  <2>5. CASE /\ d # 0 /\ resolved' = [resolved EXCEPT ![cur] = d]
             /\ Return(type[d]) /\ UNCHANGED <<prog, tables>>
    <3> HIDE DEF d
    <3>1. d \in Node /\ type[d] \in MaybeType
      BY <1>1, <2>3, <2>5
    <3>2. resolved' \in [Node -> MaybeNode]
      BY <1>1, <2>1, <2>5, <3>1 DEF MaybeNode
    <3>3. \A n \in Node : resolved[n] # 0 => resolved'[n] # 0
      BY <1>1, <2>1, <2>5
    <3> QED BY <1>2, <2>1, <2>5, <3>1, <3>2, <3>3
  <2> QED BY <1>4, <2>4, <2>5 DEF ResolveVariable
<1> QED BY <1>3, <1>4

LEMMA WalkingSteps ==
  ASSUME Inductive, VisitChild \/ SkipVisitedChild
  PROVE  Inductive'
<1>1. /\ prog \in Programs /\ TypeOK /\ at \in [Node -> Nat] /\ mark \in [Node -> Marks]
      /\ \A n \in Node : at[n] <= Len(Children(n))
  BY DEF Inductive, TypeOK, Bookkeeping
<1>2. cur \in Node /\ at[cur] < Len(Children(cur)) /\ at' = [at EXCEPT ![cur] = @ + 1]
  BY DEF VisitChild, SkipVisitedChild, MoreChildren, Advance
<1>3. Len(Children(cur)) \in Nat
  BY <1>1, <1>2, ProgramFacts
<1>4. at' \in [Node -> Nat] /\ \A n \in Node : at'[n] <= Len(Children(n))
  BY <1>1, <1>2, <1>3
<1>5. CASE VisitChild
  <2>1. at[cur] + 1 \in 1 .. Len(Children(cur))
    BY <1>1, <1>2, <1>3
  <2>2. NextChild \in Node
    BY <1>1, <1>2, <2>1, ChildTypes DEF NextChild
  <2>3. /\ mark' = [mark EXCEPT ![NextChild] = "VISITING"] /\ Accept(NextChild, "children")
        /\ UNCHANGED <<prog, tables, type, resolved, status>>
    BY <1>5 DEF VisitChild
  <2>4. mark' \in [Node -> Marks]
    BY <1>1, <2>2, <2>3 DEF Marks
  <2>5. "children" \in Progress
    BY DEF Progress
  <2> QED BY <1>2, <1>4, <2>2, <2>3, <2>4, <2>5, WalkStep
<1>6. CASE SkipVisitedChild
  <2>1. UNCHANGED <<prog, cur, pc, caller, mark, scopeOf, chain, defs, type, resolved, status>>
    BY <1>6 DEF SkipVisitedChild, tables
  <2>2. TypeOK'
    BY <1>4, <2>1, SameProgram DEF Inductive, TypeOK
  <2>3. Bookkeeping'
    BY <1>4, <2>1, NothingDeclared, BookkeepingAfter DEF Inductive, Bookkeeping
  <2> QED BY <2>1, <2>2, <2>3, NothingDeclared DEF Inductive
<1> QED BY <1>5, <1>6

LEMMA CallingSteps ==
  ASSUME Inductive,
         \/ VisitFunctionCall \/ RejectArgument \/ VisitArgument
         \/ VisitOtherBranch \/ LeaveFunctionCall
  PROVE  Inductive'
<1>1. /\ prog \in Programs /\ TypeOK /\ at \in [Node -> Nat] /\ mark \in [Node -> Marks]
      /\ resolved \in [Node -> MaybeNode] /\ scopeOf[1] = 1
      /\ \A n \in Node : at[n] <= Len(Children(n))
  BY DEF Inductive, TypeOK, Bookkeeping
<1>2. CASE VisitFunctionCall
  <2> DEFINE d == Lookup(Name(cur), ScopeAround(cur), DefinitionKinds)
  <2>1. cur \in Node /\ Kind(cur) = "function_call"
    BY <1>2 DEF VisitFunctionCall, Entering, Running
  <2>2. ScopeAround(cur) \in Node
    BY <1>1, <2>1, NotTheRoot, ScopeAroundExists
  <2>3. d = 0 \/ d \in Node
    BY <1>1, <2>2, LookupFinds
  <2>4. CASE Stop(CallFailures(cur, d))
    <3>1. CallFailures(cur, d) \in SUBSET Verdicts
      BY DEF CallFailures, Verdicts
    <3> QED BY <2>4, <3>1, StopStep
  <2>5. CASE /\ CallFailures(cur, d) = {} /\ resolved' = [resolved EXCEPT ![cur] = d]
             /\ GoOn("arguments")
             /\ UNCHANGED <<prog, at, mark, tables, type, status>>
    <3>1. d # 0
      BY <2>5 DEF CallFailures
    <3> HIDE DEF d
    <3>2. UNCHANGED <<prog, at, mark, scopeOf, chain, defs, type, status>>
      BY <2>5 DEF tables
    <3>3. resolved' = [resolved EXCEPT ![cur] = d] /\ GoOn("arguments")
      BY <2>5
    <3>4. /\ resolved' \in [Node -> MaybeNode] /\ resolved'[cur] # 0
          /\ \A n \in Node : resolved[n] # 0 => resolved'[n] # 0
      BY <1>1, <2>1, <2>3, <3>1, <3>3 DEF MaybeNode
    <3>5. /\ cur' \in MaybeNode /\ pc' \in [Node -> Progress]
          /\ caller' \in [Node -> MaybeNode]
          /\ \A n \in Node : pc'[n] \in {"arguments", "branch"} =>
                               pc[n] = pc'[n] \/ (n = cur /\ pc'[n] = "arguments")
      BY <2>1, <3>3, GoOnStep DEF Progress
    <3>6. TypeOK'
      BY <3>2, <3>4, <3>5, SameProgram DEF Inductive, TypeOK
    <3>7. Bookkeeping'
      BY <2>1, <3>2, <3>4, <3>5, NothingDeclared, BookkeepingAfter DEF Inductive, Bookkeeping
    <3> QED BY <3>2, <3>6, <3>7, NothingDeclared DEF Inductive
  <2> QED BY <1>2, <2>4, <2>5 DEF VisitFunctionCall
<1>3. CASE RejectArgument
  <2>1. ArgumentFailure(cur) \in SUBSET Verdicts
    BY DEF ArgumentFailure, Verdict, Verdicts
  <2> QED BY <1>3, <2>1, StopStep DEF RejectArgument
<1>4. CASE VisitArgument
  <2>1. /\ cur \in Node /\ pc[cur] = "arguments" /\ at[cur] < Len(Children(cur))
        /\ Accept(NextChild, "arguments") /\ at' = [at EXCEPT ![cur] = @ + 1]
        /\ UNCHANGED <<prog, mark, tables, type, resolved, status>>
    BY <1>4 DEF VisitArgument, Passing, Advance
  <2>2. Len(Children(cur)) \in Nat
    BY <1>1, <2>1, ProgramFacts
  <2>3. at' \in [Node -> Nat] /\ \A n \in Node : at'[n] <= Len(Children(n))
    BY <1>1, <2>1, <2>2
  <2>4. at[cur] + 1 \in 1 .. Len(Children(cur))
    BY <1>1, <2>1, <2>2
  <2>5. NextChild \in Node
    BY <1>1, <2>1, <2>4, ChildTypes DEF NextChild
  <2>6. "arguments" \in Progress /\ mark' \in [Node -> Marks]
    BY <1>1, <2>1 DEF Progress
  <2> QED BY <2>1, <2>3, <2>5, <2>6, WalkStep
<1>5. CASE VisitOtherBranch
  <2>1. /\ cur \in Node /\ pc[cur] = "arguments" /\ ~Unresolvable(cur)
        /\ mark' = [mark EXCEPT ![OtherBranch(cur)] = "VISITING"]
        /\ Accept(OtherBranch(cur), "branch")
        /\ UNCHANGED <<prog, at, tables, type, resolved, status>>
    BY <1>5 DEF VisitOtherBranch, ArgumentsPassed, Passing, MustVisitBranch
  <2>2. EnclosingIf(cur) # 0 /\ OtherBranch(cur) \in Node
    BY <1>1, <2>1, OtherBranchExists DEF Unresolvable
  <2>3. mark' \in [Node -> Marks] /\ "branch" \in Progress
    BY <1>1, <2>1, <2>2 DEF Marks, Progress
  <2> QED BY <1>1, <2>1, <2>2, <2>3, WalkStep
<1>6. CASE LeaveFunctionCall
  <2>1. CASE ArgumentsPassed /\ ~MustVisitBranch(cur) /\ Conclude(CallType(cur))
    <3>1. cur \in Node /\ status = "running" /\ pc[cur] = "arguments"
      BY <2>1 DEF ArgumentsPassed, Passing
    <3>2. resolved[cur] # 0
      BY <3>1 DEF Inductive, Bookkeeping
    <3>3. CallType(cur) \in TypeResults
      BY <1>1, <3>1, <3>2, CallResults
    <3> QED BY <2>1, <3>1, <3>3, ConcludeStep
  <2>2. CASE Running({"function_call"}, "branch") /\ Conclude(CopyOf(type[OtherBranch(cur)]))
    <3>1. cur \in Node /\ status = "running" /\ pc[cur] = "branch"
      BY <2>2 DEF Running
    <3>2. resolved[cur] # 0 /\ EnclosingIf(cur) # 0
      BY <3>1 DEF Inductive, Bookkeeping
    <3>3. CopyOf(type[OtherBranch(cur)]) \in TypeResults
      BY <1>1, <3>1, <3>2, CallResults
    <3> QED BY <2>2, <3>1, <3>3, ConcludeStep
  <2> QED BY <1>6, <2>1, <2>2 DEF LeaveFunctionCall
<1> QED BY <1>2, <1>3, <1>4, <1>5, <1>6

-----------------------------------------------------------------------------
(* The theorems                                                            *)

LEMMA Initially == Init => Inductive
<1> SUFFICES ASSUME Init PROVE Inductive
  OBVIOUS
<1>1. prog \in Programs
  BY DEF Init
<1>2. /\ Node = 1 .. Len(prog) /\ 1 \in Node
      /\ \A n \in Node : prog[n].type \in MaybeType /\ Len(Children(n)) \in Nat
  BY <1>1, ProgramFacts
<1>3. TypeOK
  BY <1>2 DEF Init, TypeOK, MaybeNode, Progress, Marks
<1>4. Bookkeeping
  BY <1>2 DEF Init, Bookkeeping
<1>5. ScopeUnique
  BY DEF Init, ScopeUnique
<1> QED BY <1>1, <1>3, <1>4, <1>5 DEF Inductive

LEMMA Preserved == Inductive /\ [Next]_vars => Inductive'
<1> SUFFICES ASSUME Inductive, [Next]_vars PROVE Inductive'
  OBVIOUS
<1>1. CASE Next
  BY <1>1, BeginningSteps, DeclaringSteps, LeavingSteps, ResolvingSteps, WalkingSteps,
     CallingSteps DEF Next
<1>2. CASE UNCHANGED vars
  <2>1. UNCHANGED <<prog, cur, pc, at, caller, mark, scopeOf, chain, defs, type, resolved, status>>
    BY <1>2 DEF vars
  <2>2. TypeOK'
    BY <2>1, SameProgram DEF Inductive, TypeOK
  <2>3. Bookkeeping'
    BY <2>1, NothingDeclared, BookkeepingAfter DEF Inductive, Bookkeeping
  <2> QED BY <2>1, <2>2, <2>3, NothingDeclared DEF Inductive
<1> QED BY <1>1, <1>2

\* The analyzer keeps well-typed tables whatever program it is given: every
\* scope, caller and resolved reference is a node, every type one of the
\* algebra's or null, and no handler computes anything else.
THEOREM TypeCorrect == Spec => []TypeOK
<1>1. Inductive => TypeOK
  BY DEF Inductive
<1> QED BY <1>1, Initially, Preserved, PTL DEF Spec

\* No scope ever holds two definitions of one name, for every program and in
\* whatever order the recursion rule makes the walk meet them.
THEOREM ScopesHoldNoDuplicates == Spec => []ScopeUnique
<1>1. Inductive => ScopeUnique
  BY DEF Inductive
<1> QED BY <1>1, Initially, Preserved, PTL DEF Spec

-----------------------------------------------------------------------------
(***************************************************************************)
(* The walk: it implements module Traversal, starts no handler twice and,  *)
(* when it accepts, has been everywhere.                                   *)
(*                                                                         *)
(* The argument is about the call stack.  A branch visited ahead of turn   *)
(* is called from below its sibling, so that the stack leaves the path     *)
(* from the root to the running node.  What saves the walk is that no two  *)
(* branches wait for each other: then a handler that runs has no child in  *)
(* progress, and a child it starts has not been started before.            *)
(***************************************************************************)

-----------------------------------------------------------------------------
(* Trees                                                                   *)

LEMMA TreeFacts ==
  ASSUME prog \in Programs
  PROVE  /\ \A n \in Node : \A i \in 1 .. Len(Children(n)) :
              /\ Child(n, i) \in Node \ {1} /\ Parent(Child(n, i)) = n
              /\ \A j \in 1 .. Len(Children(n)) :
                   (i < j => Child(n, i) < Child(n, j)) /\ (Child(n, i) = Child(n, j) => i = j)
         /\ \A n \in Node \ {1} :
              /\ Parent(n) \in Node
              /\ \E i \in 1 .. Len(Children(Parent(n))) : Child(Parent(n), i) = n
         /\ \A n \in Node :
              /\ (Parent(n) = 0) <=> (n = 1)
              /\ Kind(n) \in {"variable", "literal", "formal"} => Len(Children(n)) = 0
              /\ Kind(n) = "extern_function" =>
                   \A i \in 1 .. Len(Children(n)) : Kind(Child(n, i)) = "formal"
<1>1. WellFormed(prog)
  BY ProgramsAssumption
<1>2. /\ prog \in Seq(NodeRecord) /\ Len(prog) \in Nat /\ Node = 1 .. Len(prog) /\ 1 \in Node
      /\ \A n \in Node : prog[n] \in NodeRecord
  BY <1>1 DEF WellFormed, Node
<1>3. \A n \in Node : Children(n) \in Seq(Nat) /\ DOMAIN Children(n) = 1 .. Len(Children(n))
  BY <1>2 DEF NodeRecord, Children
<1>4. /\ Parent(1) = 0
      /\ \A n \in Node \ {1} :
           /\ Parent(n) \in 1 .. (n - 1)
           /\ \E i \in DOMAIN Children(Parent(n)) : Child(Parent(n), i) = n
  BY <1>1, <1>2 DEF WellFormed, Node, Parent, Children, Child
<1>5. \A n \in Node : \A i \in DOMAIN Children(n) :
        /\ Child(n, i) \in Node /\ Parent(Child(n, i)) = n
        /\ \A j \in DOMAIN Children(n) : i < j => Child(n, i) < Child(n, j)
  BY <1>1 DEF WellFormed, Node, Parent, Children, Child
<1>6. ASSUME NEW n \in Node
      PROVE  /\ Kind(n) \in {"variable", "literal", "formal"} => Children(n) = <<>>
             /\ Kind(n) = "extern_function" =>
                  \A i \in DOMAIN Children(n) : Kind(Child(n, i)) = "formal"
  <2>1. Shape(prog, n)
    BY <1>1 DEF WellFormed, Node
  <2> QED BY <2>1 DEF Shape, Kind, Children, Child
<1>7. \A n \in Node : (Parent(n) = 0) <=> (n = 1)
  BY <1>2, <1>4
<1>8. \A n \in Node : \A i \in 1 .. Len(Children(n)) : Child(n, i) # 1
  <2>1. \A n \in Node : \A i \in DOMAIN Children(n) : Parent(Child(n, i)) # 0
    BY <1>2, <1>5
  <2> QED BY <1>3, <1>4, <2>1
<1>9. \A n \in Node \ {1} : Parent(n) \in Node
  BY <1>2, <1>4
<1>10. \A n \in Node : Kind(n) \in {"variable", "literal", "formal"} => Len(Children(n)) = 0
  BY <1>6
<1>11. ASSUME NEW n \in Node
       PROVE  \A i \in 1 .. Len(Children(n)) :
                /\ Child(n, i) \in Node \ {1} /\ Parent(Child(n, i)) = n
                /\ \A j \in 1 .. Len(Children(n)) :
                     (i < j => Child(n, i) < Child(n, j)) /\ (Child(n, i) = Child(n, j) => i = j)
  <2>1. \A i, j \in DOMAIN Children(n) : i < j => Child(n, i) < Child(n, j)
    BY <1>5
  <2>2. DOMAIN Children(n) = 1 .. Len(Children(n)) /\ \A i \in DOMAIN Children(n) : Child(n, i) \in Nat
    BY <1>2, <1>3, <1>5
  <2>3. \A i, j \in 1 .. Len(Children(n)) : Child(n, i) = Child(n, j) => i = j
    BY <2>1, <2>2
  <2> QED BY <1>5, <1>8, <2>1, <2>2, <2>3
<1>12. ASSUME NEW n \in Node \ {1}
       PROVE  \E i \in 1 .. Len(Children(Parent(n))) : Child(Parent(n), i) = n
  BY <1>3, <1>4, <1>9
<1>13. ASSUME NEW n \in Node, Kind(n) = "extern_function"
       PROVE  \A i \in 1 .. Len(Children(n)) : Kind(Child(n, i)) = "formal"
  BY <1>3, <1>6, <1>13
<1> QED BY <1>7, <1>9, <1>10, <1>11, <1>12, <1>13

\* The numbers of nodes.
LEMMA TreeOrder ==
  ASSUME prog \in Programs
  PROVE  /\ Len(prog) \in Nat /\ Node = 1 .. Len(prog)
         /\ \A n \in Node : prog[n].last \in n .. Len(prog)
         /\ \A n \in Node \ {1} :
              Parent(n) \in 1 .. (n - 1) /\ prog[n].last <= prog[Parent(n)].last
         /\ \A b, n \in Node : b < n /\ n <= prog[b].last => b <= Parent(n)
BY ProgramFacts, ProgramsAssumption DEF WellFormed, Node, Parent

\* Between a node and what is below it there is a child; siblings share nothing.
LEMMA ChildOnPath ==
  ASSUME prog \in Programs, NEW m \in Node, NEW a \in Path(m), a # m
  PROVE  \E x \in Path(m) : x \in Node \ {1} /\ Parent(x) = a
<1>1. /\ Len(prog) \in Nat /\ Node = 1 .. Len(prog)
      /\ \A n \in Node : prog[n].last \in n .. Len(prog)
      /\ \A n \in Node \ {1} :
           Parent(n) \in 1 .. (n - 1) /\ prog[n].last <= prog[Parent(n)].last
      /\ \A b, n \in Node : b < n /\ n <= prog[b].last => b <= Parent(n)
  BY TreeOrder
<1>2. a \in Node /\ a < m /\ m <= prog[a].last
  BY <1>1 DEF Path
<1> DEFINE S == {x \in Path(m) : x > a}
<1>3. S \in SUBSET Nat /\ m \in S
  BY <1>1, <1>2 DEF Path
<1>4. PICK x \in S : \A y \in S : x <= y
  <2> HIDE DEF S
  <2> QED BY <1>3, LeastElement
<1>5. x \in Path(m) /\ x \in Node \ {1} /\ a < x /\ x <= m /\ m <= prog[x].last
  BY <1>1, <1>2 DEF Path
<1>6. Parent(x) \in Path(m)
  <2>1. Parent(x) \in Node /\ Parent(x) < x /\ prog[x].last <= prog[Parent(x)].last
    BY <1>1, <1>5
  <2> QED BY <1>1, <1>5, <2>1 DEF Path
<1>7. Parent(x) \in Nat /\ Parent(x) < x /\ ~(Parent(x) > a)
  BY <1>1, <1>4, <1>5, <1>6
<1>8. a <= Parent(x)
  BY <1>1, <1>2, <1>5
<1> QED BY <1>1, <1>2, <1>5, <1>7, <1>8

LEMMA SiblingsApart ==
  ASSUME prog \in Programs, NEW x \in Node \ {1}, NEW y \in Node \ {1}, Parent(x) = Parent(y),
         NEW b \in Node, x \in Path(b), y \in Path(b)
  PROVE  x = y
<1>1. /\ Len(prog) \in Nat /\ Node = 1 .. Len(prog)
      /\ prog[x].last \in Nat /\ prog[y].last \in Nat
      /\ Parent(x) \in 1 .. (x - 1) /\ Parent(y) \in 1 .. (y - 1)
      /\ y < x /\ x <= prog[y].last => y <= Parent(x)
      /\ x < y /\ y <= prog[x].last => x <= Parent(y)
  BY TreeOrder
<1>2. x <= b /\ y <= b /\ b <= prog[x].last /\ b <= prog[y].last
  BY <1>1 DEF Path
<1>3. ~(x < y) /\ ~(y < x)
  BY <1>1, <1>2
<1> QED BY <1>1, <1>3

\* A node below another, in terms of parents.
LEMMA ParentOnPath ==
  ASSUME prog \in Programs, NEW n \in Node \ {1}
  PROVE  \A a \in Path(n) : a = n \/ a \in Path(Parent(n))
<1>1. /\ Len(prog) \in Nat /\ Node = 1 .. Len(prog)
      /\ Parent(n) \in 1 .. (n - 1)
      /\ \A b \in Node : b < n /\ n <= prog[b].last => b <= Parent(n)
      /\ \A b \in Node : prog[b].last \in Nat
  BY TreeOrder
<1> QED BY <1>1 DEF Path

\* The branch a recursive call waits for hangs from an if above the call, and does
\* not hold the call.
LEMMA OtherBranchFacts ==
  ASSUME prog \in Programs, NEW b \in Node, EnclosingIf(b) # 0
  PROVE  LET i == EnclosingIf(b)
         IN  /\ i \in Node /\ i \in Path(b) /\ Kind(i) = "if_expr"
             /\ Child(i, 2) \in Node \ {1} /\ Child(i, 3) \in Node \ {1}
             /\ OtherBranch(b) \in {Child(i, 2), Child(i, 3)}
             /\ Parent(OtherBranch(b)) = i /\ OtherBranch(b) \notin Path(b)
<1> DEFINE i == EnclosingIf(b)
<1>1. i \in Node /\ i \in Path(b) /\ Kind(i) = "if_expr"
  BY EnclosingIfIsIf
<1> HIDE DEF i
<1>2. Len(Children(i)) = 3
  BY <1>1, ShapeFacts
<1>3. /\ Child(i, 2) \in Node \ {1} /\ Child(i, 3) \in Node \ {1} /\ Child(i, 2) # Child(i, 3)
      /\ Parent(Child(i, 2)) = i /\ Parent(Child(i, 3)) = i
  <2>1. \A j, k \in 1 .. 3 : /\ Child(i, j) \in Node \ {1} /\ Parent(Child(i, j)) = i
                             /\ Child(i, j) = Child(i, k) => j = k
    BY <1>1, <1>2, TreeFacts
  <2>2. 2 \in 1 .. 3 /\ 3 \in 1 .. 3 /\ 2 # 3
    OBVIOUS
  <2> QED BY <2>1, <2>2
<1>4. CASE IsAncestor(Child(i, 2), b)
  <2>1. OtherBranch(b) = Child(i, 3) /\ Child(i, 2) \in Path(b)
    BY <1>4 DEF OtherBranch, InAffirmative, IsAncestor, i
  <2> QED BY <1>1, <1>3, <2>1, SiblingsApart DEF i
<1>5. CASE ~IsAncestor(Child(i, 2), b)
  <2>1. OtherBranch(b) = Child(i, 2) /\ Child(i, 2) \notin Path(b)
    BY <1>3, <1>5 DEF OtherBranch, InAffirmative, IsAncestor, i
  <2> QED BY <1>1, <1>3, <2>1 DEF i
<1> QED BY <1>4, <1>5

-----------------------------------------------------------------------------
(* The inductive invariant                                                 *)

\* The handler of n has been called and has not returned.
Active(n) == pc[n] \notin {"idle", "done"}

Optional(n) == Kind(n) = "formal" /\ Kind(Parent(n)) = "extern_function"

\* The call stack.  Everything above an active node is active; an active node was
\* called by its parent, or out of turn by a call that waits for the other branch of
\* an if; no two have one caller, and cur, on top, is nobody's.  Two branches never
\* wait for each other.
StackInv ==
  /\ pc[1] # "idle"
  /\ status = "running" => cur \in Node /\ Active(cur)
  /\ \A n \in Node : Active(n) => \A a \in Path(n) : Active(a)
  /\ \A n \in Node \ {1} : Active(n) =>
       /\ caller[n] # cur /\ caller[n] \in Node /\ Active(caller[n])
       /\ \/ pc[caller[n]] \in {"children", "arguments"} /\ Parent(n) = caller[n]
          \/ pc[caller[n]] = "branch" /\ n = OtherBranch(caller[n])
  /\ \A n, m \in Node \ {1} : Active(n) /\ Active(m) /\ caller[n] = caller[m] => n = m
  /\ \A n, m \in Node \ {1} :
       Active(n) /\ Active(m) /\ pc[caller[n]] = "branch" /\ pc[caller[m]] = "branch"
       => ~(m \in Path(caller[n]) /\ n \in Path(caller[m]))

\* What the marks say of nodes that are not arguments.
MarkInv ==
  \A n \in Node :
    /\ mark[n] = "VISITED" => pc[n] = "done"
    /\ n # 1 /\ Kind(Parent(n)) # "function_call" =>
         /\ pc[n] = "done" => mark[n] = "VISITED"
         /\ mark[n] = "NOT_VISITED" => pc[n] = "idle"

\* How far handlers have come with their children.
ProgressInv ==
  /\ \A n \in Node :
       /\ pc[n] = "children" => Kind(n) # "function_call"
       /\ pc[n] = "branch" => at[n] = Len(Children(n))
       /\ \A i \in 1 .. at[n] : pc[Child(n, i)] # "idle"
       /\ Kind(n) = "function_call" =>
            \A i \in at[n] + 1 .. Len(Children(n)) : pc[Child(n, i)] = "idle"
       /\ pc[n] = "done" =>
            \A c \in Node \ {1} : Parent(c) = n /\ ~Optional(c) => pc[c] = "done"
  /\ status = "accepted" => pc[1] = "done"

WalkInductive == Inductive /\ StackInv /\ MarkInv /\ ProgressInv

\* An active node its parent did not call is a branch that another branch of the
\* same if waits for.
LEMMA OutOfTurn ==
  ASSUME WalkInductive, NEW n \in Node \ {1}, Active(n), caller[n] # Parent(n)
  PROVE  /\ pc[caller[n]] = "branch" /\ n \in {Child(Parent(n), 2), Child(Parent(n), 3)}
         /\ \E m \in Node \ {1} : /\ Active(m) /\ Parent(m) = Parent(n) /\ m # n
                                  /\ m \in Path(caller[n])
<1> DEFINE b == caller[n]  i == EnclosingIf(b)
<1>1. prog \in Programs /\ b \in Node /\ Active(b) /\ pc[b] = "branch" /\ n = OtherBranch(b)
  BY DEF WalkInductive, Inductive, StackInv
<1>2. i # 0 /\ Kind(b) = "function_call"
  BY <1>1 DEF WalkInductive, Inductive, Bookkeeping
<1> HIDE DEF b
<1>3. /\ i \in Node /\ i \in Path(b) /\ Kind(i) = "if_expr" /\ Parent(n) = i
      /\ n \in {Child(i, 2), Child(i, 3)} /\ n \notin Path(b)
  BY <1>1, <1>2, OtherBranchFacts
<1> HIDE DEF i
<1>4. i # b
  BY <1>2, <1>3
<1>5. PICK m \in Path(b) : m \in Node \ {1} /\ Parent(m) = i
  BY <1>1, <1>3, <1>4, ChildOnPath
<1>6. Active(m)
  BY <1>1, <1>5 DEF WalkInductive, StackInv
<1> QED BY <1>1, <1>3, <1>5, <1>6 DEF b

\* A handler that runs has no child in progress, neither one it has called nor one
\* that was called out of turn: of those, two would wait for each other.
LEMMA NoActiveChild ==
  ASSUME WalkInductive, cur \in Node, NEW c \in Node \ {1}, Parent(c) = cur
  PROVE  ~Active(c)
<1> SUFFICES ASSUME Active(c) PROVE FALSE
  OBVIOUS
<1>1. \A n \in Node \ {1} : Active(n) => caller[n] # cur
  BY DEF WalkInductive, StackInv
<1>2. PICK m \in Node \ {1} : /\ Active(m) /\ Parent(m) = cur /\ m # c
                              /\ m \in Path(caller[c])
  BY <1>1, OutOfTurn
<1>3. PICK k \in Node \ {1} : /\ Active(k) /\ Parent(k) = cur /\ k # m
                              /\ k \in Path(caller[m])
  BY <1>1, <1>2, OutOfTurn
<1>4. \A n \in {c, m, k} : n \in {Child(cur, 2), Child(cur, 3)} /\ pc[caller[n]] = "branch"
  BY <1>1, <1>2, <1>3, OutOfTurn
<1>5. k = c
  BY <1>2, <1>3, <1>4
<1> QED BY <1>2, <1>3, <1>4, <1>5 DEF WalkInductive, StackInv

\* Nor has it anything further down.
LEMMA NoActiveBelow ==
  ASSUME WalkInductive, cur \in Node, NEW m \in Node, cur \in Path(m), m # cur
  PROVE  ~Active(m)
<1>1. prog \in Programs
  BY DEF WalkInductive, Inductive
<1>2. PICK x \in Path(m) : x \in Node \ {1} /\ Parent(x) = cur
  BY <1>1, ChildOnPath
<1>3. ~Active(x)
  BY <1>2, NoActiveChild
<1> QED BY <1>2, <1>3 DEF WalkInductive, StackInv

\* A handler that has called all its children leaves none behind.
LEMMA ChildrenEnded ==
  ASSUME WalkInductive, cur \in Node,
         \A i \in 1 .. Len(Children(cur)) : Optional(Child(cur, i)) \/ pc[Child(cur, i)] # "idle"
  PROVE  \A c \in Node \ {1} : Parent(c) = cur /\ ~Optional(c) => pc[c] = "done"
<1> SUFFICES ASSUME NEW c \in Node \ {1}, Parent(c) = cur, ~Optional(c) PROVE pc[c] = "done"
  OBVIOUS
<1>1. prog \in Programs
  BY DEF WalkInductive, Inductive
<1>2. PICK i \in 1 .. Len(Children(cur)) : Child(cur, i) = c
  BY <1>1, TreeFacts
<1>3. pc[c] # "idle" /\ ~Active(c)
  BY <1>2, NoActiveChild
<1> QED BY <1>3 DEF Active

-----------------------------------------------------------------------------
(* The invariant after a step, in terms of the tree before it              *)

LEMMA SameTree ==
  ASSUME prog' = prog
  PROVE  /\ Node' = Node
         /\ \A n : /\ Path(n)' = Path(n) /\ Kind(n)' = Kind(n) /\ Parent(n)' = Parent(n)
                   /\ Children(n)' = Children(n) /\ OtherBranch(n)' = OtherBranch(n)
                   /\ Optional(n)' = Optional(n)
         /\ \A n, i : Child(n, i)' = Child(n, i)
BY DEF Node, Path, Kind, Parent, Children, Child, OtherBranch, InAffirmative, EnclosingIf,
       IsAncestor, Optional, Below, Above

\* The primed invariants without the primes on the tree.
LEMMA StackAfter ==
  ASSUME prog' = prog,
         pc'[1] # "idle", status' = "running" => cur' \in Node /\ Active(cur)',
         \A n \in Node : Active(n)' => \A a \in Path(n) : Active(a)',
         \A n \in Node \ {1} : Active(n)' =>
           /\ caller'[n] # cur' /\ caller'[n] \in Node /\ pc'[caller'[n]] \notin {"idle", "done"}
           /\ \/ pc'[caller'[n]] \in {"children", "arguments"} /\ Parent(n) = caller'[n]
              \/ pc'[caller'[n]] = "branch" /\ n = OtherBranch(caller'[n]),
         \A n, m \in Node \ {1} : Active(n)' /\ Active(m)' /\ caller'[n] = caller'[m] => n = m,
         \A n, m \in Node \ {1} :
           /\ Active(n)' /\ Active(m)'
           /\ pc'[caller'[n]] = "branch" /\ pc'[caller'[m]] = "branch"
           => ~(m \in Path(caller'[n]) /\ n \in Path(caller'[m]))
  PROVE  StackInv'
<1>1. /\ Node' = Node /\ \A n : Path(n)' = Path(n) /\ Parent(n)' = Parent(n)
      /\ \A n : OtherBranch(n)' = OtherBranch(n)
  BY SameTree
<1>2. \A n : Path(caller[n])' = Path(caller'[n])
  BY DEF Path
<1> QED BY <1>1, <1>2 DEF StackInv, Active

\* The same for the other two.
LEMMA MarksAfter ==
  ASSUME prog' = prog,
         \A n \in Node :
           /\ mark'[n] = "VISITED" => pc'[n] = "done"
           /\ n # 1 /\ Kind(Parent(n)) # "function_call" =>
                /\ pc'[n] = "done" => mark'[n] = "VISITED"
                /\ mark'[n] = "NOT_VISITED" => pc'[n] = "idle"
  PROVE  MarkInv'
BY SameTree DEF MarkInv, Kind, Parent

LEMMA ProgressAfter ==
  ASSUME prog' = prog, status' = "accepted" => pc'[1] = "done",
         \A n \in Node :
           /\ pc'[n] = "children" => Kind(n) # "function_call"
           /\ pc'[n] = "branch" => at'[n] = Len(Children(n))
           /\ \A i \in 1 .. at'[n] : pc'[Child(n, i)] # "idle"
           /\ Kind(n) = "function_call" =>
                \A i \in at'[n] + 1 .. Len(Children(n)) : pc'[Child(n, i)] = "idle"
           /\ pc'[n] = "done" =>
                \A c \in Node \ {1} : Parent(c) = n /\ ~Optional(c) => pc'[c] = "done"
  PROVE  ProgressInv'
BY SameTree DEF ProgressInv, Child, Parent, Kind

-----------------------------------------------------------------------------
(* The steps                                                               *)

\* A handler goes on from its start to its children or arguments.
LEMMA GoOnWalk ==
  ASSUME WalkInductive, cur \in Node, pc[cur] = "enter", NEW q \in {"children", "arguments"},
         q = "children" => Kind(cur) # "function_call", GoOn(q),
         UNCHANGED <<prog, at, mark, status>>
  PROVE  StackInv' /\ MarkInv' /\ ProgressInv'
<1>1. /\ pc \in [Node -> Progress] /\ cur' = cur /\ caller' = caller
      /\ StackInv /\ MarkInv /\ ProgressInv
  BY DEF WalkInductive, Inductive, TypeOK, GoOn
<1>2. \A n \in Node : pc'[n] = IF n = cur THEN q ELSE pc[n]
  BY <1>1 DEF GoOn
<1>3. \A n \in Node : /\ Active(n)' <=> Active(n)
                      /\ pc'[n] = "done" <=> pc[n] = "done"
                      /\ pc'[n] = "idle" <=> pc[n] = "idle"
                      /\ n # cur => pc'[n] = pc[n]
  BY <1>2 DEF Active
<1>4. 1 \in Node /\ prog \in Programs
  BY ProgramFacts DEF WalkInductive, Inductive
<1>5. StackInv'
  <2>1. \A n \in Node \ {1} : Active(n)' => caller[n] # cur /\ caller[n] \in Node
    BY <1>1, <1>3 DEF StackInv
  <2>2. \A n \in Node \ {1} : Active(n)' => pc'[caller[n]] = pc[caller[n]]
    BY <1>3, <2>1
  <2>3. \A n \in Node : Active(n)' => \A a \in Path(n) : Active(a)'
    <3>1. \A n \in Node : Path(n) \subseteq Node
      BY <1>4, PathFacts
    <3> QED BY <1>1, <1>3, <3>1 DEF StackInv
  <2>4. \A n \in Node \ {1} : Active(n)' =>
          /\ caller'[n] # cur' /\ caller'[n] \in Node /\ pc'[caller'[n]] \notin {"idle", "done"}
          /\ \/ pc'[caller'[n]] \in {"children", "arguments"} /\ Parent(n) = caller'[n]
             \/ pc'[caller'[n]] = "branch" /\ n = OtherBranch(caller'[n])
    BY <1>1, <1>3, <2>1, <2>2 DEF StackInv, Active
  <2>5. \A n, m \in Node \ {1} :
          /\ Active(n)' /\ Active(m)'
          /\ pc'[caller'[n]] = "branch" /\ pc'[caller'[m]] = "branch"
          => ~(m \in Path(caller'[n]) /\ n \in Path(caller'[m]))
    BY <1>1, <1>3, <2>2 DEF StackInv
  <2>6. /\ pc'[1] # "idle"
        /\ status' = "running" => cur' \in Node /\ Active(cur)'
        /\ \A n, m \in Node \ {1} : Active(n)' /\ Active(m)' /\ caller'[n] = caller'[m] => n = m
    BY <1>1, <1>3, <1>4 DEF StackInv
  <2> QED BY <2>3, <2>4, <2>5, <2>6, StackAfter
<1>6. MarkInv'
  BY <1>1, <1>3, MarksAfter DEF MarkInv
<1>7. ProgressInv'
  <2>1. \A n \in Node : at[n] \in Nat /\ at[n] <= Len(Children(n)) /\ Len(Children(n)) \in Nat
    BY <1>4, ProgramFacts DEF WalkInductive, Inductive, TypeOK, Bookkeeping
  <2>2. \A n \in Node : \A i \in 1 .. Len(Children(n)) : Child(n, i) \in Node
    BY <1>4, ProgramFacts
  <2>3. \A n \in Node : \A i \in 1 .. at[n] : pc'[Child(n, i)] # "idle"
    BY <1>1, <1>3, <2>1, <2>2 DEF ProgressInv
  <2>4. \A n \in Node : Kind(n) = "function_call" =>
          \A i \in at[n] + 1 .. Len(Children(n)) : pc'[Child(n, i)] = "idle"
    BY <1>1, <1>3, <2>1, <2>2 DEF ProgressInv
  <2>5. \A n \in Node : /\ pc'[n] = "children" => Kind(n) # "function_call"
                        /\ pc'[n] = "branch" => at[n] = Len(Children(n))
    BY <1>1, <1>2 DEF ProgressInv
  <2> QED BY <1>1, <1>3, <1>4, <2>3, <2>4, <2>5, ProgressAfter DEF ProgressInv
<1> QED BY <1>5, <1>6, <1>7

\* What a call of accept on a node that has not begun leaves of the stack.
LEMMA AcceptWalk ==
  ASSUME WalkInductive, status = "running", cur \in Node, Active(cur),
         NEW c \in Node \ {1}, pc[c] = "idle", Active(Parent(c)), NEW q, Accept(c, q),
         UNCHANGED <<prog, status>>,
         \/ q \in {"children", "arguments"} /\ q = pc[cur] /\ Parent(c) = cur
         \/ q = "branch" /\ pc[cur] = "arguments" /\ c = OtherBranch(cur)
  PROVE  /\ StackInv'
         /\ \A n \in Node : pc'[n] = IF n = c THEN "enter" ELSE IF n = cur THEN q ELSE pc[n]
<1>1. /\ pc \in [Node -> Progress] /\ caller \in [Node -> MaybeNode] /\ prog \in Programs
      /\ StackInv /\ 1 \in Node
  BY ProgramFacts DEF WalkInductive, Inductive, TypeOK
<1>2. c # cur /\ \A n \in Node : pc'[n] = IF n = c THEN "enter" ELSE IF n = cur THEN q ELSE pc[n]
  BY <1>1 DEF Accept, Active
<1>3. cur' = c /\ \A n \in Node : caller'[n] = IF n = c THEN cur ELSE caller[n]
  BY <1>1 DEF Accept
<1>4. q \in {"children", "arguments", "branch"}
  OBVIOUS
<1>5. \A n \in Node : Active(n)' <=> Active(n) \/ n = c
  BY <1>2, <1>4 DEF Active
<1>6. ~Active(c)
  BY DEF Active
<1>7. \A n \in Node \ {1} : Active(n) =>
        /\ caller[n] \in Node /\ Active(caller[n]) /\ caller[n] # cur /\ caller[n] # c
        /\ pc'[caller[n]] = pc[caller[n]]
  BY <1>1, <1>2, <1>6 DEF StackInv
<1>8. \A n \in Node : Active(n)' => \A a \in Path(n) : Active(a)'
  <2>1. \A n \in Node : Path(n) \subseteq Node
    BY <1>1, PathFacts
  <2>2. Parent(c) \in Node /\ \A a \in Path(c) : a = c \/ a \in Path(Parent(c))
    BY <1>1, TreeFacts, ParentOnPath
  <2>3. \A a \in Path(c) : a = c \/ Active(a)
    BY <1>1, <2>2 DEF StackInv
  <2> QED BY <1>1, <1>5, <2>1, <2>3 DEF StackInv
<1>9. ASSUME NEW n \in Node \ {1}, Active(n)'
      PROVE  /\ caller'[n] # cur' /\ caller'[n] \in Node /\ pc'[caller'[n]] \notin {"idle", "done"}
             /\ \/ pc'[caller'[n]] \in {"children", "arguments"} /\ Parent(n) = caller'[n]
                \/ pc'[caller'[n]] = "branch" /\ n = OtherBranch(caller'[n])
  <2>1. CASE n = c
    BY <1>2, <1>3, <1>4, <2>1
  <2>2. CASE n # c
    <3>1. Active(n) /\ caller'[n] = caller[n]
      BY <1>3, <1>5, <1>9, <2>2
    <3> QED BY <1>1, <1>3, <1>7, <3>1 DEF StackInv, Active
  <2> QED BY <2>1, <2>2
<1>10. ASSUME NEW n \in Node \ {1}, NEW m \in Node \ {1}, Active(n)', Active(m)',
              caller'[n] = caller'[m]
       PROVE  n = m
  BY <1>1, <1>3, <1>5, <1>7, <1>10 DEF StackInv
<1>11. ASSUME NEW n \in Node \ {1}, NEW m \in Node \ {1}, Active(n)', Active(m)',
              pc'[caller'[n]] = "branch", pc'[caller'[m]] = "branch",
              m \in Path(caller'[n]), n \in Path(caller'[m])
       PROVE  FALSE
  \* The one who waits for c is active, hence so is everything above it: c is not.
  <2>1. ASSUME NEW k \in Node \ {1}, Active(k)', c \in Path(caller'[k])
        PROVE  FALSE
    <3>1. caller'[k] \in Node /\ Active(caller'[k])
      BY <1>3, <1>5, <1>7, <2>1
    <3> QED BY <1>1, <1>6, <2>1, <3>1 DEF StackInv
  <2>2. n # c /\ m # c
    BY <1>11, <2>1
  <2>3. Active(n) /\ Active(m) /\ caller'[n] = caller[n] /\ caller'[m] = caller[m]
    BY <1>3, <1>5, <1>11, <2>2
  <2> QED BY <1>1, <1>7, <1>11, <2>3 DEF StackInv
<1>12. pc'[1] # "idle" /\ Active(c)'
  BY <1>1, <1>2, <1>4, <1>5 DEF StackInv
<1> QED BY <1>2, <1>3, <1>8, <1>9, <1>10, <1>11, <1>12, StackAfter

\* A handler returns: nothing below it is in progress.
LEMMA ReturnWalk ==
  ASSUME WalkInductive, status = "running", cur \in Node, NEW t, Return(t), prog' = prog,
         \A i \in 1 .. Len(Children(cur)) : Optional(Child(cur, i)) \/ pc[Child(cur, i)] # "idle"
  PROVE  StackInv' /\ MarkInv' /\ ProgressInv'
<1>1. /\ pc \in [Node -> Progress] /\ mark \in [Node -> Marks] /\ prog \in Programs
      /\ StackInv /\ MarkInv /\ ProgressInv /\ 1 \in Node /\ Active(cur)
  BY ProgramFacts DEF WalkInductive, Inductive, TypeOK, StackInv
<1>2. /\ \A n \in Node : pc'[n] = IF n = cur THEN "done" ELSE pc[n]
      /\ cur' = caller[cur] /\ UNCHANGED <<at, caller>>
      /\ status' = IF cur = 1 THEN "accepted" ELSE status
  BY <1>1 DEF Return
<1>3. \A n \in Node : Active(n)' <=> Active(n) /\ n # cur
  BY <1>2 DEF Active
<1>4. \A n \in Node : Active(n)' => cur \notin Path(n)
  BY <1>3, NoActiveBelow
<1>5. cur = 1 => \A n \in Node : ~Active(n)'
  <2>1. \A n \in Node : 1 \in Path(n)
    <3>1. prog[1].last = Len(prog)
      BY <1>1, ProgramsAssumption DEF WellFormed
    <3> QED BY <1>1, <3>1, ProgramFacts DEF Path
  <2> QED BY <1>4, <2>1
<1>6. \A n \in Node \ {1} : Active(n)' =>
        /\ Active(n) /\ caller[n] \in Node /\ caller[n] # cur
        /\ Active(caller[n]) /\ pc'[caller[n]] = pc[caller[n]]
  BY <1>1, <1>2, <1>3 DEF StackInv
<1>7. StackInv'
  <2>1. pc'[1] # "idle"
    BY <1>1, <1>2 DEF StackInv
  <2>2. status' = "running" => cur' \in Node /\ Active(cur)'
    BY <1>1, <1>2, <1>3 DEF StackInv
  <2>3. \A n \in Node : Active(n)' => \A a \in Path(n) : Active(a)'
    <3>1. \A n \in Node : Path(n) \subseteq Node
      BY <1>1, PathFacts
    <3> QED BY <1>1, <1>3, <1>4, <3>1 DEF StackInv
  <2>4. \A n \in Node \ {1} : Active(n)' =>
          /\ caller'[n] # cur' /\ caller'[n] \in Node /\ pc'[caller'[n]] \notin {"idle", "done"}
          /\ \/ pc'[caller'[n]] \in {"children", "arguments"} /\ Parent(n) = caller'[n]
             \/ pc'[caller'[n]] = "branch" /\ n = OtherBranch(caller'[n])
    <3>1. ASSUME NEW n \in Node \ {1}, Active(n)'
          PROVE  caller[n] # caller[cur]
      BY <1>1, <1>3, <1>5, <3>1 DEF StackInv
    <3> QED BY <1>1, <1>2, <1>6, <3>1 DEF StackInv, Active
  <2>5. \A n, m \in Node \ {1} : Active(n)' /\ Active(m)' /\ caller'[n] = caller'[m] => n = m
    BY <1>1, <1>2, <1>3 DEF StackInv
  <2>6. \A n, m \in Node \ {1} :
          /\ Active(n)' /\ Active(m)'
          /\ pc'[caller'[n]] = "branch" /\ pc'[caller'[m]] = "branch"
          => ~(m \in Path(caller'[n]) /\ n \in Path(caller'[m]))
    BY <1>1, <1>2, <1>6 DEF StackInv
  <2> QED BY <2>1, <2>2, <2>3, <2>4, <2>5, <2>6, StackAfter
<1>8. MarkInv'
  <2>1. cur # 1 /\ Kind(Parent(cur)) # "function_call" => mark'[cur] = "VISITED"
    <3>1. SUFFICES ASSUME cur # 1, pc[caller[cur]] = "arguments"
                   PROVE  Kind(Parent(cur)) = "function_call"
      BY <1>1 DEF Return
    <3>2. caller[cur] \in Node /\ Parent(cur) = caller[cur]
      BY <1>1, <3>1 DEF StackInv
    <3> QED BY <3>1, <3>2 DEF WalkInductive, Inductive, Bookkeeping
  <2>2. \A n \in Node : n # cur => mark'[n] = mark[n]
    BY <1>1 DEF Return
  <2>3. mark'[cur] = "NOT_VISITED" => mark[cur] = "NOT_VISITED"
    BY <1>1 DEF Return
  <2> QED BY <1>1, <1>2, <2>1, <2>2, <2>3, MarksAfter DEF MarkInv
<1>9. ProgressInv'
  <2>1. \A n \in Node : at[n] \in Nat /\ at[n] <= Len(Children(n)) /\ Len(Children(n)) \in Nat
    BY <1>1, ProgramFacts DEF WalkInductive, Inductive, TypeOK, Bookkeeping
  <2>2. \A n \in Node : \A i \in 1 .. Len(Children(n)) : Child(n, i) \in Node
    BY <1>1, ProgramFacts
  <2>3. \A n \in Node : \A i \in 1 .. at[n] : pc'[Child(n, i)] # "idle"
    BY <1>1, <1>2, <2>1, <2>2 DEF ProgressInv
  <2>4. \A n \in Node : Kind(n) = "function_call" =>
          \A i \in at[n] + 1 .. Len(Children(n)) : pc'[Child(n, i)] = "idle"
    BY <1>1, <1>2, <2>1, <2>2 DEF ProgressInv, Active
  <2>5. \A n \in Node : pc'[n] = "done" =>
          \A c \in Node \ {1} : Parent(c) = n /\ ~Optional(c) => pc'[c] = "done"
    BY <1>1, <1>2, ChildrenEnded DEF ProgressInv
  <2>6. status' = "accepted" => pc'[1] = "done"
    BY <1>1, <1>2
  <2> QED BY <1>1, <1>2, <2>3, <2>4, <2>5, <2>6, ProgressAfter DEF ProgressInv
<1> QED BY <1>7, <1>8, <1>9

-----------------------------------------------------------------------------
(* The walk, seen from the abstract specification                          *)

\* What is proved of every step: it keeps the invariant, is a step of the abstract
\* walk or none, and starts only what has not been started.
StartsOnce == \A n \in Node : pc'[n] = "enter" /\ pc[n] # "enter" => pc[n] = "idle"
GoodStep == StackInv' /\ MarkInv' /\ ProgressInv' /\ [Walk!Next]_(Walk!vars) /\ StartsOnce

LEMMA TreeSeen ==
  ASSUME prog' = prog
  PROVE  /\ [n \in Node |-> Parent(n)]' = [n \in Node |-> Parent(n)]
         /\ {n \in Node : Kind(n) = "formal" /\ Kind(Parent(n)) = "extern_function"}'
            = {n \in Node : Kind(n) = "formal" /\ Kind(Parent(n)) = "extern_function"}
BY DEF Node, Parent, Kind

\* A step after which the same handlers are idle and done.
LEMMA Unseen ==
  ASSUME UNCHANGED <<prog, status>>,
         \A n \in Node : /\ pc'[n] = "idle" <=> pc[n] = "idle"
                         /\ pc'[n] = "done" <=> pc[n] = "done"
  PROVE  [Walk!Next]_(Walk!vars)
<1>1. /\ {n \in Node : pc[n] # "idle"}' = {n \in Node : pc[n] # "idle"}
      /\ {n \in Node : pc[n] = "done"}' = {n \in Node : pc[n] = "done"}
  BY SameTree
<1>2. UNCHANGED Walk!vars
  BY <1>1, TreeSeen DEF Walk!vars
<1> QED BY <1>2

LEMMA BeginSeen ==
  ASSUME status = "running", NEW c \in Node \ {1}, pc[c] = "idle",
         Parent(c) \in Node, Active(Parent(c)), UNCHANGED <<prog, status>>,
         \A n \in Node : /\ pc'[n] = "idle" <=> pc[n] = "idle" /\ n # c
                         /\ pc'[n] = "done" <=> pc[n] = "done"
  PROVE  [Walk!Next]_(Walk!vars)
<1>1. Walk!Node = Node
  BY DEF Walk!Node
<1>2. /\ {n \in Node : pc[n] # "idle"}' = {n \in Node : pc[n] # "idle"} \cup {c}
      /\ {n \in Node : pc[n] = "done"}' = {n \in Node : pc[n] = "done"}
  BY SameTree
<1>3. [n \in Node |-> Parent(n)][c] \in {n \in Node : pc[n] # "idle"} \ {n \in Node : pc[n] = "done"}
  BY DEF Active
<1>4. Walk!Begin(c)
  BY <1>2, <1>3, TreeSeen DEF Walk!Begin, Walk!InProgress
<1> QED BY <1>1, <1>4 DEF Walk!Next

LEMMA EndSeen ==
  ASSUME prog \in Programs, status = "running", NEW e \in Node, Active(e), prog' = prog,
         \A c \in Node \ {1} : Parent(c) = e /\ ~Optional(c) => pc[c] = "done",
         \A n \in Node : pc'[n] = IF n = e THEN "done" ELSE pc[n],
         status' = IF e = 1 THEN "accepted" ELSE status
  PROVE  [Walk!Next]_(Walk!vars)
<1>1. Walk!Node = Node
  BY DEF Walk!Node
<1>2. /\ {n \in Node : pc[n] # "idle"}' = {n \in Node : pc[n] # "idle"}
      /\ {n \in Node : pc[n] = "done"}' = {n \in Node : pc[n] = "done"} \cup {e}
      /\ e \in {n \in Node : pc[n] # "idle"} \ {n \in Node : pc[n] = "done"}
  BY SameTree DEF Active
<1>3. \A c \in Node : Parent(c) = e => c # 1
  BY TreeFacts, ProgramFacts
<1>4. \A c \in Node \ {n \in Node : Kind(n) = "formal" /\ Kind(Parent(n)) = "extern_function"} :
        [n \in Node |-> Parent(n)][c] = e => c \in {n \in Node : pc[n] = "done"}
  BY <1>3 DEF Optional
<1>5. status' = IF [n \in Node |-> Parent(n)][e] = 0 THEN "accepted" ELSE "running"
  <2>1. Parent(e) = 0 <=> e = 1
    BY TreeFacts
  <2> QED BY <2>1
<1>6. Walk!End(e)
  BY <1>1, <1>2, <1>4, <1>5, TreeSeen DEF Walk!End, Walk!InProgress
<1>7. \E n \in Walk!Node : Walk!End(n)
  BY <1>1, <1>6
<1> QED BY <1>7 DEF Walk!Next

LEMMA RefuseSeen ==
  ASSUME status = "running", status' \in {"rejected", "crashed"}, UNCHANGED <<prog, pc>>
  PROVE  [Walk!Next]_(Walk!vars)
<1>1. /\ {n \in Node : pc[n] # "idle"}' = {n \in Node : pc[n] # "idle"}
      /\ {n \in Node : pc[n] = "done"}' = {n \in Node : pc[n] = "done"}
  BY SameTree
<1>2. Walk!Refuse
  BY <1>1, TreeSeen DEF Walk!Refuse
<1> QED BY <1>2 DEF Walk!Next

-----------------------------------------------------------------------------
(* Every action makes a good step                                          *)

LEMMA StopGood ==
  ASSUME WalkInductive, status = "running", NEW V \in SUBSET {"rejected", "crashed"}, Stop(V)
  PROVE  GoodStep
<1>1. /\ UNCHANGED <<prog, cur, pc, at, caller, mark>>
      /\ status' \in {"rejected", "crashed"} /\ StackInv /\ MarkInv /\ ProgressInv
  BY DEF Stop, WalkInductive
<1>2. StackInv'
  <2>1. \A n : Active(n)' <=> Active(n)
    BY <1>1 DEF Active
  <2> QED BY <1>1, <2>1, StackAfter DEF StackInv, Active
<1>3. MarkInv'
  BY <1>1, MarksAfter DEF MarkInv
<1>4. ProgressInv'
  BY <1>1, ProgressAfter DEF ProgressInv
<1>5. [Walk!Next]_(Walk!vars)
  BY <1>1, RefuseSeen
<1> QED BY <1>1, <1>2, <1>3, <1>4, <1>5 DEF GoodStep, StartsOnce

LEMMA ReturnGood ==
  ASSUME WalkInductive, status = "running", cur \in Node, NEW t, Return(t), prog' = prog,
         \A i \in 1 .. Len(Children(cur)) : Optional(Child(cur, i)) \/ pc[Child(cur, i)] # "idle"
  PROVE  GoodStep
<1>1. StackInv' /\ MarkInv' /\ ProgressInv'
  BY ReturnWalk
<1>2. pc \in [Node -> Progress] /\ prog \in Programs /\ Active(cur)
  BY DEF WalkInductive, Inductive, TypeOK, StackInv
<1>3. /\ \A n \in Node : pc'[n] = IF n = cur THEN "done" ELSE pc[n]
      /\ status' = IF cur = 1 THEN "accepted" ELSE status
  BY <1>2 DEF Return
<1>4. PICK e \in Node : e = cur
  OBVIOUS
<1>5. \A c \in Node \ {1} : Parent(c) = e /\ ~Optional(c) => pc[c] = "done"
  BY <1>4, ChildrenEnded
<1>6. [Walk!Next]_(Walk!vars)
  BY <1>2, <1>3, <1>4, <1>5, EndSeen
<1> QED BY <1>1, <1>3, <1>6 DEF GoodStep, StartsOnce

LEMMA GoOnGood ==
  ASSUME WalkInductive, cur \in Node, pc[cur] = "enter", NEW q \in {"children", "arguments"},
         q = "children" => Kind(cur) # "function_call", GoOn(q),
         UNCHANGED <<prog, at, mark, status>>
  PROVE  GoodStep
<1>1. StackInv' /\ MarkInv' /\ ProgressInv'
  BY GoOnWalk
<1>2. pc \in [Node -> Progress]
  BY DEF WalkInductive, Inductive, TypeOK
<1>3. \A n \in Node : pc'[n] = IF n = cur THEN q ELSE pc[n]
  BY <1>2 DEF GoOn
<1>4. [Walk!Next]_(Walk!vars)
  BY <1>3, Unseen
<1> QED BY <1>1, <1>3, <1>4 DEF GoodStep, StartsOnce

\* A step to the next child, argument or branch starts it.
LEMMA AcceptGood ==
  ASSUME WalkInductive, status = "running", cur \in Node, Active(cur),
         NEW c \in Node \ {1}, pc[c] = "idle", Active(Parent(c)), NEW q, Accept(c, q),
         UNCHANGED <<prog, status>>,
         \/ q \in {"children", "arguments"} /\ q = pc[cur] /\ Parent(c) = cur
         \/ q = "branch" /\ pc[cur] = "arguments" /\ c = OtherBranch(cur),
         MarkInv', ProgressInv'
  PROVE  GoodStep
<1>1. /\ StackInv'
      /\ \A n \in Node : pc'[n] = IF n = c THEN "enter" ELSE IF n = cur THEN q ELSE pc[n]
  BY AcceptWalk
<1>2. Parent(c) \in Node
  BY TreeFacts DEF WalkInductive, Inductive
<1>3. \A n \in Node : /\ pc'[n] = "idle" <=> pc[n] = "idle" /\ n # c
                      /\ pc'[n] = "done" <=> pc[n] = "done"
  BY <1>1 DEF Active
<1>4. [Walk!Next]_(Walk!vars)
  BY <1>2, <1>3, BeginSeen
<1>5. StartsOnce
  BY <1>1 DEF StartsOnce
<1> QED BY <1>1, <1>4, <1>5 DEF GoodStep

\* The next child of a handler, and what counting it does.
LEMMA NextChildFacts ==
  ASSUME WalkInductive, cur \in Node, at[cur] < Len(Children(cur)), Advance
  PROVE  /\ NextChild \in Node \ {1} /\ Parent(NextChild) = cur /\ ~Active(NextChild)
         /\ at[cur] + 1 \in 1 .. Len(Children(cur)) /\ NextChild = Child(cur, at[cur] + 1)
         /\ \A n \in Node : /\ at[n] \in Nat /\ Len(Children(n)) \in Nat /\ at[n] <= Len(Children(n))
                            /\ at'[n] = IF n = cur THEN at[n] + 1 ELSE at[n]
         /\ \A n \in Node : \A i \in 1 .. Len(Children(n)) :
              /\ Child(n, i) \in Node /\ Parent(Child(n, i)) = n
              /\ Child(n, i) = NextChild => n = cur /\ i = at[cur] + 1
<1>1. prog \in Programs /\ at \in [Node -> Nat]
  BY DEF WalkInductive, Inductive, TypeOK
<1>2. \A n \in Node : at[n] \in Nat /\ Len(Children(n)) \in Nat /\ at[n] <= Len(Children(n))
  BY <1>1, ProgramFacts DEF WalkInductive, Inductive, Bookkeeping
<1>3. at[cur] + 1 \in 1 .. Len(Children(cur)) /\ NextChild = Child(cur, at[cur] + 1)
  BY <1>2 DEF NextChild
<1>4. \A n \in Node : \A i \in 1 .. Len(Children(n)) :
        /\ Child(n, i) \in Node \ {1} /\ Parent(Child(n, i)) = n
        /\ \A j \in 1 .. Len(Children(n)) : Child(n, i) = Child(n, j) => i = j
  BY <1>1, TreeFacts
<1>5. NextChild \in Node \ {1} /\ Parent(NextChild) = cur
  BY <1>3, <1>4
<1>6. ~Active(NextChild)
  <2>1. PICK c \in Node \ {1} : c = NextChild
    BY <1>5
  <2> QED BY <1>5, <2>1, NoActiveChild
<1>7. \A n \in Node : \A i \in 1 .. Len(Children(n)) :
        Child(n, i) = NextChild => n = cur /\ i = at[cur] + 1
  BY <1>3, <1>4, <1>5
<1>8. \A n \in Node : at'[n] = IF n = cur THEN at[n] + 1 ELSE at[n]
  BY <1>1 DEF Advance
<1> QED BY <1>2, <1>3, <1>4, <1>5, <1>6, <1>7, <1>8

LEMMA SkipGood == ASSUME WalkInductive, SkipVisitedChild PROVE GoodStep
<1>1. /\ cur \in Node /\ at[cur] < Len(Children(cur)) /\ Advance /\ mark[NextChild] = "VISITED"
      /\ UNCHANGED <<prog, cur, pc, caller, mark, status>>
      /\ StackInv /\ MarkInv /\ ProgressInv
  BY DEF SkipVisitedChild, MoreChildren, WalkInductive
<1>2. /\ NextChild \in Node /\ NextChild = Child(cur, at[cur] + 1) /\ pc[cur] = "children"
      /\ \A n \in Node : /\ at[n] \in Nat /\ Len(Children(n)) \in Nat /\ at[n] <= Len(Children(n))
                         /\ at'[n] = IF n = cur THEN at[n] + 1 ELSE at[n]
  BY <1>1, NextChildFacts DEF SkipVisitedChild, MoreChildren
<1>3. pc[NextChild] = "done"
  BY <1>1, <1>2 DEF MarkInv
<1>4. \A n \in Node : \A i \in 1 .. at'[n] : pc[Child(n, i)] # "idle"
  <2>1. ASSUME NEW n \in Node, NEW i \in 1 .. at'[n]
        PROVE  i \in 1 .. at[n] \/ (n = cur /\ i = at[cur] + 1)
    BY <1>2, <2>1
  <2> QED BY <1>1, <1>2, <1>3, <2>1 DEF ProgressInv
<1>5. \A n \in Node : Kind(n) = "function_call" => at'[n] = at[n]
  BY <1>1, <1>2 DEF ProgressInv
<1>6. \A n \in Node : pc[n] = "branch" => at'[n] = at[n]
  BY <1>2
<1>7. StackInv'
  <2>1. \A n : Active(n)' <=> Active(n)
    BY <1>1 DEF Active
  <2> QED BY <1>1, <2>1, StackAfter DEF StackInv, Active
<1>8. MarkInv'
  BY <1>1, MarksAfter DEF MarkInv
<1>9. ProgressInv'
  BY <1>1, <1>4, <1>5, <1>6, ProgressAfter DEF ProgressInv
<1>10. [Walk!Next]_(Walk!vars)
  BY <1>1, Unseen
<1> QED BY <1>1, <1>7, <1>8, <1>9, <1>10 DEF GoodStep, StartsOnce

\* A child that is not marked visited has not been started: had its handler
\* returned it would be marked, and in progress it cannot be.
LEMMA ChildGood == ASSUME WalkInductive, VisitChild PROVE GoodStep
<1>1. /\ status = "running" /\ cur \in Node /\ pc[cur] = "children"
      /\ at[cur] < Len(Children(cur)) /\ Advance /\ mark[NextChild] # "VISITED"
      /\ mark' = [mark EXCEPT ![NextChild] = "VISITING"] /\ Accept(NextChild, "children")
      /\ UNCHANGED <<prog, status>> /\ StackInv /\ MarkInv /\ ProgressInv
      /\ mark \in [Node -> Marks] /\ pc \in [Node -> Progress]
  BY DEF VisitChild, MoreChildren, WalkInductive, Inductive, TypeOK
<1>2. PICK c \in Node \ {1} : c = NextChild
  BY <1>1, NextChildFacts
<1>3. /\ Parent(c) = cur /\ ~Active(c) /\ at[cur] + 1 \in 1 .. Len(Children(cur))
      /\ c = Child(cur, at[cur] + 1)
      /\ \A n \in Node : /\ at[n] \in Nat /\ Len(Children(n)) \in Nat /\ at[n] <= Len(Children(n))
                         /\ at'[n] = IF n = cur THEN at[n] + 1 ELSE at[n]
      /\ \A n \in Node : \A i \in 1 .. Len(Children(n)) :
           Child(n, i) \in Node /\ (Child(n, i) = c => n = cur)
  BY <1>1, <1>2, NextChildFacts
<1>4. Kind(cur) # "function_call"
  BY <1>1 DEF ProgressInv
<1>5. pc[c] = "idle" /\ Active(cur)
  BY <1>1, <1>2, <1>3, <1>4 DEF MarkInv, Active
<1>6. \A n \in Node : pc'[n] = IF n = c THEN "enter" ELSE pc[n]
  BY <1>1, <1>2, <1>5 DEF Accept
<1>7. MarkInv'
  <2>1. \A n \in Node : mark'[n] = IF n = c THEN "VISITING" ELSE mark[n]
    BY <1>1, <1>2
  <2> QED BY <1>1, <1>5, <1>6, <2>1, MarksAfter DEF MarkInv
<1>8. ProgressInv'
  <2>1. \A n \in Node : /\ pc'[n] = "children" => Kind(n) # "function_call"
                        /\ pc'[n] = "branch" => at'[n] = Len(Children(n))
    BY <1>1, <1>3, <1>6 DEF ProgressInv
  <2>2. ASSUME NEW n \in Node, NEW i \in 1 .. at'[n]
        PROVE  pc'[Child(n, i)] # "idle"
    <3>1. i \in 1 .. at[n] \/ (n = cur /\ i = at[cur] + 1)
      BY <1>3, <2>2
    <3>2. i \in 1 .. Len(Children(n)) /\ Child(n, i) \in Node
      BY <1>3, <3>1
    <3> QED BY <1>1, <1>3, <1>6, <3>1, <3>2 DEF ProgressInv
  <2>3. ASSUME NEW n \in Node, Kind(n) = "function_call",
               NEW i \in at'[n] + 1 .. Len(Children(n))
        PROVE  pc'[Child(n, i)] = "idle"
    <3>1. n # cur /\ at'[n] = at[n] /\ i \in 1 .. Len(Children(n))
      BY <1>3, <1>4, <2>3
    <3>2. Child(n, i) # c /\ Child(n, i) \in Node
      BY <1>3, <3>1
    <3> QED BY <1>1, <1>6, <2>3, <3>1, <3>2 DEF ProgressInv
  <2>4. \A n \in Node : pc'[n] = "done" =>
          \A d \in Node \ {1} : Parent(d) = n /\ ~Optional(d) => pc'[d] = "done"
    BY <1>1, <1>5, <1>6 DEF ProgressInv
  <2>5. status' = "accepted" => pc'[1] = "done"
    BY <1>1
  <2> QED BY <1>1, <2>1, <2>2, <2>3, <2>4, <2>5, ProgressAfter
<1>9. Accept(c, "children")
  BY <1>1, <1>2
<1> QED BY <1>1, <1>3, <1>5, <1>7, <1>8, <1>9, AcceptGood

\* Arguments come without marks, but one after the other.
LEMMA ArgumentGood == ASSUME WalkInductive, VisitArgument PROVE GoodStep
<1>1. /\ status = "running" /\ cur \in Node /\ pc[cur] = "arguments"
      /\ at[cur] < Len(Children(cur)) /\ Advance /\ Accept(NextChild, "arguments")
      /\ UNCHANGED <<prog, mark, status>> /\ StackInv /\ MarkInv /\ ProgressInv
      /\ pc \in [Node -> Progress]
  BY DEF VisitArgument, Passing, WalkInductive, Inductive, TypeOK
<1>2. PICK c \in Node \ {1} : c = NextChild
  BY <1>1, NextChildFacts
<1>3. /\ Parent(c) = cur /\ ~Active(c) /\ at[cur] + 1 \in 1 .. Len(Children(cur))
      /\ c = Child(cur, at[cur] + 1)
      /\ \A n \in Node : /\ at[n] \in Nat /\ Len(Children(n)) \in Nat /\ at[n] <= Len(Children(n))
                         /\ at'[n] = IF n = cur THEN at[n] + 1 ELSE at[n]
      /\ \A n \in Node : \A i \in 1 .. Len(Children(n)) :
           Child(n, i) \in Node /\ (Child(n, i) = c => n = cur /\ i = at[cur] + 1)
  BY <1>1, <1>2, NextChildFacts
<1>4. Kind(cur) = "function_call"
  BY <1>1 DEF WalkInductive, Inductive, Bookkeeping
<1>5. pc[c] = "idle" /\ Active(cur)
  <2>1. at[cur] + 1 \in at[cur] + 1 .. Len(Children(cur))
    BY <1>1, <1>3
  <2> QED BY <1>1, <1>3, <1>4, <2>1 DEF ProgressInv, Active
<1>6. \A n \in Node : pc'[n] = IF n = c THEN "enter" ELSE pc[n]
  BY <1>1, <1>2, <1>5 DEF Accept
<1>7. MarkInv'
  <2>1. mark[c] # "VISITED"
    BY <1>1, <1>5 DEF MarkInv
  <2> QED BY <1>1, <1>3, <1>4, <1>6, <2>1, MarksAfter DEF MarkInv
<1>8. ProgressInv'
  <2>1. \A n \in Node : /\ pc'[n] = "children" => Kind(n) # "function_call"
                        /\ pc'[n] = "branch" => at'[n] = Len(Children(n))
    BY <1>1, <1>3, <1>6 DEF ProgressInv
  <2>2. ASSUME NEW n \in Node, NEW i \in 1 .. at'[n]
        PROVE  pc'[Child(n, i)] # "idle"
    <3>1. i \in 1 .. at[n] \/ (n = cur /\ i = at[cur] + 1)
      BY <1>3, <2>2
    <3>2. i \in 1 .. Len(Children(n)) /\ Child(n, i) \in Node
      BY <1>3, <3>1
    <3> QED BY <1>1, <1>3, <1>6, <3>1, <3>2 DEF ProgressInv
  <2>3. ASSUME NEW n \in Node, Kind(n) = "function_call",
               NEW i \in at'[n] + 1 .. Len(Children(n))
        PROVE  pc'[Child(n, i)] = "idle"
    <3>1. /\ i \in at[n] + 1 .. Len(Children(n)) /\ i \in 1 .. Len(Children(n))
          /\ ~(n = cur /\ i = at[cur] + 1)
      BY <1>3, <2>3
    <3>2. Child(n, i) # c /\ Child(n, i) \in Node
      BY <1>3, <3>1
    <3> QED BY <1>1, <1>6, <2>3, <3>1, <3>2 DEF ProgressInv
  <2>4. \A n \in Node : pc'[n] = "done" =>
          \A d \in Node \ {1} : Parent(d) = n /\ ~Optional(d) => pc'[d] = "done"
    BY <1>1, <1>5, <1>6 DEF ProgressInv
  <2>5. status' = "accepted" => pc'[1] = "done"
    BY <1>1
  <2> QED BY <1>1, <2>1, <2>2, <2>3, <2>4, <2>5, ProgressAfter
<1>9. Accept(c, "arguments")
  BY <1>1, <1>2
<1> QED BY <1>1, <1>3, <1>5, <1>7, <1>8, <1>9, AcceptGood

\* The other branch has no mark, hence was not started.
LEMMA BranchGood == ASSUME WalkInductive, VisitOtherBranch PROVE GoodStep
<1>1. /\ status = "running" /\ cur \in Node /\ pc[cur] = "arguments"
      /\ at[cur] = Len(Children(cur)) /\ EnclosingIf(cur) # 0
      /\ mark[OtherBranch(cur)] = "NOT_VISITED"
      /\ mark' = [mark EXCEPT ![OtherBranch(cur)] = "VISITING"]
      /\ Accept(OtherBranch(cur), "branch")
      /\ UNCHANGED <<prog, at, status>> /\ StackInv /\ MarkInv /\ ProgressInv
      /\ mark \in [Node -> Marks] /\ pc \in [Node -> Progress] /\ prog \in Programs
  BY DEF VisitOtherBranch, ArgumentsPassed, Passing, MustVisitBranch, Unresolvable,
         WalkInductive, Inductive, TypeOK
<1>2. /\ OtherBranch(cur) \in Node \ {1} /\ Kind(Parent(OtherBranch(cur))) = "if_expr"
      /\ Parent(OtherBranch(cur)) \in Path(cur)
  BY <1>1, OtherBranchFacts
<1>3. PICK c \in Node \ {1} : c = OtherBranch(cur)
  BY <1>2
<1>4. pc[c] = "idle" /\ Active(cur)
  BY <1>1, <1>2, <1>3 DEF MarkInv, Active
<1>5. Active(Parent(c))
  BY <1>1, <1>2, <1>3, <1>4 DEF StackInv
<1>6. \A n \in Node : pc'[n] = IF n = c THEN "enter" ELSE IF n = cur THEN "branch" ELSE pc[n]
  BY <1>1, <1>3, <1>4 DEF Accept, Active
<1>7. MarkInv'
  <2>1. \A n \in Node : mark'[n] = IF n = c THEN "VISITING" ELSE mark[n]
    BY <1>1, <1>3
  <2> QED BY <1>1, <1>4, <1>6, <2>1, MarksAfter DEF MarkInv, Active
<1>8. ProgressInv'
  <2>1. \A n \in Node : /\ at[n] \in Nat /\ Len(Children(n)) \in Nat /\ at[n] <= Len(Children(n))
                        /\ \A i \in 1 .. Len(Children(n)) :
                             Child(n, i) \in Node /\ Parent(Child(n, i)) = n
    BY <1>1, TreeFacts, ProgramFacts DEF WalkInductive, Inductive, TypeOK, Bookkeeping
  <2>2. \A n \in Node : /\ pc'[n] = "children" => Kind(n) # "function_call"
                        /\ pc'[n] = "branch" => at[n] = Len(Children(n))
    BY <1>1, <1>6 DEF ProgressInv
  <2>3. ASSUME NEW n \in Node, NEW i \in 1 .. at[n]
        PROVE  pc'[Child(n, i)] # "idle"
    <3>1. Child(n, i) \in Node
      BY <2>1
    <3> QED BY <1>1, <1>6, <3>1 DEF ProgressInv
  <2>4. ASSUME NEW n \in Node, Kind(n) = "function_call",
               NEW i \in at[n] + 1 .. Len(Children(n))
        PROVE  pc'[Child(n, i)] = "idle"
    <3>1. i \in 1 .. Len(Children(n))
      BY <2>1, <2>4
    <3>2. Child(n, i) \in Node /\ Child(n, i) # c
      BY <1>2, <1>3, <2>1, <2>4, <3>1
    <3>3. pc[Child(n, i)] = "idle"
      BY <1>1, <2>4 DEF ProgressInv
    <3> QED BY <1>4, <1>6, <3>2, <3>3 DEF Active
  <2>5. \A n \in Node : pc'[n] = "done" =>
          \A d \in Node \ {1} : Parent(d) = n /\ ~Optional(d) => pc'[d] = "done"
    BY <1>1, <1>4, <1>6 DEF ProgressInv, Active
  <2>6. status' = "accepted" => pc'[1] = "done"
    BY <1>1
  <2> QED BY <1>1, <2>2, <2>3, <2>4, <2>5, <2>6, ProgressAfter
<1>9. Accept(c, "branch")
  BY <1>1, <1>3
<1> QED BY <1>1, <1>3, <1>4, <1>5, <1>7, <1>8, <1>9, AcceptGood

LEMMA ConcludeGood ==
  ASSUME WalkInductive, status = "running", cur \in Node, NEW r, Conclude(r),
         \A i \in 1 .. Len(Children(cur)) : Optional(Child(cur, i)) \/ pc[Child(cur, i)] # "idle"
  PROVE  GoodStep
<1>1. Verdict(r) \in SUBSET {"rejected", "crashed"}
  BY DEF Verdict
<1>2. CASE Stop(Verdict(r))
  BY <1>1, <1>2, StopGood
<1>3. CASE Return(r) /\ UNCHANGED <<prog, tables, resolved>>
  BY <1>3, ReturnGood
<1> QED BY <1>2, <1>3 DEF Conclude

\* A handler leaves once it has gone through all its children.
LEMMA LeavingFacts ==
  ASSUME WalkInductive, NEW K, Leaving(K)
  PROVE  /\ status = "running" /\ cur \in Node
         /\ \A i \in 1 .. Len(Children(cur)) : pc[Child(cur, i)] # "idle"
BY DEF WalkInductive, ProgressInv, Leaving, Running

LEMMA EnteringFacts ==
  ASSUME NEW K, Entering(K)
  PROVE  status = "running" /\ cur \in Node /\ Kind(cur) \in K /\ pc[cur] = "enter"
BY DEF Entering, Running

LEMMA BeginningGood ==
  ASSUME WalkInductive,
         \/ VisitUnscoped \/ VisitFunctionBody \/ VisitScopedExpression \/ VisitLambda
         \/ VisitFunctionDefinition \/ VisitVariableDefinition
  PROVE  GoodStep
<1>1. \E K : Entering(K) /\ "function_call" \notin K
  <2>1. "function_call" \notin Unscoped /\ "function_call" \notin ScopedExpressions
    BY DEF Unscoped, ScopedExpressions
  <2> QED BY <2>1 DEF VisitUnscoped, VisitFunctionBody, VisitScopedExpression, VisitLambda,
                     VisitFunctionDefinition, VisitVariableDefinition
<1>2. BeginChildren
  BY DEF VisitUnscoped, VisitFunctionBody, VisitScopedExpression, VisitLambda,
         VisitFunctionDefinition, VisitVariableDefinition
<1>3. GoOn("children") /\ UNCHANGED <<prog, at, mark, status>>
  BY <1>2 DEF BeginChildren
<1> QED BY <1>1, <1>3, EnteringFacts, GoOnGood

LEMMA LeavingGood ==
  ASSUME WalkInductive,
         \/ LeaveOperator \/ LeaveIf \/ LeaveCallable \/ LeaveLoop
         \/ LeaveVariableDefinition \/ LeaveUntyped
  PROVE  GoodStep
<1>1. \E K, r : Leaving(K) /\ Conclude(r)
  BY DEF LeaveOperator, LeaveIf, LeaveCallable, LeaveLoop, LeaveVariableDefinition, LeaveUntyped
<1> QED BY <1>1, LeavingFacts, ConcludeGood

LEMMA DefinitionGood ==
  ASSUME WalkInductive, RejectDefinition \/ VisitFormalOrExtern \/ LeaveIterator
  PROVE  GoodStep
<1>1. CASE RejectDefinition
  <2>1. status = "running"
    BY <1>1 DEF RejectDefinition, Entering, Leaving, Running
  <2>2. Stop({"crashed"}) \/ \E d : Stop(ConflictVerdicts(cur, d))
    BY <1>1 DEF RejectDefinition
  <2>3. \A n, d : ConflictVerdicts(n, d) \in SUBSET {"rejected", "crashed"}
    BY DEF ConflictVerdicts
  <2> QED BY <2>1, <2>2, <2>3, StopGood
<1>2. CASE VisitFormalOrExtern
  <2>1. /\ status = "running" /\ cur \in Node /\ Kind(cur) \in {"formal", "extern_function"}
        /\ \E t : Return(t) /\ prog' = prog
    BY <1>2 DEF VisitFormalOrExtern, Entering, Running
  <2>2. prog \in Programs
    BY DEF WalkInductive, Inductive
  <2>3. \A i \in 1 .. Len(Children(cur)) : Optional(Child(cur, i))
    <3>1. CASE Kind(cur) = "formal"
      BY <2>1, <2>2, <3>1, TreeFacts
    <3>2. CASE Kind(cur) = "extern_function"
      BY <2>1, <2>2, <3>2, TreeFacts DEF Optional
    <3> QED BY <2>1, <3>1, <3>2
  <2> QED BY <2>1, <2>3, ReturnGood
<1>3. CASE LeaveIterator
  <2>1. \E K : Leaving(K)
    BY <1>3 DEF LeaveIterator
  <2>2. Stop(Verdict(IteratorType(cur))) \/ \E t : Return(t) /\ prog' = prog
    BY <1>3 DEF LeaveIterator
  <2>3. \A r : Verdict(r) \in SUBSET {"rejected", "crashed"}
    BY DEF Verdict
  <2> QED BY <2>1, <2>2, <2>3, LeavingFacts, StopGood, ReturnGood
<1> QED BY <1>1, <1>2, <1>3

LEMMA ResolvingGood ==
  ASSUME WalkInductive, VisitLiteral \/ ResolveVariable
  PROVE  GoodStep
<1>1. /\ status = "running" /\ cur \in Node
      /\ \A i \in 1 .. Len(Children(cur)) : pc[Child(cur, i)] # "idle"
  <2>1. prog \in Programs
    BY DEF WalkInductive, Inductive
  <2>2. CASE Leaving({"set_expression"})
    BY <2>2, LeavingFacts
  <2>3. CASE Entering({"variable"}) \/ Entering({"literal"})
    <3>1. status = "running" /\ cur \in Node /\ Kind(cur) \in {"variable", "literal"}
      BY <2>3, EnteringFacts
    <3> QED BY <2>1, <3>1, TreeFacts
  <2> QED BY <2>2, <2>3 DEF VisitLiteral, ResolveVariable
<1>2. \/ Stop({"rejected"}) \/ Stop({"crashed"})
      \/ \E t : Return(t) /\ prog' = prog
  BY DEF VisitLiteral, ResolveVariable
<1> QED BY <1>1, <1>2, StopGood, ReturnGood

LEMMA CallingGood ==
  ASSUME WalkInductive, VisitFunctionCall \/ RejectArgument \/ LeaveFunctionCall
  PROVE  GoodStep
<1>1. CASE VisitFunctionCall
  <2>1. Entering({"function_call"})
    BY <1>1 DEF VisitFunctionCall
  <2>2. \/ \E d : Stop(CallFailures(cur, d))
        \/ GoOn("arguments") /\ UNCHANGED <<prog, at, mark, status>>
    BY <1>1 DEF VisitFunctionCall
  <2>3. \A n, d : CallFailures(n, d) \in SUBSET {"rejected", "crashed"}
    BY DEF CallFailures
  <2>4. CASE \E d : Stop(CallFailures(cur, d))
    BY <2>1, <2>3, <2>4, EnteringFacts, StopGood
  <2>5. CASE GoOn("arguments") /\ UNCHANGED <<prog, at, mark, status>>
    BY <2>1, <2>5, EnteringFacts, GoOnGood
  <2> QED BY <2>2, <2>4, <2>5
<1>2. CASE RejectArgument
  <2>1. status = "running" /\ Stop(ArgumentFailure(cur))
    BY <1>2 DEF RejectArgument, Passing
  <2>2. ArgumentFailure(cur) \in SUBSET {"rejected", "crashed"}
    BY DEF ArgumentFailure, Verdict
  <2> QED BY <2>1, <2>2, StopGood
<1>3. CASE LeaveFunctionCall
  <2>1. status = "running" /\ cur \in Node /\ \E r : Conclude(r)
    BY <1>3 DEF LeaveFunctionCall, ArgumentsPassed, Passing, Running
  <2>2. at[cur] = Len(Children(cur))
    BY <1>3 DEF LeaveFunctionCall, ArgumentsPassed, Running, WalkInductive, ProgressInv
  <2>3. \A i \in 1 .. Len(Children(cur)) : pc[Child(cur, i)] # "idle"
    BY <2>1, <2>2 DEF WalkInductive, ProgressInv
  <2> QED BY <2>1, <2>3, ConcludeGood
<1> QED BY <1>1, <1>2, <1>3

LEMMA NextGood == WalkInductive /\ [Next]_vars => GoodStep
<1> SUFFICES ASSUME WalkInductive, [Next]_vars PROVE GoodStep
  OBVIOUS
<1>1. CASE Next
  BY <1>1, BeginningGood, LeavingGood, DefinitionGood, ResolvingGood, CallingGood, SkipGood,
     ChildGood, ArgumentGood, BranchGood DEF Next
<1>2. CASE UNCHANGED vars
  <2>1. /\ UNCHANGED <<prog, cur, pc, at, caller, mark, status>>
        /\ StackInv /\ MarkInv /\ ProgressInv
    BY <1>2 DEF vars, WalkInductive
  <2>2. StackInv'
    <3>1. \A n : Active(n)' <=> Active(n)
      BY <2>1 DEF Active
    <3> QED BY <2>1, <3>1, StackAfter DEF StackInv, Active
  <2>3. MarkInv' /\ ProgressInv'
    BY <2>1, MarksAfter, ProgressAfter DEF MarkInv, ProgressInv
  <2>4. [Walk!Next]_(Walk!vars)
    BY <2>1, Unseen
  <2> QED BY <2>1, <2>2, <2>3, <2>4 DEF GoodStep, StartsOnce
<1> QED BY <1>1, <1>2

-----------------------------------------------------------------------------
(* The theorems                                                            *)

LEMMA WalkInitially == Init => WalkInductive /\ Walk!Init
<1> SUFFICES ASSUME Init PROVE WalkInductive /\ Walk!Init
  OBVIOUS
<1>1. prog \in Programs /\ Inductive
  BY Initially DEF Init
<1>2. /\ Len(prog) \in Nat /\ Node = 1 .. Len(prog) /\ 1 \in Node /\ Kind(1) = "root"
      /\ \A n \in Node : Len(Children(n)) \in Nat
      /\ \A n \in Node : \A i \in 1 .. Len(Children(n)) : Child(n, i) \in Node \ {1}
      /\ \A n \in Node : (Parent(n) = 0) <=> (n = 1)
  BY <1>1, ProgramFacts, TreeFacts
<1>3. /\ cur = 1 /\ status = "running"
      /\ \A n \in Node : /\ pc[n] = IF n = 1 THEN "children" ELSE "idle"
                         /\ mark[n] = IF n = 1 THEN "VISITING" ELSE "NOT_VISITED"
                         /\ at[n] = 0
  BY DEF Init
<1>4. \A n \in Node : Active(n) <=> n = 1
  BY <1>3 DEF Active
<1>5. Path(1) = {1}
  <2>1. 1 \in Path(1)
    BY <1>1, <1>2, PathFacts
  <2> QED BY <2>1 DEF Path
<1>6. StackInv
  BY <1>2, <1>3, <1>4, <1>5 DEF StackInv
<1>7. MarkInv
  BY <1>2, <1>3 DEF MarkInv
<1>8. ProgressInv
  BY <1>2, <1>3 DEF ProgressInv
<1>9. Walk!Init
  <2>1. Walk!Node = Node
    BY DEF Walk!Node
  <2>2. {n \in Node : pc[n] # "idle"} = {n \in Node : [m \in Node |-> Parent(m)][n] = 0}
    BY <1>2, <1>3
  <2>3. {n \in Node : pc[n] = "done"} = {}
    BY <1>3
  <2> QED BY <1>3, <2>1, <2>2, <2>3 DEF Walk!Init
<1> QED BY <1>1, <1>6, <1>7, <1>8, <1>9 DEF WalkInductive

LEMMA WalkPreserved ==
  WalkInductive /\ [Next]_vars => WalkInductive' /\ [Walk!Next]_(Walk!vars) /\ StartsOnce
BY NextGood, Preserved DEF WalkInductive, GoodStep

\* For every program the analyzer's recursive visitor is a walk of module Traversal:
\* however the calls of accept are nested, and although the recursion rule leaves the
\* order of the tree, a node is begun once and under a parent in progress, ends when
\* nothing below it is missing, and the program is accepted when the root has ended.
THEOREM AnalysisIsAWalk == Spec => ImplementsTraversal
<1> QED BY WalkInitially, WalkPreserved, PTL DEF Spec, ImplementsTraversal, Walk!Spec

\* No handler is started for a node that has been started before, for every program:
\* no definition below a branch or an argument is declared a second time.
THEOREM NoHandlerStartsTwice == Spec => HandlersStartOnce
<1>1. WalkInductive /\ [Next]_vars =>
        [\A n \in Node : pc'[n] = "enter" /\ pc[n] # "enter" => pc[n] = "idle"]_vars
  BY WalkPreserved DEF StartsOnce
<1> QED BY <1>1, WalkInitially, WalkPreserved, PTL DEF Spec, HandlersStartOnce

\* A program that is accepted has been visited all over: no node that a branch taken
\* out of turn or a skipped child could have hidden is left without a verdict.
THEOREM AcceptedMeansVisited == Spec => []AcceptedIsComplete
<1>1. WalkInductive => AcceptedIsComplete
  <2> SUFFICES ASSUME WalkInductive, status = "accepted",
                      NEW bad \in Node, pc[bad] # "done", ~Optional(bad)
               PROVE  FALSE
    BY DEF AcceptedIsComplete, Optional
  <2>1. prog \in Programs /\ ProgressInv
    BY DEF WalkInductive, Inductive
  <2>2. Node = 1 .. Len(prog) /\ Len(prog) \in Nat
    BY <2>1, ProgramFacts
  <2> DEFINE S == {n \in Node : pc[n] # "done" /\ ~Optional(n)}
  <2>3. S \in SUBSET Nat /\ bad \in S
    BY <2>2
  <2>4. PICK n \in S : \A m \in S : n <= m
    <3> HIDE DEF S
    <3> QED BY <2>3, LeastElement
  <2>5. n \in Node \ {1} /\ pc[n] # "done" /\ ~Optional(n)
    BY <2>1 DEF ProgressInv
  <2>6. Parent(n) \in Node /\ Parent(n) < n
    BY <2>1, <2>2, <2>5, TreeOrder
  <2>7. Parent(n) \notin S
    BY <2>2, <2>4, <2>5, <2>6
  <2>8. ~Optional(Parent(n))
    <3>1. Len(Children(Parent(n))) # 0
      BY <2>1, <2>5, TreeFacts
    <3> QED BY <2>1, <2>6, <3>1, TreeFacts DEF Optional
  <2>9. pc[Parent(n)] = "done"
    BY <2>6, <2>7, <2>8
  <2> QED BY <2>1, <2>5, <2>6, <2>9 DEF ProgressInv
<1> QED BY <1>1, WalkInitially, WalkPreserved, PTL DEF Spec
=============================================================================
