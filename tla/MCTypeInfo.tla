----------------------------- MODULE MCTypeInfo -----------------------------
(***************************************************************************)
(* Checks the type algebra over every pair of types up to MaxDepth list    *)
(* constructors.  The one action stands for a program's expression getting *)
(* wrapped into a quoted list, the only way types grow.                    *)
(***************************************************************************)
EXTENDS TypeInfo, FiniteSets

CONSTANT MaxDepth

VARIABLES from, to
vars == <<from, to>>

Init == from \in {Scalar(i) : i \in TypeIds} /\ to \in {Scalar(i) : i \in TypeIds}

WrapFrom == from.depth < MaxDepth /\ from' = ListOf(from) /\ UNCHANGED to
WrapTo == to.depth < MaxDepth /\ to' = ListOf(to) /\ UNCHANGED from
WrapBoth ==
  /\ from.depth < MaxDepth /\ to.depth < MaxDepth
  /\ from' = ListOf(from) /\ to' = ListOf(to)

Next == WrapFrom \/ WrapTo \/ WrapBoth
Spec == Init /\ [][Next]_vars

\* The code's own recursion, as the reference for the closed form.
RECURSIVE EqualsByRecursion(_, _), ConvertsByRecursion(_, _)
EqualsByRecursion(a, b) ==
  /\ Id(a) = Id(b)
  /\ IsList(a) => /\ Subtype(a) # Null /\ Subtype(b) # Null
                  /\ EqualsByRecursion(Subtype(a), Subtype(b))
ConvertsByRecursion(a, b) ==
  IF IsList(a) /\ IsList(b)
  THEN \/ EqualsByRecursion(a, b)
       \/ /\ Subtype(a) # Null /\ Subtype(b) # Null
          /\ ConvertsByRecursion(Subtype(a), Subtype(b))
  ELSE Id(b) \in ScalarTargets(Id(a))

\* The closed form of converts_to and operator== used by the other modules is
\* the recursion of the code on every pair of types.
ClosedFormIsTheRecursion ==
  /\ ConvertsTo(from, to) <=> ConvertsByRecursion(from, to)
  /\ Equals(from, to) <=> EqualsByRecursion(from, to)

\* Wrapping both sides into a list never loses a conversion and, nil, variable
\* and open lists aside, never gains one: what visit_list checks on the elements
\* is what a list passed as an argument is checked for.
WrappingKeepsConversions ==
  [][WrapBoth => /\ ConvertsTo(from, to) => ConvertsTo(from', to')
                 /\ ConvertsTo(from', to') =>
                      ConvertsTo(from, to) \/ Equals(from, to)]_vars
=============================================================================
