------------------------------ MODULE TypeInfo ------------------------------
(***************************************************************************)
(* The type algebra of include/asw/type_info.hpp.                          *)
(*                                                                         *)
(* A type_info is a type_id and, for lists, a pointer to the type of the   *)
(* elements.  Chains of LIST nodes are the only nesting there is, so a     *)
(* type is written [base, depth]: `depth' list constructors around `base'. *)
(* The one LIST whose subtype pointer is null, which the parser builds for *)
(* every list expression, is [base |-> "LIST", depth |-> 0].               *)
(***************************************************************************)
EXTENDS Integers

\* enum class type_id
ScalarIds == {"INT", "FLOAT", "STRING", "BOOL", "LAMBDA", "VARIABLE", "NIL", "INVALID"}
TypeIds == ScalarIds \cup {"LIST"}

Type == [base : TypeIds, depth : Nat]

\* The null type_info pointer.
Null == [base |-> "NULL", depth |-> 0]

MaybeType == Type \cup {Null}

Scalar(id) == [base |-> id, depth |-> 0]
Unresolved == Scalar("VARIABLE")
OpenList == Scalar("LIST")
ListOf(t) == [base |-> t.base, depth |-> t.depth + 1]

\* The type_id field, and the subtype field (null for what is not a list).
Id(t) == IF t.depth > 0 THEN "LIST" ELSE t.base
IsList(t) == Id(t) = "LIST"
Subtype(t) == IF t.depth > 0 THEN [base |-> t.base, depth |-> t.depth - 1] ELSE Null

\* type_info::operator==: two lists are equal only through non-null subtypes.
Equals(a, b) == a = b /\ a.base # "LIST"

\* The table of converts_to for two type_ids that are not both LIST.
ScalarTargets(id) ==
  CASE id \in {"INT", "FLOAT", "BOOL"} -> {"STRING", "INT", "FLOAT", "BOOL"}
    [] id = "LAMBDA"                   -> {"LAMBDA"}
    [] id = "STRING"                   -> {"STRING", "BOOL"}
    [] id \in {"VARIABLE", "NIL", "LIST"} -> {"BOOL"}
    [] OTHER                           -> {}

\* Mutants: the comparison of equal lists is left out; so is the recursion.
ConvertsWithoutEquality(a, b) ==
  LET k == IF a.depth < b.depth THEN a.depth ELSE b.depth
      Peel(t) == [base |-> t.base, depth |-> t.depth - k]
  IN  Id(Peel(b)) \in ScalarTargets(Id(Peel(a)))
ConvertsWithoutElements(a, b) ==
  IF IsList(a) /\ IsList(b) THEN Equals(a, b) ELSE Id(b) \in ScalarTargets(Id(a))

(***************************************************************************)
(* type_info::converts_to.  Two lists convert when they are equal or when  *)
(* their element types convert; that recursion takes one list constructor  *)
(* off each side until one of them has none, so it is the scalar table on  *)
(* what is left (which holds no pair of LISTs).                            *)
(***************************************************************************)
ConvertsTo(a, b) ==
  LET k == IF a.depth < b.depth THEN a.depth ELSE b.depth
      Peel(t) == [base |-> t.base, depth |-> t.depth - k]
  IN  \/ IsList(a) /\ IsList(b) /\ Equals(a, b)
      \/ Id(Peel(b)) \in ScalarTargets(Id(Peel(a)))

\* type_to_str follows the subtype of every LIST it meets: it dereferences
\* null on a list that has none.
Printable(t) == t.base # "LIST"
=============================================================================
