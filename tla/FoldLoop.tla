------------------------------ MODULE FoldLoop -------------------------------
(***************************************************************************)
(* A fold of the runtime as the loop the code runs: the accumulator starts *)
(* as the head and takes in one element after the other.                   *)
(***************************************************************************)
EXTENDS ListFolds

CONSTANT MaxLen     \* longest list the folds are run on

LOCAL INSTANCE SequencesExt
LOCAL INSTANCE FiniteSetsExt

VARIABLES list, op, acc, at, status
vars == <<list, op, acc, at, status>>

Lists == UNION {[1 .. n -> Word] : n \in 0 .. MaxLen}

\* Mutant: the accumulator starts at 0 and takes in the head like the others.
InitAtZero ==
  /\ list \in Lists /\ op \in FoldOps
  /\ acc = 0
  /\ at = 0
  /\ status = "running"
\* The entry of the function: NULL gives 0, otherwise the head starts.
Init ==
  /\ list \in Lists /\ op \in FoldOps
  /\ acc = IF list = <<>> THEN 0 ELSE list[1]
  /\ at = 1
  /\ status = "running"

Step ==
  /\ status = "running" /\ at < Len(list)
  /\ ~Traps(op, acc, list[at + 1])
  /\ acc' = TakeIn(op, acc, list[at + 1]) /\ at' = at + 1
  /\ UNCHANGED <<list, op, status>>

Trap ==
  /\ status = "running" /\ at < Len(list)
  /\ Traps(op, acc, list[at + 1])
  /\ status' = "crashed"
  /\ UNCHANGED <<list, op, acc, at>>

\* Mutant: the end of the list is looked for past the last cell.
FinishBehind ==
  /\ status = "running" /\ at > Len(list)
  /\ status' = "finished"
  /\ UNCHANGED <<list, op, acc, at>>
\* *tail is NULL.
Finish ==
  /\ status = "running" /\ at >= Len(list)
  /\ status' = "finished"
  /\ UNCHANGED <<list, op, acc, at>>

Next == Step \/ Trap \/ Finish
Spec == Init /\ [][Next]_vars /\ WF_vars(Next)

-----------------------------------------------------------------------------
(* The reference: what the README's table calls sum, difference, product   *)
(* and division of a list, over the integers.                              *)

Congruent(x, y) == (x - y) % (2 ^ Width) = 0
Sum(s) == MapThenSumSet(LAMBDA i : s[i], DOMAIN s)
Product(s) == FoldLeft(LAMBDA a, b : a * b, 1, s)

\* Sum, difference and product of a list are right up to multiples of 2^Width,
\* however often a partial result has wrapped on the way (README.md:32-35).
FoldsAreExactModulo ==
  status = "finished" /\ list # <<>> =>
    /\ acc \in Word /\ acc = FoldOf(op, list).acc
    /\ op = "PLUS" => Congruent(acc, Sum(list))
    /\ op = "MINUS" => Congruent(acc, Head(list) - Sum(Tail(list)))
    /\ op = "TIMES" => Congruent(acc, Product(list))

\* Dividing by one element after the other, rounding every time, is dividing by
\* their product once.
DivisionIsByTheProduct ==
  status = "finished" /\ op = "DIVIDE" /\ list # <<>> =>
    /\ Product(Tail(list)) # 0
    /\ acc = Quotient(Head(list), Product(Tail(list)))

\* Every fold ends with a value or a trap, and only a division traps.
FoldsEnd == <>(status = "finished" \/ (status = "crashed" /\ op = "DIVIDE"))
=============================================================================
