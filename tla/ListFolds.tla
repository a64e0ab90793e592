------------------------------ MODULE ListFolds ------------------------------
(***************************************************************************)
(* The arithmetic of the runtime's folds, slc_int_list_add, _subtract,     *)
(* _multiply and _divide: machine words of a fixed width, and what taking  *)
(* in one more element of a list does to the accumulator.                  *)
(***************************************************************************)
EXTENDS Integers, Sequences

CONSTANT Width      \* bits of an int; 64 in the code

ASSUME WidthAssumption == Width \in Nat \ {0}

LOCAL INSTANCE SequencesExt

Least == -(2 ^ (Width - 1))
Word == Least .. (-Least - 1)
FoldOps == {"PLUS", "MINUS", "TIMES", "DIVIDE"}

\* Two's complement, what the machine leaves of a result that does not fit.
Wrap(x) == ((x - Least) % (2 ^ Width)) + Least

\* C's division rounds towards zero.
Abs(x) == IF x < 0 THEN -x ELSE x
Quotient(a, b) ==
  LET q == Abs(a) \div Abs(b) IN IF (a < 0) = (b < 0) THEN q ELSE -q

\* Division traps at zero, and where the quotient does not fit.
Traps(op, a, b) == op = "DIVIDE" /\ (b = 0 \/ (a = Least /\ b = -1))

\* Mutant: the difference is taken the other way round.
TakeInReversed(op, a, b) ==
  CASE op = "PLUS" -> Wrap(a + b)
    [] op = "MINUS" -> Wrap(b - a)
    [] op = "TIMES" -> Wrap(a * b)
    [] op = "DIVIDE" -> Quotient(a, b)
TakeIn(op, a, b) ==
  CASE op = "PLUS" -> Wrap(a + b)
    [] op = "MINUS" -> Wrap(a - b)
    [] op = "TIMES" -> Wrap(a * b)
    [] op = "DIVIDE" -> Quotient(a, b)

\* A fold of a whole list: what it returns, or that it traps on the way.
FoldOf(op, s) ==
  IF s = <<>> THEN [traps |-> FALSE, acc |-> 0]
  ELSE FoldLeft(LAMBDA r, b : IF r.traps \/ Traps(op, r.acc, b) THEN [r EXCEPT !.traps = TRUE]
                              ELSE [r EXCEPT !.acc = TakeIn(op, @, b)],
                [traps |-> FALSE, acc |-> Head(s)], Tail(s))
=============================================================================
