------------------------------ MODULE ListStore ------------------------------
(***************************************************************************)
(* What the compiled program's lists promise, as the README has it: a list *)
(* is a value.  Every operation makes a list out of others and changes     *)
(* none; cons puts an element in front, cdr leaves out the first, a        *)
(* collect loop makes a list of its own.                                   *)
(***************************************************************************)
EXTENDS ListFolds

CONSTANTS Register,  \* the program's list variables
          Elem,      \* its ints
          Nothing    \* no int

VARIABLES
  value,   \* [Register -> the list it holds]
  loops,   \* the loops the program is in, the innermost last
  did,     \* the last operation, and what it returned
  status   \* running, or crashed

vars == <<value, loops, did, status>>

LOCAL S == INSTANCE SequencesExt

\* A loop has elements left to go through, what the values of its body have
\* come to so far, and a register its list goes to.
Loop(kind, left, got, to) == [kind |-> kind, left |-> left, got |-> got, to |-> to]

Init ==
  /\ value = [r \in Register |-> <<>>]
  /\ loops = <<>> /\ did = [op |-> "start", returns |-> Nothing] /\ status = "running"

Running == status = "running"
Returns(op, v) == did' = [op |-> op, returns |-> v]
Did(op) == Returns(op, Nothing)
Assign(r, s) == value' = [value EXCEPT ![r] = s]

\* The program may only die where an operation has no result: at the head of
\* an empty list, and in a division.
Die(op) == status' = "crashed" /\ Did(op) /\ UNCHANGED <<value, loops>>

Literal == Running /\ \E r \in Register, e \in Elem :
  Assign(r, <<e>>) /\ Did("literal") /\ UNCHANGED <<loops, status>>

Cons == Running /\ \E r, s \in Register, e \in Elem :
  Assign(r, <<e>> \o value[s]) /\ Did("cons") /\ UNCHANGED <<loops, status>>

Cdr == Running /\ \E r, s \in Register :
  Assign(r, IF value[s] = <<>> THEN <<>> ELSE Tail(value[s])) /\ Did("cdr") /\ UNCHANGED <<loops, status>>

Car == Running /\ \E s \in Register :
  \/ value[s] = <<>> /\ Die("car")
  \/ value[s] # <<>> /\ Returns("car", Head(value[s])) /\ UNCHANGED <<value, loops, status>>

Fold == Running /\ \E s \in Register, op \in FoldOps :
  LET r == FoldOf(op, value[s])
  IN  \/ r.traps /\ Die(op)
      \/ ~r.traps /\ Returns(op, r.acc) /\ UNCHANGED <<value, loops, status>>

\* The result of a loop: a do loop whose body did not run has none of its own.
Result(l) ==
  IF l.kind = "collect" THEN Assign(l.to, l.got) /\ Did("loop")
  ELSE (l.got # <<>> => Returns("loop", S!Last(l.got))) /\ did'.op = "loop" /\ UNCHANGED value

\* A loop goes through all elements but the last.
Entered(l) ==
  IF Len(l.left) > 1 THEN loops' = Append(loops, l) /\ Did("loop") /\ UNCHANGED <<value, status>>
  ELSE Result(l) /\ UNCHANGED <<loops, status>>

EnterLoop == Running /\ \E kind \in {"do", "collect"}, r, s \in Register :
  \/ value[s] = <<>> /\ Die("loop")
  \/ value[s] # <<>> /\ Entered(Loop(kind, value[s], <<>>, r))

EndBody == Running /\ loops # <<>> /\ \E e \in Elem :
  LET l == S!Last(loops)
      next == Loop(l.kind, Tail(l.left), IF l.kind = "do" THEN <<e>> ELSE Append(l.got, e), l.to)
  IN  IF Len(next.left) > 1
      THEN loops' = Append(S!Front(loops), next) /\ Did("loop") /\ UNCHANGED <<value, status>>
      ELSE loops' = S!Front(loops) /\ Result(next) /\ UNCHANGED status

Next == Literal \/ Cons \/ Cdr \/ Car \/ Fold \/ EnterLoop \/ EndBody
Spec == Init /\ [][Next]_vars
=============================================================================
