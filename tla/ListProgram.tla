----------------------------- MODULE ListProgram -----------------------------
(***************************************************************************)
(* A compiled program at work on its lists: the calls into the runtime and *)
(* the loops that llvm_codegen.cpp emits, over the heap of RuntimeList.    *)
(* Which operation comes next, on which variables, is the program's        *)
(* choice; a loop's body is whatever the program does until it ends it.    *)
(***************************************************************************)
EXTENDS RuntimeList, ListFolds

CONSTANTS
  Register,      \* the program's list variables
  Elem,          \* the ints it makes lists of
  Computes(_),   \* those it may compute next, given the cells it has allocated
  ElemType,      \* INT or FLOAT: which of the two list types is compiled
  Foreign,       \* the functions of the runtime it calls by extern declarations
  MaxNesting     \* how deep its loops nest

ASSUME ProgramAssumption ==
  /\ Elem \subseteq Int
  /\ \A L \in SUBSET Cell : Computes(L) \subseteq Elem
  /\ ElemType \in {"INT", "FLOAT"}
  /\ Foreign \subseteq {"append", "init", "set_head", "set_tail", "destroy", "fini"}
  /\ MaxNesting \in Nat

VARIABLES
  heap,     \* the cells
  reg,      \* [Register -> Pointer]
  loops,    \* the allocas of the loops the program is in, the innermost last
  did,      \* the last operation, and what it returned
  status    \* running, crashed or hung

vars == <<heap, reg, loops, did, status>>

S == INSTANCE SequencesExt

\* Mutant: the list a collect loop builds is not a new one.
FrameReusing(kind, item, tail, ret, to) ==
  [kind |-> kind, item |-> item, tail |-> tail, to |-> to,
   ret |-> IF kind = "collect" /\ ret = NULL THEN tail ELSE ret]
\* iter_tail as the check block has loaded it, retlist (or the bodies' values
\* that went through loopret), and the variable the loop's value goes to.
Frame(kind, item, tail, ret, to) ==
  [kind |-> kind, item |-> item, tail |-> tail, ret |-> ret, to |-> to]

Init ==
  /\ heap = [live |-> {}, head |-> [c \in Cell |-> 0], tail |-> [c \in Cell |-> NULL]]
  /\ reg = [r \in Register |-> NULL]
  /\ loops = <<>> /\ did = [op |-> "start", returns |-> NULL] /\ status = "running"

Running == status = "running"
Returns(op, v) == did' = [op |-> op, returns |-> v]
Did(op) == Returns(op, NULL)
Stop(op, how) == status' = how /\ Did(op) /\ UNCHANGED <<heap, reg, loops>>
Die(op) == Stop(op, "crashed")
Assign(r, p) == reg' = [reg EXCEPT ![r] = p]

\* Reading a field of a cell: a freed one may still read as what it held.
MayDie(p) == p \notin heap.live
MayRead(p) == p \in Cell

-----------------------------------------------------------------------------
(* Expressions                                                             *)

\* _visit_int_list, _visit_float_list: the last cell of a quoted list is created
\* and gets a head, the others are cons calls.
Literal == Running /\ \E r \in Register, e \in Computes(heap.live), c \in Mallocs(heap), junk \in FreshTails :
  /\ heap' = HeadSet(Created(heap, c, junk), c, e)
  /\ Assign(r, c) /\ Did("literal") /\ UNCHANGED <<loops, status>>

Cons == Running /\ \E r, s \in Register, e \in Computes(heap.live), c \in Mallocs(heap) :
  \/ c = NULL /\ Die("cons")
  \/ c # NULL /\ heap' = Consed(heap, c, e, reg[s]) /\ Assign(r, c) /\ Did("cons") /\ UNCHANGED <<loops, status>>

\* Mutant: cdr does not look whether there is a list.
CdrOfUnchecked == Running /\ \E r, s \in Register :
  \/ MayDie(reg[s]) /\ Die("cdr")
  \/ /\ MayRead(reg[s])
     /\ Assign(r, Cdr(heap, reg[s])) /\ Did("cdr") /\ UNCHANGED <<heap, loops, status>>
CdrOf == Running /\ \E r, s \in Register :
  \/ reg[s] # NULL /\ MayDie(reg[s]) /\ Die("cdr")
  \/ /\ reg[s] = NULL \/ MayRead(reg[s])
     /\ Assign(r, Cdr(heap, reg[s])) /\ Did("cdr") /\ UNCHANGED <<heap, loops, status>>

\* An int is loaded through the pointer that car returns; for a double the
\* pointer itself is used.
CarDies(p) == ElemType = "INT" /\ MayDie(p)
CarReads(p) == ElemType = "FLOAT" \/ MayRead(p)
CarValue(h, p) == IF ElemType = "FLOAT" THEN Wild ELSE h.head[p]

CarOf == Running /\ \E s \in Register :
  \/ CarDies(reg[s]) /\ Die("car")
  \/ CarReads(reg[s]) /\ Returns("car", CarValue(heap, reg[s])) /\ UNCHANGED <<heap, reg, loops, status>>

FoldList == Running /\ \E s \in Register, op \in FoldOps : \E how \in Walks(heap, reg[s]) :
  LET r == FoldOf(op, Contents(heap, reg[s]))
  IN  \/ how # "running" /\ Stop(op, how)
      \/ how = "running" /\ r.traps /\ Die(op)
      \/ how = "running" /\ ~r.traps /\ Returns(op, r.acc) /\ UNCHANGED <<heap, reg, loops, status>>

-----------------------------------------------------------------------------
(* Loops                                                                   *)

\* The end block: a collect loop yields its list, a do loop what loopret holds.
Result(f) ==
  IF f.kind = "collect" THEN Assign(f.to, f.ret) /\ Did("loop")
  ELSE Returns("loop", f.ret) /\ UNCHANGED reg

\* The check block: into the body, or to the end when the tail is null.
Check(outer, f) ==
  IF f.tail # NULL THEN loops' = Append(outer, f) /\ Did("loop") /\ UNCHANGED <<reg, status>>
  ELSE loops' = outer /\ Result(f) /\ UNCHANGED status

\* The blocks before the check: cdr of the list into iter_tail, car into iter_head.
EnterLoop ==
  /\ Running /\ Len(loops) < MaxNesting
  /\ \E kind \in {"do", "collect"}, r, s \in Register :
       LET l == reg[s]
       IN  \/ (CarDies(l) \/ (l # NULL /\ MayDie(l))) /\ Die("loop")
           \/ /\ CarReads(l) /\ (l = NULL \/ MayRead(l))
              /\ Check(loops, Frame(kind, CarValue(heap, l), Cdr(heap, l),
                                    IF kind = "collect" THEN NULL ELSE Wild, r))
              /\ UNCHANGED heap

\* The end of the body and the update block: store or append the body's value,
\* then go on with the cdr and the car of the tail.
Update(h, f, ret) ==
  Check(S!Front(loops), Frame(f.kind, CarValue(h, f.tail), Cdr(h, f.tail), ret, f.to))
UpdateDies(f) == MayDie(f.tail)

EndDoBody == Running /\ loops # <<>> /\ S!Last(loops).kind = "do" /\ \E e \in Computes(heap.live) :
  \/ UpdateDies(S!Last(loops)) /\ Die("loop")
  \/ MayRead(S!Last(loops).tail) /\ Update(heap, S!Last(loops), e) /\ UNCHANGED heap

\* Mutant: append gets the list that is iterated over, not the one to return.
EndCollectBodySwapped == Running /\ loops # <<>> /\ S!Last(loops).kind = "collect" /\
  LET f == S!Last(loops)
  IN  \E e \in Computes(heap.live), c \in Mallocs(heap), how \in Walks(heap, f.tail) :
        \/ how # "running" /\ Stop("loop", how)
        \/ (c = NULL \/ UpdateDies(f)) /\ Die("loop")
        \/ /\ how = "running" /\ c # NULL /\ MayRead(f.tail)
           /\ heap' = Appended(heap, f.tail, c, e)
           /\ Update(heap', f, AppendReturns(f.tail, c))
EndCollectBody == Running /\ loops # <<>> /\ S!Last(loops).kind = "collect" /\
  LET f == S!Last(loops)
  IN  \E e \in Computes(heap.live), c \in Mallocs(heap), how \in Walks(heap, f.ret) :
        \/ how # "running" /\ Stop("loop", how)
        \/ (c = NULL \/ UpdateDies(f)) /\ Die("loop")
        \/ /\ how = "running" /\ c # NULL /\ MayRead(f.tail)
           /\ heap' = Appended(heap, f.ret, c, e)
           /\ Update(heap', f, AppendReturns(f.ret, c))

-----------------------------------------------------------------------------
(* Functions of the runtime that compiled code does not call by itself, by *)
(* an extern declaration of the program                                    *)

ForeignAppend == Running /\ "append" \in Foreign /\
  \E r, s \in Register, e \in Computes(heap.live), c \in Mallocs(heap) : \E how \in Walks(heap, reg[s]) :
    \/ how # "running" /\ Stop("append", how)
    \/ c = NULL /\ Die("append")
    \/ /\ how = "running" /\ c # NULL
       /\ heap' = Appended(heap, reg[s], c, e) /\ Assign(r, AppendReturns(reg[s], c))
       /\ Did("append") /\ UNCHANGED <<loops, status>>

ForeignInit == Running /\ "init" \in Foreign /\ \E s \in Register :
  \/ MayDie(reg[s]) /\ Die("init")
  \/ MayRead(reg[s]) /\ heap' = Initialised(heap, reg[s]) /\ Did("init") /\ UNCHANGED <<reg, loops, status>>

\* set_head and set_tail return 0 for NULL.
ForeignSet == Running /\ \E s, t \in Register, e \in Computes(heap.live) :
  \/ Foreign \cap {"set_head", "set_tail"} # {} /\ reg[s] # NULL /\ MayDie(reg[s]) /\ Die("set")
  \/ /\ reg[s] = NULL \/ MayRead(reg[s])
     /\ \/ "set_head" \in Foreign /\ heap' = HeadSet(heap, reg[s], e)
        \/ "set_tail" \in Foreign /\ heap' = TailSet(heap, reg[s], reg[t])
     /\ Did("set") /\ UNCHANGED <<reg, loops, status>>

\* free dies of what malloc has not handed out, and of what is freed already.
ForeignDestroy == Running /\ "destroy" \in Foreign /\ \E s \in Register :
  \/ reg[s] # NULL /\ MayDie(reg[s]) /\ Die("destroy")
  \/ reg[s] \in heap.live \cup {NULL} /\ heap' = Freed(heap, reg[s]) /\ Did("destroy") /\ UNCHANGED <<reg, loops, status>>

ForeignFini == Running /\ "fini" \in Foreign /\ \E s \in Register :
  \/ FiniDies(heap, reg[s]) /\ Die("fini")
  \/ FiniEnds(heap, reg[s]) /\ heap' = Finished(heap, reg[s]) /\ Did("fini") /\ UNCHANGED <<reg, loops, status>>

-----------------------------------------------------------------------------
Next ==
  \/ Literal \/ Cons \/ CdrOf \/ CarOf \/ FoldList
  \/ EnterLoop \/ EndDoBody \/ EndCollectBody
  \/ ForeignAppend \/ ForeignInit \/ ForeignSet \/ ForeignDestroy \/ ForeignFini
Spec == Init /\ [][Next]_vars

-----------------------------------------------------------------------------
(* Properties                                                              *)

TypeOK ==
  /\ heap \in Heaps(Elem \cup {0})
  /\ reg \in [Register -> Pointer]
  /\ loops \in Seq([kind : {"do"}, item : Elem \cup {0, Wild}, tail : Pointer,
                     ret : Elem \cup {Wild}, to : Register]
                   \cup [kind : {"collect"}, item : Elem \cup {0, Wild}, tail : Pointer,
                         ret : Pointer, to : Register])
  /\ did.returns \in Int \cup {NULL, Wild}
  /\ status \in {"running", "crashed", "hung"}

\* The lists that collect loops are building, and the pointers to all others.
Growing == {i \in DOMAIN loops : loops[i].kind = "collect"}
Held == {reg[r] : r \in Register} \cup {loops[i].tail : i \in DOMAIN loops}

\* README.md:20-51, the operators' tables: the program's lists are values and
\* its operations compute those of ListStore; it dies only of the head of an
\* empty list and of a division.
Store == INSTANCE ListStore WITH
  Nothing <- NULL,
  value <- [r \in Register |-> Contents(heap, reg[r])],
  loops <- [i \in DOMAIN loops |->
             [kind |-> loops[i].kind, to |-> loops[i].to,
              left |-> <<loops[i].item>> \o Contents(heap, loops[i].tail),
              got |-> IF loops[i].kind = "collect" THEN Contents(heap, loops[i].ret)
                      ELSE IF loops[i].ret = Wild THEN <<>> ELSE <<loops[i].ret>>]]
ImplementsListStore == Store!Spec

\* The list a collect loop builds shares no cell with any other list, nor with
\* that of another loop: append may change its last cell in place.
GrowingListsAreUnshared ==
  \A i \in Growing :
    /\ \A p \in Held : Reach(heap, loops[i].ret) \cap Reach(heap, p) = {}
    /\ \A j \in Growing \ {i} : Reach(heap, loops[i].ret) \cap Reach(heap, loops[j].ret) = {}

\* No step changes a cell that is part of a list, save the step that appends to
\* the innermost loop's list.
OnlyGrowingListsChange ==
  [][\A c \in heap.live :
       /\ c \in heap'.live /\ heap'.head[c] = heap.head[c]
       /\ heap'.tail[c] # heap.tail[c] =>
            /\ loops # <<>> /\ S!Last(loops).kind = "collect"
            /\ c \in LastCells(heap, S!Last(loops).ret)]_vars

\* Whatever is appended to whatever list, by the program or by a loop, every list
\* that can be gone through to its end keeps its elements and only gets more behind
\* them, the lists that loops are going through included.
ListsOnlyGrow ==
  [][LET Keeps(p, q) ==
           p = q /\ Walks(heap, p) = {"running"} => S!IsPrefix(Contents(heap, p), Contents(heap', q))
     IN  did'.op \in {"append", "loop"} =>
           /\ \A r \in Register : Keeps(reg[r], reg'[r])
           /\ \A i \in DOMAIN loops \cap DOMAIN loops' : Keeps(loops[i].tail, loops'[i].tail)]_vars

\* Every list the program holds has an end.
ListsEnd ==
  \A p \in Held \cup {loops[i].ret : i \in Growing} : Walks(heap, p) = {"running"}

\* With every function of the runtime at its disposal, the program is only killed
\* by what it did: a list that leads to freed or unwritten memory, the head of an
\* empty list, a division, no memory for a cell, or fini of a list of other than two
\* cells.
OnlyBadListsKill ==
  [][status = "running" /\ status' = "crashed" =>
       \/ MallocMayFail /\ did'.op \in {"cons", "append", "loop"}
       \/ \E p \in Held \cup {loops[i].ret : i \in Growing} : "crashed" \in Walks(heap, p)
       \/ did'.op \in {"car", "loop", "init"} /\ \E r \in Register : reg[r] = NULL
       \/ did'.op = "DIVIDE" /\ \E r \in Register : FoldOf("DIVIDE", Contents(heap, reg[r])).traps
       \/ did'.op = "fini" /\ \E r \in Register :
            ~(Walks(heap, reg[r]) = {"running"} /\ Len(Contents(heap, reg[r])) = 2)]_vars

-----------------------------------------------------------------------------
(* What the README says of the lists                                       *)

\* README.md:49 "(cons 1 '(2)) == '(1 2)" and README.md:107 "a list '() whose
\* elements are verbatim": a list can be gone through to its end.
QuotedListsEnd == \A r \in Register : Walks(heap, reg[r]) = {"running"}

\* README.md:25 "car | list<T> -> T | returns the head of a list".
CarReturnsTheHead ==
  [][did'.op = "car" /\ status' = "running" /\ (\A r \in Register : reg[r] # NULL) =>
       \E r \in Register : did'.returns = heap.head[reg[r]]]_vars
=============================================================================
