---------------------------- MODULE DriverProofs ----------------------------
(***************************************************************************)
(* Theorems about the driver, for all sources, any number of runs, edits   *)
(* and faults.                                                             *)
(*                                                                         *)
(* What is built: whatever fails, nothing is ever built from a source that *)
(* the front end has refused, and everything keeps its type.               *)
(*                                                                         *)
(* Who works: as long as nobody is killed, one process works and the       *)
(* others wait for it.  A child that lives is the one its parent waits     *)
(* for, and an earlier run has ended; so what lives is a chain of parents  *)
(* that wait, and the process at its end.                                  *)
(*                                                                         *)
(* What is forked: a child whose exec fails goes on as the driver, and its *)
(* own child may do so too, but that one forks no more.                    *)
(*                                                                         *)
(* What 0 means: a run that nothing failed in, and that no process of an   *)
(* earlier run gets in the way of, exits with 0 only when the executable   *)
(* is made from what it has read.                                          *)
(***************************************************************************)
EXTENDS Driver, FiniteSetTheorems, SequenceTheorems, TLAPS

Accepted == {t \in Sources : Verdict[t] = "code"}

\* Before its front end has decided, and from then on until it ends.
FrontEnd == {"parse", "compile"}
Early == {"idle"} \cup FrontEnd
Late == {"open", "print", "fork", "wait", "exec", "read", "write"}

Shapes ==
  /\ source \in [text : Sources, edits : 0 .. MaxEdits]
  /\ files \in [tree : Content, ll : Content, s : Content, out : Content]
  /\ text \in [Runs -> Sources \cup {None}]
  /\ pc \in [Process -> Stages]
  /\ tool \in [Process -> Tools]
  /\ held \in [Process -> Content]

\* Only the main process of a run parses and compiles, and it has no children then:
\* what it reads is read before anybody else of its run asks for it.
FrontEndIsMain == \A p \in Process : pc[p] \in FrontEnd => p = Main(p[1])
ChildrenFollow == \A p \in Process : pc[Main(p[1])] \in Early => p = Main(p[1]) \/ pc[p] = "idle"

CompilesParsed ==
  \A p \in Process : pc[p] = "compile" => text[p[1]] \in Sources /\ Verdict[text[p[1]]] # "syntax error"
LateIsAccepted == \A p \in Process : pc[p] \in Late => text[p[1]] \in Accepted
ToolsHoldAccepted == \A p \in Process : pc[p] = "write" => held[p] \in Accepted \cup {None, Empty}

Inductive ==
  /\ Shapes /\ FrontEndIsMain /\ ChildrenFollow
  /\ CompilesParsed /\ LateIsAccepted /\ ToolsHoldAccepted
  /\ OutputsComeFromAcceptedSources

-----------------------------------------------------------------------------

Lines == {<<>>, <<"llc">>, <<"gcc">>, <<"llc", "gcc">>}

\* Processes are named after their run; a child is no main process.
LEMMA ProcessNames ==
  /\ \A p \in Process : p[1] \in Runs /\ p[2] \in Seq(Tools)
  /\ \A r \in Runs : Main(r) \in Process /\ Main(r)[1] = r
  /\ \A p \in Process, t \in Tools : ChildOf(p, t)[1] = p[1] /\ \A r : ChildOf(p, t) # Main(r)
<1>1. \A p \in Process : p[1] \in Runs /\ p[2] \in Lines
  BY DEF Process, Lines
<1>2. Lines \subseteq Seq(Tools)
  BY DEF Lines, Tools
<1>3. ASSUME NEW l \in Seq(Tools), NEW t \in Tools PROVE Append(l, t) # <<>>
  OBVIOUS
<1>4. \A r \in Runs : Main(r) \in Process /\ Main(r)[1] = r
  BY DEF Main, Process
<1>5. \A p \in Process, t \in Tools : ChildOf(p, t)[1] = p[1] /\ ChildOf(p, t)[2] = Append(p[2], t)
  BY DEF ChildOf
<1>6. \A r : Main(r)[2] = <<>>
  BY DEF Main
<1>7. ASSUME NEW p \in Process, NEW t \in Tools, NEW r PROVE ChildOf(p, t) # Main(r)
  BY <1>1, <1>2, <1>3, <1>5, <1>6
<1> QED
  BY <1>1, <1>2, <1>4, <1>5, <1>7

\* The initial states satisfy the invariant: nothing runs, and there are no files.
LEMMA InitInductive == Init => Inductive
<1> SUFFICES ASSUME Init PROVE Inductive
  OBVIOUS
<1>1. Shapes
  <2>1. source \in [text : Sources, edits : 0 .. MaxEdits]
    BY DriverAssumption DEF Init
  <2>2. files \in [tree : Content, ll : Content, s : Content, out : Content]
    BY DEF Init, Content
  <2>3. text \in [Runs -> Sources \cup {None}] /\ pc \in [Process -> Stages]
    BY DEF Init, Stages
  <2>4. tool \in [Process -> Tools] /\ held \in [Process -> Content]
    BY DEF Init, Tools, Content
  <2> QED
    BY <2>1, <2>2, <2>3, <2>4 DEF Shapes
<1>2. FrontEndIsMain /\ CompilesParsed /\ LateIsAccepted /\ ToolsHoldAccepted
  BY DEF Init, FrontEndIsMain, CompilesParsed, LateIsAccepted, ToolsHoldAccepted, FrontEnd, Late
<1>3. ChildrenFollow /\ OutputsComeFromAcceptedSources
  BY DEF Init, ChildrenFollow, OutputsComeFromAcceptedSources
<1> QED
  BY <1>1, <1>2, <1>3 DEF Inductive

(***************************************************************************)
(* Most steps move one process within the late stages or end it, and leave *)
(* what its run has read alone.                                            *)
(***************************************************************************)
LEMMA MoveStep ==
  ASSUME Inductive, NEW p \in Process, NEW stage \in Stages, pc[p] # "idle",
         pc' = [pc EXCEPT ![p] = stage],
         stage \in Late \cup {"exited"},
         stage # "exited" => text[p[1]] \in Accepted,
         UNCHANGED <<source, text>>
  PROVE  /\ pc' \in [Process -> Stages]
         /\ FrontEndIsMain' /\ ChildrenFollow' /\ CompilesParsed' /\ LateIsAccepted'
<1> USE DEF Inductive, Shapes
<1>1. pc' \in [Process -> Stages]
  OBVIOUS
<1>2. FrontEndIsMain'
  BY DEF FrontEndIsMain, FrontEnd, Late
<1>3. ChildrenFollow'
  <2> SUFFICES ASSUME NEW q \in Process, pc'[Main(q[1])] \in Early PROVE q = Main(q[1]) \/ pc'[q] = "idle"
    BY DEF ChildrenFollow
  <2>1. Main(q[1]) \in Process
    BY ProcessNames
  <2>2. pc[Main(q[1])] \in Early
    BY <2>1 DEF Early, FrontEnd, Late
  <2>3. q = Main(q[1]) \/ pc[q] = "idle"
    BY <2>2 DEF ChildrenFollow
  <2> QED
    BY <2>3
<1>4. CompilesParsed'
  BY DEF CompilesParsed, Late
<1>5. LateIsAccepted'
  BY DEF LateIsAccepted, Late
<1> QED
  BY <1>1, <1>2, <1>3, <1>4, <1>5

\* A tool's output is what it has read, or nothing.
LEMMA KeepsTools ==
  ASSUME Inductive, NEW p \in Process, NEW stage, stage # "write",
         pc' = [pc EXCEPT ![p] = stage], UNCHANGED held
  PROVE  ToolsHoldAccepted'
  BY DEF Inductive, Shapes, ToolsHoldAccepted

\* What follows a tool's block: the next one, or the end.
LEMMA GoOnStep ==
  ASSUME Inductive, NEW p \in Process, GoOn(p), pc[p] \in Late,
         UNCHANGED <<source, files, text, held>>
  PROVE  Inductive'
<1>1. text[p[1]] \in Accepted
  BY DEF Inductive, LateIsAccepted
<1>2. PICK stage \in {"fork", "exited"} : pc' = [pc EXCEPT ![p] = stage]
  BY DEF GoOn, Goto, Exit
<1>3. tool' \in [Process -> Tools]
  BY DEF GoOn, Inductive, Shapes, Tools
<1>4. stage \in Stages /\ stage \in Late \cup {"exited"} /\ stage # "write"
  BY <1>2 DEF Stages, Late
<1>5. /\ pc' \in [Process -> Stages]
      /\ FrontEndIsMain' /\ ChildrenFollow' /\ CompilesParsed' /\ LateIsAccepted'
  BY <1>1, <1>2, <1>4, MoveStep DEF Late
<1>6. ToolsHoldAccepted'
  BY <1>2, <1>4, KeepsTools
<1>7. OutputsComeFromAcceptedSources'
  BY DEF Inductive, OutputsComeFromAcceptedSources
<1> QED
  BY <1>3, <1>5, <1>6, <1>7 DEF Inductive, Shapes

-----------------------------------------------------------------------------
(* The actions, one lemma for each                                         *)

\* A step that moves one process on within the late stages, or ends it, and leaves
\* the files' contents accepted and what tools hold alone.
LEMMA QuietStep ==
  ASSUME Inductive, NEW p \in Process, NEW stage \in Stages, stage # "write",
         pc[p] # "idle", pc' = [pc EXCEPT ![p] = stage],
         stage \in Late \cup {"exited"},
         stage # "exited" => text[p[1]] \in Accepted,
         UNCHANGED <<source, text, tool, held>>,
         files' \in [tree : Content, ll : Content, s : Content, out : Content],
         OutputsComeFromAcceptedSources'
  PROVE  Inductive'
<1>1. /\ pc' \in [Process -> Stages]
      /\ FrontEndIsMain' /\ ChildrenFollow' /\ CompilesParsed' /\ LateIsAccepted'
  BY MoveStep
<1>2. ToolsHoldAccepted'
  BY KeepsTools
<1> QED
  BY <1>1, <1>2 DEF Inductive, Shapes

LEMMA SameFiles ==
  ASSUME Inductive, UNCHANGED files
  PROVE  /\ files' \in [tree : Content, ll : Content, s : Content, out : Content]
         /\ OutputsComeFromAcceptedSources'
BY DEF Inductive, Shapes, OutputsComeFromAcceptedSources

\* A process that ends changes nothing else.
LEMMA ExitStep ==
  ASSUME Inductive, NEW p \in Process, NEW code, Exit(p, code), pc[p] # "idle",
         UNCHANGED <<source, files, text, tool, held>>
  PROVE  Inductive'
BY SameFiles, QuietStep DEF Exit, Stages

LEMMA StartInductive ==
  ASSUME Inductive, NEW r \in Runs, NEW f \in Forms, Start(r, f)
  PROVE  Inductive'
<1> USE DEF Inductive, Shapes
<1>1. Main(r) \in Process /\ Main(r)[1] = r /\ pc[Main(r)] = "idle"
  BY ProcessNames DEF Start
<1>2. PICK stage \in {"parse", "exited"} : pc' = [pc EXCEPT ![Main(r)] = stage]
  BY DEF Start, Goto, Exit
<1>3. UNCHANGED <<source, files, text, tool, held>>
  BY DEF Start
<1>4. pc' \in [Process -> Stages]
  BY <1>2 DEF Stages
<1>5. FrontEndIsMain'
  BY <1>1, <1>2 DEF FrontEndIsMain, FrontEnd
<1>6. ChildrenFollow'
  <2> SUFFICES ASSUME NEW p \in Process, pc'[Main(p[1])] \in Early PROVE p = Main(p[1]) \/ pc'[p] = "idle"
    BY DEF ChildrenFollow
  <2>1. p[1] \in Runs /\ Main(p[1]) \in Process
    BY ProcessNames
  <2>2. pc[Main(p[1])] \in Early
    BY <1>1, <1>2, <2>1 DEF Early
  <2>3. p = Main(p[1]) \/ pc[p] = "idle"
    BY <2>2 DEF ChildrenFollow
  <2>4. p = Main(r) => p = Main(p[1])
    BY <1>1
  <2> QED
    BY <1>2, <2>3, <2>4
<1>7. CompilesParsed' /\ LateIsAccepted' /\ ToolsHoldAccepted'
  BY <1>2, <1>3 DEF CompilesParsed, LateIsAccepted, ToolsHoldAccepted, Late
<1> QED
  BY <1>3, <1>4, <1>5, <1>6, <1>7, SameFiles

LEMMA ParseInductive ==
  ASSUME Inductive, NEW p \in Process, Parse(p)
  PROVE  Inductive'
<1> USE DEF Inductive, Shapes
<1> DEFINE t == source.text
<1>1. pc[p] = "parse" /\ p = Main(p[1]) /\ p[1] \in Runs
  BY ProcessNames DEF Parse, FrontEndIsMain, FrontEnd
<1>2. t \in Sources /\ text' = [text EXCEPT ![p[1]] = t] /\ UNCHANGED <<source, tool, held>>
  BY DEF Parse
<1>3. PICK stage \in {"compile", "exited"} :
        pc' = [pc EXCEPT ![p] = stage] /\ (stage = "compile" => Verdict[t] # "syntax error")
  BY DEF Parse, Goto, Exit
<1>4. \A q \in Process : q # p /\ q[1] = p[1] => pc[q] = "idle"
  BY <1>1 DEF ChildrenFollow, Early, FrontEnd
<1>5. \A q \in Process : q # p => pc'[q] = pc[q] /\ (pc[q] # "idle" => text'[q[1]] = text[q[1]])
  BY <1>2, <1>3, <1>4, ProcessNames
<1>6. pc' \in [Process -> Stages] /\ text' \in [Runs -> Sources \cup {None}]
  BY <1>2, <1>3 DEF Stages
<1>7. FrontEndIsMain'
  BY <1>1, <1>3 DEF FrontEndIsMain, FrontEnd
<1>8. ChildrenFollow'
  <2> SUFFICES ASSUME NEW q \in Process, pc'[Main(q[1])] \in Early PROVE q = Main(q[1]) \/ pc'[q] = "idle"
    BY DEF ChildrenFollow
  <2>1. pc[Main(q[1])] \in Early
    BY <1>1, <1>3, ProcessNames DEF Early, FrontEnd
  <2>2. q = Main(q[1]) \/ (pc[q] = "idle" /\ q # p)
    BY <1>1, <2>1 DEF ChildrenFollow
  <2> QED
    BY <1>5, <2>2
<1>9. CompilesParsed'
  BY <1>1, <1>2, <1>3, <1>5 DEF CompilesParsed
<1>10. LateIsAccepted'
  BY <1>1, <1>3, <1>5 DEF LateIsAccepted, Late
<1>11. ToolsHoldAccepted'
  BY <1>2, <1>3 DEF ToolsHoldAccepted
<1>12. /\ files' \in [tree : Content, ll : Content, s : Content, out : Content]
       /\ files'.ll = files.ll /\ files'.s = files.s /\ files'.out = files.out
  BY <1>2 DEF Parse, Content
<1>13. OutputsComeFromAcceptedSources'
  BY <1>12 DEF OutputsComeFromAcceptedSources
<1> QED
  BY <1>2, <1>6, <1>7, <1>8, <1>9, <1>10, <1>11, <1>12, <1>13

LEMMA CompileInductive ==
  ASSUME Inductive, NEW p \in Process, Compile(p)
  PROVE  Inductive'
<1>1. UNCHANGED <<source, files, text, tool, held>> /\ pc[p] # "idle"
  BY DEF Compile, Only, files_of_run
<1>2. text[p[1]] \in Sources /\ Verdict[text[p[1]]] # "syntax error" /\ Verdict[text[p[1]]] \in Verdicts
  BY DriverAssumption DEF Compile, Inductive, CompilesParsed
<1>3. CASE Verdict[text[p[1]]] = "code"
  <2>1. pc' = [pc EXCEPT ![p] = "open"] /\ text[p[1]] \in Accepted
    BY <1>2, <1>3 DEF Compile, Goto, Accepted
  <2> QED
    BY <1>1, <2>1, QuietStep, SameFiles DEF Stages, Late
<1>4. CASE Verdict[text[p[1]]] # "code"
  <2>1. Exit(p, 1) \/ Exit(p, Signaled)
    BY <1>2, <1>4 DEF Compile, Verdicts
  <2> QED
    BY <1>1, <2>1, ExitStep
<1> QED
  BY <1>3, <1>4

LEMMA OpenInductive ==
  ASSUME Inductive, NEW p \in Process, OpenIntermediate(p)
  PROVE  Inductive'
<1>1. UNCHANGED <<source, text, tool, held>> /\ text[p[1]] \in Accepted /\ pc[p] # "idle"
  BY DEF OpenIntermediate, Only, files_of_run, Inductive, LateIsAccepted, Late
<1>2. CASE files' = [files EXCEPT !.ll = Empty] /\ Goto(p, "print")
  <2>1. files' \in [tree : Content, ll : Content, s : Content, out : Content]
    BY <1>2 DEF Inductive, Shapes, Content
  <2>2. OutputsComeFromAcceptedSources'
    BY <1>2 DEF Inductive, Shapes, OutputsComeFromAcceptedSources
  <2> QED
    BY <1>1, <1>2, <2>1, <2>2, QuietStep DEF Goto, Stages, Late
<1>3. CASE UNCHANGED files /\ Exit(p, Signaled)
  BY <1>1, <1>3, ExitStep
<1> QED
  BY <1>2, <1>3 DEF OpenIntermediate

LEMMA PrintInductive ==
  ASSUME Inductive, NEW p \in Process, PrintIntermediate(p)
  PROVE  Inductive'
<1>1. UNCHANGED <<source, text, tool, held>> /\ text[p[1]] \in Accepted /\ pc[p] # "idle"
  BY DEF PrintIntermediate, Only, files_of_run, Inductive, LateIsAccepted, Late
<1>2. files' = [files EXCEPT !.ll = text[p[1]]] /\ pc' = [pc EXCEPT ![p] = "fork"]
  BY DEF PrintIntermediate, Goto
<1>3. files' \in [tree : Content, ll : Content, s : Content, out : Content]
  BY <1>1, <1>2 DEF Inductive, Shapes, Content, Accepted
<1>4. OutputsComeFromAcceptedSources'
  BY <1>1, <1>2 DEF Inductive, Shapes, OutputsComeFromAcceptedSources, Accepted
<1> QED
  BY <1>1, <1>2, <1>3, <1>4, QuietStep DEF Stages, Late

LEMMA ForkInductive ==
  ASSUME Inductive, NEW p \in Process, Fork(p)
  PROVE  Inductive'
<1> USE DEF Inductive, Shapes
<1> DEFINE c == ChildOf(p, tool[p])
<1>1. /\ UNCHANGED <<source, files, text, held>> /\ pc[p] = "fork" /\ text[p[1]] \in Accepted
      /\ tool[p] \in Tools
  BY DEF Fork, Only, files_of_run, LateIsAccepted, Late
<1>2. CASE pc' = [pc EXCEPT ![p] = "wait", ![c] = "exec"] /\ tool' = [tool EXCEPT ![c] = tool[p]]
  <2>1. c[1] = p[1] /\ \A r : c # Main(r)
    BY <1>1, ProcessNames
  <2>2. pc' \in [Process -> Stages] /\ tool' \in [Process -> Tools]
    BY <1>1, <1>2 DEF Stages
  <2>3. \A q \in Process : pc'[q] = pc[q] \/ (pc'[q] \in {"wait", "exec"} /\ q[1] = p[1])
    BY <1>2, <2>1
  <2>4. FrontEndIsMain' /\ CompilesParsed' /\ LateIsAccepted' /\ ToolsHoldAccepted'
    BY <1>1, <2>3 DEF FrontEndIsMain, FrontEnd, CompilesParsed, LateIsAccepted, Late, ToolsHoldAccepted
  <2>5. ChildrenFollow'
    <3> SUFFICES ASSUME NEW q \in Process, pc'[Main(q[1])] \in Early PROVE q = Main(q[1]) \/ pc'[q] = "idle"
      BY DEF ChildrenFollow
    <3>1. Main(q[1]) \in Process /\ Main(q[1])[1] = q[1]
      BY ProcessNames
    <3>2. pc[Main(q[1])] \in Early /\ pc'[Main(q[1])] = pc[Main(q[1])]
      BY <2>3, <3>1 DEF Early, FrontEnd
    <3>3. q = Main(q[1]) \/ pc[q] = "idle"
      BY <3>2 DEF ChildrenFollow
    <3>4. q[1] # p[1]
      BY <1>1, <3>2, <1>2 DEF ChildrenFollow, Early, FrontEnd
    <3> QED
      BY <2>3, <3>3, <3>4
  <2> QED
    BY <1>1, <2>2, <2>4, <2>5, SameFiles
<1>3. CASE Goto(p, "wait") /\ UNCHANGED tool
  BY <1>1, <1>3, QuietStep, SameFiles DEF Goto, Stages, Late
<1> QED
  BY <1>2, <1>3 DEF Fork

LEMMA WaitInductive ==
  ASSUME Inductive, NEW p \in Process, Wait(p)
  PROVE  Inductive'
<1>1. UNCHANGED <<source, files, text, held>> /\ pc[p] \in Late /\ pc[p] # "idle"
  BY DEF Wait, Only, files_of_run, Late
<1>2. CASE GoOn(p)
  BY <1>1, <1>2, GoOnStep
<1>3. CASE Exit(p, 2) /\ UNCHANGED tool
  BY <1>1, <1>3, ExitStep
<1> QED
  BY <1>2, <1>3 DEF Wait

LEMMA ExecInductive ==
  ASSUME Inductive, NEW p \in Process, Exec(p)
  PROVE  Inductive'
<1>1. UNCHANGED <<source, files, text, held>> /\ pc[p] \in Late /\ pc[p] # "idle"
  BY DEF Exec, Only, files_of_run, Late
<1>2. CASE Goto(p, "read") /\ UNCHANGED tool
  <2>1. text[p[1]] \in Accepted
    BY <1>1 DEF Inductive, LateIsAccepted
  <2> QED
    BY <1>1, <1>2, <2>1, QuietStep, SameFiles DEF Goto, Stages, Late
<1>3. CASE GoOn(p)
  BY <1>1, <1>3, GoOnStep
<1> QED
  BY <1>2, <1>3 DEF Exec

LEMMA ReadInductive ==
  ASSUME Inductive, NEW p \in Process, ToolReads(p)
  PROVE  Inductive'
<1> USE DEF Inductive, Shapes
<1>1. /\ UNCHANGED <<source, files, text, tool>> /\ text[p[1]] \in Accepted
      /\ pc[p] # "idle" /\ pc' = [pc EXCEPT ![p] = "write"]
  BY DEF ToolReads, Only, files_of_run, Goto, LateIsAccepted, Late
<1>2. PICK content \in {files.ll, files.s} : held' = [held EXCEPT ![p] = content]
  BY DEF ToolReads
<1>3. content \in Accepted \cup {None, Empty} /\ content \in Content
  BY <1>2 DEF OutputsComeFromAcceptedSources, Accepted
<1>4. held' \in [Process -> Content]
  BY <1>2, <1>3
<1>5. ToolsHoldAccepted'
  BY <1>1, <1>2, <1>3 DEF ToolsHoldAccepted
<1>6. /\ pc' \in [Process -> Stages]
      /\ FrontEndIsMain' /\ ChildrenFollow' /\ CompilesParsed' /\ LateIsAccepted'
  BY <1>1, MoveStep DEF Stages, Late
<1> QED
  BY <1>1, <1>4, <1>5, <1>6, SameFiles

LEMMA WriteInductive ==
  ASSUME Inductive, NEW p \in Process, ToolWrites(p)
  PROVE  Inductive'
<1>1. UNCHANGED <<source, text, tool, held>> /\ pc[p] = "write"
  BY DEF ToolWrites, Only, files_of_run
<1>2. PICK content \in {held[p], None} : files' = files \/ files' = Written(p, content)
  BY DEF ToolWrites
<1>3. content \in Accepted \cup {None, Empty} /\ content \in Content
  BY <1>1, <1>2 DEF Inductive, Shapes, ToolsHoldAccepted, Content
<1>4. files' \in [tree : Content, ll : Content, s : Content, out : Content]
  BY <1>2, <1>3 DEF Inductive, Shapes, Written
<1>5. OutputsComeFromAcceptedSources'
  BY <1>2, <1>3 DEF Inductive, Shapes, OutputsComeFromAcceptedSources, Accepted, Written
<1>6. pc' = [pc EXCEPT ![p] = "exited"]
  BY DEF ToolWrites, Exit
<1> QED
  BY <1>1, <1>4, <1>5, <1>6, QuietStep DEF Stages

LEMMA KillInductive ==
  ASSUME Inductive, NEW p \in Process, Kill(p)
  PROVE  Inductive'
BY ExitStep DEF Kill, Alive, Only, files_of_run

LEMMA EditInductive ==
  ASSUME Inductive, Edit
  PROVE  Inductive'
<1>1. UNCHANGED <<files, text, pc, tool, held>>
  BY DEF Edit, files_of_run, process
<1>2. source' \in [text : Sources, edits : 0 .. MaxEdits]
  BY DriverAssumption DEF Edit, Inductive, Shapes
<1> QED
  BY <1>1, <1>2 DEF Inductive, Shapes, FrontEndIsMain, ChildrenFollow, CompilesParsed, LateIsAccepted,
                    ToolsHoldAccepted, OutputsComeFromAcceptedSources

\* Every step keeps the invariant.
LEMMA NextInductive == Inductive /\ [Next]_vars => Inductive'
<1> SUFFICES ASSUME Inductive, [Next]_vars PROVE Inductive'
  OBVIOUS
<1>1. ASSUME NEW r \in Runs, NEW f \in Forms, Start(r, f) PROVE Inductive'
  BY <1>1, StartInductive
<1>2. ASSUME NEW p \in Process, Step(p) PROVE Inductive'
  BY <1>2, ParseInductive, CompileInductive, OpenInductive, PrintInductive, ForkInductive,
     WaitInductive, ExecInductive, ReadInductive, WriteInductive DEF Step
<1>3. ASSUME NEW p \in Process, Kill(p) PROVE Inductive'
  BY <1>3, KillInductive
<1>4. CASE Edit
  BY <1>4, EditInductive
<1>5. CASE UNCHANGED vars
  BY <1>5 DEF vars, files_of_run, process, Inductive, Shapes, FrontEndIsMain, ChildrenFollow,
              CompilesParsed, LateIsAccepted, ToolsHoldAccepted, OutputsComeFromAcceptedSources
<1> QED
  BY <1>1, <1>2, <1>3, <1>4, <1>5 DEF Next

\* Whatever fails and whoever is killed, in any number of runs of main.cpp, the
\* intermediate, the assembly and the executable never come from a source that the
\* parser, the analyzer or the generator has refused.
THEOREM OnlyAcceptedSourcesAreBuilt == Spec => []OutputsComeFromAcceptedSources
<1>1. Inductive => OutputsComeFromAcceptedSources
  BY DEF Inductive
<1> QED
  BY <1>1, InitInductive, NextInductive, PTL DEF Spec

-----------------------------------------------------------------------------
(* Types                                                                   *)

Counted ==
  /\ form \in [Runs -> Forms \cup {"none"}] /\ child \in [Process -> BOOLEAN]
  /\ status \in [Process -> {NoStatus, Signaled} \cup 0 .. 2]
  /\ faults \subseteq FaultKinds \X Process /\ IsFiniteSet(faults) /\ Cardinality(faults) <= MaxFaults
  /\ alone \subseteq Runs

\* A fault is charged only while there are fewer than MaxFaults.
LEMMA FaultCounted ==
  ASSUME Counted, NEW k \in FaultKinds, NEW p \in Process, Fault(k, p)
  PROVE  /\ faults' \subseteq FaultKinds \X Process /\ IsFiniteSet(faults')
         /\ Cardinality(faults') <= MaxFaults
<1>1. /\ faults' = faults \cup {<<k, p>>} /\ Cardinality(faults) < MaxFaults
      /\ IsFiniteSet(faults) /\ faults \subseteq FaultKinds \X Process
  BY DEF Fault, Counted
<1>2. /\ IsFiniteSet(faults')
      /\ Cardinality(faults') = IF <<k, p>> \in faults THEN Cardinality(faults) ELSE Cardinality(faults) + 1
  BY <1>1, FS_AddElement
<1>3. Cardinality(faults) \in Nat /\ MaxFaults \in Nat
  BY <1>1, FS_CardinalityType, DriverAssumption
<1> QED BY <1>1, <1>2, <1>3

LEMMA StepCounted ==
  ASSUME Counted, NEW p \in Process, Step(p) \/ Kill(p)
  PROVE  Counted'
<1>1. form' = form /\ alone' = alone
  BY DEF Step, Parse, Compile, OpenIntermediate, PrintIntermediate, Fork, Wait, Exec, ToolReads, ToolWrites, Kill, Only, files_of_run
<1>2. child' \in [Process -> BOOLEAN]
  BY DEF Counted, Step, Parse, Compile, OpenIntermediate, PrintIntermediate, Fork, Wait, Exec, ToolReads, ToolWrites, Kill, Only, files_of_run
<1>3. status' = status \/ \E code \in {Signaled} \cup 0 .. 2 : status' = [status EXCEPT ![p] = code]
  <2>1. \A code : Exit(p, code) => status' = [status EXCEPT ![p] = code]
    BY DEF Exit
  <2>2. \A stage : Goto(p, stage) => status' = status
    BY DEF Goto
  <2>3. GoOn(p) => status' = status \/ status' = [status EXCEPT ![p] = 0]
    BY <2>1, <2>2 DEF GoOn
  <2>4. 0 \in 0 .. 2 /\ 1 \in 0 .. 2 /\ 2 \in 0 .. 2
    OBVIOUS
  <2> QED
    BY <2>1, <2>2, <2>3, <2>4 DEF Step, Parse, Compile, OpenIntermediate, PrintIntermediate, Fork, Wait, Exec, ToolReads, ToolWrites, Kill
<1>4. faults' = faults \/ \E k \in FaultKinds : Fault(k, p)
  BY DEF Step, Parse, Compile, OpenIntermediate, PrintIntermediate, Fork, Wait, Exec, ToolReads, ToolWrites, Kill, Faultless, FaultKinds
<1>5. /\ faults' \subseteq FaultKinds \X Process /\ IsFiniteSet(faults')
      /\ Cardinality(faults') <= MaxFaults
  BY <1>4, FaultCounted DEF Counted
<1>6. status' \in [Process -> {NoStatus, Signaled} \cup 0 .. 2]
  BY <1>3 DEF Counted
<1> QED BY <1>1, <1>2, <1>5, <1>6 DEF Counted

LEMMA StartCounted ==
  ASSUME Counted, NEW r \in Runs, NEW f \in Forms, Start(r, f)
  PROVE  Counted'
<1>1. Main(r) \in Process
  BY ProcessNames
<1>2. form' \in [Runs -> Forms \cup {"none"}] /\ child' \in [Process -> BOOLEAN] /\ alone' \subseteq Runs
  BY DEF Start, Counted
<1>3. \/ status' = status /\ faults' = faults
      \/ status' = [status EXCEPT ![Main(r)] = 2] /\ Fault("open", Main(r))
  BY DEF Start, Goto, Exit, Faultless
<1>4. /\ faults' \subseteq FaultKinds \X Process /\ IsFiniteSet(faults')
      /\ Cardinality(faults') <= MaxFaults
  BY <1>1, <1>3, FaultCounted DEF Counted, FaultKinds
<1>5. status' \in [Process -> {NoStatus, Signaled} \cup 0 .. 2]
  BY <1>3 DEF Counted
<1> QED BY <1>2, <1>4, <1>5 DEF Counted

LEMMA CountedPreserved == Counted /\ [Next]_vars => Counted'
<1>1. ASSUME Counted, Edit \/ UNCHANGED vars PROVE Counted'
  BY <1>1 DEF Counted, Edit, vars, files_of_run, process
<1> QED BY <1>1, StepCounted, StartCounted DEF Next

LEMMA CountedInitially == Init => Counted
<1> SUFFICES ASSUME Init PROVE Counted
  OBVIOUS
<1>1. IsFiniteSet({}) /\ Cardinality({}) = 0
  BY FS_EmptySet
<1> QED BY <1>1, DriverAssumption DEF Init, Counted

\* main.cpp with its processes and files stays within its types: no exit status but
\* those of main and of signals, no content that is not a source's, no more faults
\* than allowed.
THEOREM DriverIsTyped == Spec => []TypeOK
<1>1. Inductive /\ Counted => TypeOK
  BY DEF Inductive, Shapes, Counted, TypeOK
<1> QED
  BY <1>1, InitInductive, NextInductive, CountedInitially, CountedPreserved, PTL DEF Spec

-----------------------------------------------------------------------------
(* Who works                                                               *)

NoKills == \A f \in faults : f[1] # "kill"

ProcessShapes ==
  /\ pc \in [Process -> Stages] /\ tool \in [Process -> Tools] /\ child \in [Process -> BOOLEAN]

ParentsWait ==
  \A p \in Process, t \in Tools :
    ChildOf(p, t) \in Process /\ Alive(ChildOf(p, t)) => pc[p] = "wait" /\ child[p] /\ tool[p] = t
RunsInTurn == \A r, s \in Runs : r < s /\ pc[Main(s)] # "idle" => pc[Main(r)] = "exited"

WaitInvariant == ProcessShapes /\ RunsInTurn /\ (NoKills => ParentsWait)

-----------------------------------------------------------------------------
(* The tree of processes                                                   *)

LEMMA AppendToOne ==
  ASSUME NEW S, NEW t \in S, NEW u \in S
  PROVE  Append(<<t>>,u) = <<t,u>>
<1> DEFINE k == <<t>>
           l == <<t, u>>
<1>1. k \in Seq(S) /\ Len(k) = 1 /\ k[1] = t
  <2>1. k \in Seq(S)
    OBVIOUS
  <2>2. Len(k) = 1
    OBVIOUS
  <2> QED BY <2>1, <2>2
<1>2. l \in Seq(S) /\ Len(l) = 2 /\ l[1] = t /\ l[2] = u
  <2>1. l \in Seq(S)
    OBVIOUS
  <2>2. Len(l) = 2
    OBVIOUS
  <2> QED BY <2>1, <2>2
<1> HIDE DEF k, l
<1> DEFINE a == Append(k, u)
<1>3. /\ a \in Seq(S) /\ Len(a) = Len(k) + 1 /\ a[Len(k) + 1] = u
      /\ \A i \in 1 .. Len(k) : a[i] = k[i]
  <2>1. \A s \in Seq(S), e \in S :
          /\ Append(s, e) \in Seq(S) /\ Len(Append(s, e)) = Len(s) + 1
          /\ Append(s, e)[Len(s) + 1] = e
          /\ \A i \in 1 .. Len(s) : Append(s, e)[i] = s[i]
    OBVIOUS
  <2> QED BY <1>1, <2>1, ZenonT(20)
<1> HIDE DEF a
<1>4. Len(a) = Len(l) /\ \A i \in 1 .. Len(a) : a[i] = l[i]
  BY <1>1, <1>2, <1>3
<1>5. a = l
  BY <1>2, <1>3, <1>4, SeqEqual
<1> QED BY <1>5 DEF a, k, l

LEMMA TreeOfProcesses ==
  /\ \A p \in Process, t \in Tools : ChildOf(p, t) # p
  /\ \A p, q \in Process, t, u \in Tools : ChildOf(p, t) = ChildOf(q, u) => p = q /\ t = u
  /\ \A p \in Process :
       LET r == p[1]
       IN  /\ r \in Runs /\ Main(r) \in Process
           /\ \/ p = Main(r) \/ p = ChildOf(Main(r), "llc") \/ p = ChildOf(Main(r), "gcc")
              \/ p = ChildOf(ChildOf(Main(r), "llc"), "gcc")
           /\ ChildOf(Main(r), "llc") \in Process
<1>1. \A p \in Process : p[1] \in Runs /\ p[2] \in Seq(Tools) /\ p = <<p[1], p[2]>>
  <2>1. \A p \in Process : p[1] \in Runs /\ p[2] \in Lines /\ p = <<p[1], p[2]>>
    BY DEF Process, Lines
  <2>2. Lines \subseteq Seq(Tools)
    BY DEF Lines, Tools
  <2> QED BY <2>1, <2>2
<1>2. ASSUME NEW k \in Seq(Tools), NEW l \in Seq(Tools), NEW t \in Tools, NEW u \in Tools
      PROVE  /\ Append(k, t) # k
             /\ Append(k, t) = Append(l, u) => k = l /\ t = u
  <2>1. Len(Append(k, t)) = Len(k) + 1 /\ Len(k) \in Nat
    OBVIOUS
  <2>2. ASSUME Append(k, t) = Append(l, u) PROVE k = l /\ t = u
    <3>1. Len(k) = Len(l)
      BY <2>2
    <3>2. t = u
      BY <2>2, <3>1
    <3>3. ASSUME NEW i \in 1 .. Len(k) PROVE k[i] = l[i]
      <4>1. Append(k, t)[i] = k[i] /\ Append(l, u)[i] = l[i]
        BY <3>1
      <4> QED BY <2>2, <4>1
    <3> QED BY <3>1, <3>2, <3>3
  <2> QED BY <2>1, <2>2
<1>3. \A p \in Process, t \in Tools : ChildOf(p, t) # p
  BY <1>1, <1>2 DEF ChildOf
<1>4. \A p, q \in Process, t, u \in Tools : ChildOf(p, t) = ChildOf(q, u) => p = q /\ t = u
  BY <1>1, <1>2 DEF ChildOf
<1>5. ASSUME NEW p \in Process
      PROVE  /\ p[1] \in Runs /\ Main(p[1]) \in Process
             /\ \/ p = Main(p[1]) \/ p = ChildOf(Main(p[1]), "llc") \/ p = ChildOf(Main(p[1]), "gcc")
                \/ p = ChildOf(ChildOf(Main(p[1]), "llc"), "gcc")
             /\ ChildOf(Main(p[1]), "llc") \in Process
  <2>1. /\ p[1] \in Runs /\ p = <<p[1], p[2]>>
        /\ p[2] \in {<<>>, <<"llc">>, <<"gcc">>, <<"llc", "gcc">>}
    BY DEF Process
  <2>2. /\ Append(<<>>, "llc") = <<"llc">> /\ Append(<<>>, "gcc") = <<"gcc">>
        /\ Append(<<"llc">>, "gcc") = <<"llc", "gcc">>
    <3>1. \A t : Append(<<>>, t) = <<t>>
      OBVIOUS
    <3>2. \A t, u \in Tools : Append(<<t>>, u) = <<t, u>>
      BY AppendToOne
    <3>3. "llc" \in Tools /\ "gcc" \in Tools
      BY DEF Tools
    <3>4. Append(<<"llc">>, "gcc") = <<"llc", "gcc">>
      BY <3>2, <3>3, Zenon
    <3> QED BY <3>1, <3>4, Zenon
  <2>3. /\ Main(p[1]) = <<p[1], <<>>>> /\ ChildOf(Main(p[1]), "llc") = <<p[1], <<"llc">>>>
        /\ ChildOf(Main(p[1]), "gcc") = <<p[1], <<"gcc">>>>
        /\ ChildOf(ChildOf(Main(p[1]), "llc"), "gcc") = <<p[1], <<"llc", "gcc">>>>
    BY <2>2 DEF Main, ChildOf
  <2> QED BY <2>1, <2>3 DEF Process
<1> QED BY <1>3, <1>4, <1>5

\* While nobody is killed, a process that does not wait has no living child, and one
\* that goes on after waiting has none left.
LEMMA NoLivingChild ==
  ASSUME ParentsWait, NEW p \in Process,
         pc[p] = "wait" => (child[p] => pc[ChildOf(p, tool[p])] = "exited")
  PROVE  \A t \in Tools : ChildOf(p, t) \in Process => ~Alive(ChildOf(p, t))
BY DEF ParentsWait, Alive

-----------------------------------------------------------------------------
(* The steps                                                               *)

\* A step of a process that lives, or the start of a main process, when nothing below
\* the process lives.
LEMMA MoveWaits ==
  ASSUME WaitInvariant, NEW p \in Process, NEW stage \in Stages, stage # "idle",
         pc' = [pc EXCEPT ![p] = stage],
         ProcessShapes', faults \subseteq faults',
         \A q \in Process : q # p => child'[q] = child[q] /\ tool'[q] = tool[q],
         NoKills' /\ pc[p] = "wait" => (child[p] => pc[ChildOf(p, tool[p])] = "exited"),
         \/ Alive(p)
         \/ \E r \in Runs : /\ p = Main(r) /\ pc[p] = "idle"
                            /\ \A q \in Runs : q < r => pc[Main(q)] = "exited"
  PROVE  WaitInvariant'
<1>1. pc \in [Process -> Stages] /\ RunsInTurn /\ \A r \in Runs : Main(r) \in Process
  BY ProcessNames DEF WaitInvariant, ProcessShapes
<1>2. \A q \in Process : pc'[q] = IF q = p THEN stage ELSE pc[q]
  BY <1>1
<1>3. RunsInTurn'
  <2>1. ASSUME NEW r \in Runs, NEW s \in Runs, r < s, pc'[Main(s)] # "idle"
        PROVE  pc'[Main(r)] = "exited"
    <3>1. pc[p] # "exited"
      BY DEF Alive
    <3>2. pc[Main(r)] = "exited"
      <4>1. CASE pc[Main(s)] # "idle"
        BY <1>1, <2>1, <4>1 DEF RunsInTurn
      <4>2. CASE pc[Main(s)] = "idle"
        <5>1. p = Main(s) /\ ~Alive(p)
          BY <1>1, <1>2, <2>1, <4>2 DEF Alive
        <5>2. \A k \in Runs : Main(k) = Main(s) => k = s
          BY DEF Main
        <5> QED BY <2>1, <5>1, <5>2
      <4> QED BY <4>1, <4>2
    <3> QED BY <1>1, <1>2, <3>1, <3>2
  <2> QED BY <2>1 DEF RunsInTurn
<1>4. ASSUME NoKills' PROVE ParentsWait'
  <2>1. NoKills /\ ParentsWait
    BY <1>4 DEF NoKills, WaitInvariant
  <2>2. \A t \in Tools : ChildOf(p, t) \in Process => ~Alive(ChildOf(p, t))
    BY <1>4, <2>1, NoLivingChild
  <2>3. ASSUME NEW q \in Process, NEW t \in Tools, ChildOf(q, t) \in Process, Alive(ChildOf(q, t))'
        PROVE  pc'[q] = "wait" /\ child'[q] /\ tool'[q] = t
    <3>1. \A r : ChildOf(q, t) # Main(r)
      BY ProcessNames
    <3>2. Alive(ChildOf(q, t))
      BY <1>2, <2>3, <3>1 DEF Alive
    <3>3. q # p
      BY <2>2, <2>3, <3>2
    <3> QED BY <1>2, <2>1, <2>3, <3>2, <3>3 DEF ParentsWait
  <2> QED BY <2>3 DEF ParentsWait
<1> QED BY <1>3, <1>4 DEF WaitInvariant

\* The block of a tool is left.
LEMMA GoOnWaits ==
  ASSUME WaitInvariant, NEW p \in Process, GoOn(p), Alive(p), child' = child, faults \subseteq faults',
         NoKills' /\ pc[p] = "wait" => (child[p] => pc[ChildOf(p, tool[p])] = "exited")
  PROVE  WaitInvariant'
<1>1. PICK stage \in {"fork", "exited"} : pc' = [pc EXCEPT ![p] = stage]
  BY DEF GoOn, Goto, Exit
<1>2. tool' = tool \/ tool' = [tool EXCEPT ![p] = "gcc"]
  BY DEF GoOn
<1>3. ProcessShapes' /\ \A q \in Process : q # p => tool'[q] = tool[q]
  BY <1>1, <1>2 DEF WaitInvariant, ProcessShapes, Stages, Tools
<1> QED BY <1>1, <1>3, MoveWaits DEF Stages

\* A process moves on or ends, and that is all.
LEMMA QuietWaits ==
  ASSUME WaitInvariant, NEW p \in Process, NEW stage \in Stages, stage # "idle",
         pc' = [pc EXCEPT ![p] = stage], UNCHANGED <<tool, child>>, faults \subseteq faults',
         NoKills' /\ pc[p] = "wait" => (child[p] => pc[ChildOf(p, tool[p])] = "exited"), Alive(p)
  PROVE  WaitInvariant'
<1>1. ProcessShapes'
  BY DEF WaitInvariant, ProcessShapes
<1> QED BY <1>1, MoveWaits

LEMMA ForkWaits ==
  ASSUME WaitInvariant, NEW p \in Process, Fork(p)
  PROVE  WaitInvariant'
<1> DEFINE c == ChildOf(p, tool[p])
<1>1. /\ pc[p] = "fork" /\ Alive(p) /\ faults \subseteq faults'
      /\ ProcessShapes /\ RunsInTurn /\ (NoKills => ParentsWait)
      /\ \A r \in Runs : Main(r) \in Process
  BY ProcessNames DEF Fork, Faultless, Fault, Alive, WaitInvariant
<1>2. CASE /\ pc' = [pc EXCEPT ![p] = "wait", ![c] = "exec"]
           /\ tool' = [tool EXCEPT ![c] = tool[p]]
           /\ child' = [child EXCEPT ![p] = TRUE]
  <2>1. tool[p] \in Tools /\ c # p /\ \A r : c # Main(r)
    BY <1>1, ProcessNames, TreeOfProcesses DEF ProcessShapes
  <2> HIDE DEF c
  <2>2. \A q \in Process :
          /\ pc'[q] = IF q = c THEN "exec" ELSE IF q = p THEN "wait" ELSE pc[q]
          /\ q # c => tool'[q] = tool[q]
          /\ child'[q] = IF q = p THEN TRUE ELSE child[q]
    BY <1>1, <1>2, <2>1 DEF ProcessShapes
  <2>3. ProcessShapes'
    BY <1>1, <1>2, <2>1 DEF ProcessShapes, Stages
  <2>4. RunsInTurn'
    <3>1. \A r \in Runs : /\ pc'[Main(r)] # "idle" => pc[Main(r)] # "idle"
                          /\ pc[Main(r)] = "exited" => pc'[Main(r)] = "exited"
      BY <1>1, <2>1, <2>2
    <3> QED BY <1>1, <3>1 DEF RunsInTurn
  <2>5. ASSUME NoKills' PROVE ParentsWait'
    <3>1. ParentsWait
      BY <1>1, <2>5 DEF NoKills
    <3>2. \A t \in Tools : ChildOf(p, t) \in Process => ~Alive(ChildOf(p, t))
      BY <1>1, <3>1 DEF ParentsWait
    <3>3. ASSUME NEW q \in Process, NEW t \in Tools, ChildOf(q, t) \in Process, Alive(ChildOf(q, t))'
          PROVE  pc'[q] = "wait" /\ child'[q] /\ tool'[q] = t
      <4>1. CASE ChildOf(q, t) = c
        <5>1. q = p /\ t = tool[p]
          <6>1. PICK u \in Tools : u = tool[p]
            BY <2>1
          <6>2. ChildOf(q, t) = ChildOf(p, u)
            BY <4>1, <6>1 DEF c
          <6>3. \A a, b \in Process, v, w \in Tools : ChildOf(a, v) = ChildOf(b, w) => a = b /\ v = w
            BY TreeOfProcesses
          <6> QED BY <6>1, <6>2, <6>3
        <5> QED BY <2>1, <2>2, <5>1
      <4>2. CASE ChildOf(q, t) # c
        <5>1. Alive(ChildOf(q, t))
          BY <1>1, <2>2, <3>3, <4>2 DEF Alive
        <5>2. pc[q] = "wait" /\ child[q] /\ tool[q] = t
          BY <3>1, <3>3, <5>1 DEF ParentsWait
        \* A child that is yet to be made does not wait.
        <5>3. q # p /\ q # c
          BY <1>1, <2>1, <3>2, <5>2 DEF Alive, c
        <5> QED BY <2>2, <5>2, <5>3
      <4> QED BY <4>1, <4>2
    <3> QED BY <3>3 DEF ParentsWait
  <2> QED BY <2>3, <2>4, <2>5 DEF WaitInvariant
<1>3. CASE Goto(p, "wait") /\ child' = [child EXCEPT ![p] = FALSE] /\ UNCHANGED tool
  <2>1. ProcessShapes' /\ pc' = [pc EXCEPT ![p] = "wait"]
        /\ \A q \in Process : q # p => child'[q] = child[q]
    BY <1>1, <1>3 DEF ProcessShapes, Goto, Stages
  <2> QED BY <1>1, <1>3, <2>1, MoveWaits DEF Stages
<1> QED BY <1>2, <1>3 DEF Fork

LEMMA StepWaits ==
  ASSUME WaitInvariant, NEW p \in Process, Step(p)
  PROVE  WaitInvariant'
<1>1. faults \subseteq faults'
  BY DEF Step, Parse, Compile, OpenIntermediate, PrintIntermediate, Fork, Wait, Exec, ToolReads,
         ToolWrites, Faultless, Fault
<1>2. CASE Parse(p) \/ Compile(p) \/ OpenIntermediate(p) \/ PrintIntermediate(p)
           \/ ToolReads(p) \/ ToolWrites(p)
  <2>1. /\ pc[p] \in Stages \ {"idle", "exited", "wait"} /\ UNCHANGED <<tool, child>>
        /\ \E stage \in Stages \ {"idle"} : pc' = [pc EXCEPT ![p] = stage]
    <3>1. Parse(p) => /\ pc[p] = "parse" /\ UNCHANGED <<tool, child>>
                      /\ \E stage \in {"exited", "compile"} : pc' = [pc EXCEPT ![p] = stage]
      BY DEF Parse, Goto, Exit
    <3>2. Compile(p) => /\ pc[p] = "compile" /\ UNCHANGED <<tool, child>>
                        /\ \E stage \in {"exited", "open"} : pc' = [pc EXCEPT ![p] = stage]
      BY DEF Compile, Goto, Exit
    <3>3. OpenIntermediate(p) => /\ pc[p] = "open" /\ UNCHANGED <<tool, child>>
                                 /\ \E stage \in {"exited", "print"} : pc' = [pc EXCEPT ![p] = stage]
      BY DEF OpenIntermediate, Goto, Exit
    <3>4. PrintIntermediate(p) => /\ pc[p] = "print" /\ UNCHANGED <<tool, child>>
                                  /\ pc' = [pc EXCEPT ![p] = "fork"]
      BY DEF PrintIntermediate, Goto
    <3>5. ToolReads(p) => /\ pc[p] = "read" /\ UNCHANGED <<tool, child>>
                          /\ pc' = [pc EXCEPT ![p] = "write"]
      BY DEF ToolReads, Goto
    <3>6. ToolWrites(p) => /\ pc[p] = "write" /\ UNCHANGED <<tool, child>>
                           /\ pc' = [pc EXCEPT ![p] = "exited"]
      BY DEF ToolWrites, Exit
    <3> QED BY <1>2, <3>1, <3>2, <3>3, <3>4, <3>5, <3>6 DEF Stages
  <2> QED BY <1>1, <2>1, QuietWaits DEF Alive
<1>3. CASE Fork(p)
  BY <1>3, ForkWaits
<1>4. CASE Wait(p)
  <2>1. /\ pc[p] = "wait" /\ Alive(p) /\ child' = child
        /\ child[p] => pc[ChildOf(p, tool[p])] = "exited"
    BY <1>4 DEF Wait, Alive
  <2>2. CASE GoOn(p)
    BY <1>1, <2>1, <2>2, GoOnWaits
  <2>3. CASE Exit(p, 2) /\ UNCHANGED tool
    BY <1>1, <2>1, <2>3, QuietWaits DEF Exit, Stages
  <2> QED BY <1>4, <2>2, <2>3 DEF Wait
<1>5. CASE Exec(p)
  <2>1. pc[p] = "exec" /\ Alive(p) /\ child' = child
    BY <1>5 DEF Exec, Alive
  <2>2. CASE Goto(p, "read") /\ UNCHANGED tool
    BY <1>1, <2>1, <2>2, QuietWaits DEF Goto, Stages
  <2>3. CASE GoOn(p)
    BY <1>1, <2>1, <2>3, GoOnWaits
  <2> QED BY <1>5, <2>2, <2>3 DEF Exec
<1> QED BY <1>2, <1>3, <1>4, <1>5 DEF Step

LEMMA StartWaits ==
  ASSUME WaitInvariant, NEW r \in Runs, NEW f \in Forms, Start(r, f)
  PROVE  WaitInvariant'
<1>1. /\ Main(r) \in Process /\ pc[Main(r)] = "idle"
      /\ \A q \in 1 .. r - 1 : pc[Main(q)] = "exited"
      /\ UNCHANGED <<tool, child>> /\ faults \subseteq faults'
  BY ProcessNames DEF Start, Faultless, Fault
<1>2. PICK stage \in {"parse", "exited"} : pc' = [pc EXCEPT ![Main(r)] = stage]
  BY DEF Start, Goto, Exit
<1>3. \A q \in Runs : q < r => pc[Main(q)] = "exited"
  <2>1. \A q \in Runs : q < r => q \in 1 .. r - 1
    BY DriverAssumption DEF Runs
  <2> QED BY <1>1, <2>1
<1>4. ProcessShapes'
  BY <1>1, <1>2 DEF WaitInvariant, ProcessShapes, Stages
<1> QED BY <1>1, <1>2, <1>3, <1>4, MoveWaits DEF Stages

\* A kill may leave a child without the parent that waited for it; the invariant says
\* nothing of it from then on.
LEMMA KillWaits ==
  ASSUME WaitInvariant, NEW p \in Process, Kill(p)
  PROVE  WaitInvariant'
<1>1. /\ pc' = [pc EXCEPT ![p] = "exited"] /\ UNCHANGED <<tool, child>>
      /\ faults' = faults \cup {<<"kill", p>>} /\ Alive(p)
  BY DEF Kill, Exit, Fault
<1>2. ~NoKills'
  <2>1. <<"kill", p>> \in faults' /\ <<"kill", p>>[1] = "kill"
    BY <1>1
  <2> QED BY <2>1 DEF NoKills
<1> QED BY <1>1, <1>2, QuietWaits DEF Stages

LEMMA WaitsPreserved == WaitInvariant /\ [Next]_vars => WaitInvariant'
<1> SUFFICES ASSUME WaitInvariant, [Next]_vars PROVE WaitInvariant'
  OBVIOUS
<1>1. CASE Edit \/ UNCHANGED vars
  BY <1>1 DEF Edit, vars, process, WaitInvariant, ProcessShapes, RunsInTurn, NoKills, ParentsWait, Alive
<1> QED BY <1>1, StartWaits, StepWaits, KillWaits DEF Next

LEMMA WaitsInitially == Init => WaitInvariant
BY ProcessNames DEF Init, WaitInvariant, ProcessShapes, RunsInTurn, ParentsWait, Stages, Tools, Alive

-----------------------------------------------------------------------------
(* The theorem                                                             *)

\* Two processes that live and do not wait are one.
LEMMA OneWorker ==
  ASSUME ProcessShapes, RunsInTurn, ParentsWait,
         NEW p \in Process, NEW q \in Process,
         Alive(p), pc[p] # "wait", Alive(q), pc[q] # "wait"
  PROVE  p = q
<1>1. ASSUME NEW x \in Process, Alive(x)
      PROVE  LET m == Main(x[1])
             IN  /\ x[1] \in Runs /\ Alive(m) /\ (x # m => pc[m] = "wait")
                 /\ x = ChildOf(m, "llc") => tool[m] = "llc"
                 /\ x = ChildOf(m, "gcc") => tool[m] = "gcc"
                 /\ x = ChildOf(ChildOf(m, "llc"), "gcc") =>
                      tool[m] = "llc" /\ pc[ChildOf(m, "llc")] = "wait"
  <2> DEFINE m == Main(x[1])  a == ChildOf(m, "llc")
  <2>1. /\ x[1] \in Runs /\ m \in Process /\ a \in Process /\ "llc" \in Tools /\ "gcc" \in Tools
        /\ (x = m \/ x = a \/ x = ChildOf(m, "gcc") \/ x = ChildOf(a, "gcc"))
    BY TreeOfProcesses DEF Tools
  <2> HIDE DEF m
  <2>2. x = a => pc[m] = "wait" /\ tool[m] = "llc"
    BY <1>1, <2>1 DEF ParentsWait
  <2>3. x = ChildOf(m, "gcc") => pc[m] = "wait" /\ tool[m] = "gcc"
    BY <1>1, <2>1 DEF ParentsWait
  <2>4. x = ChildOf(a, "gcc") => pc[a] = "wait" /\ pc[m] = "wait" /\ tool[m] = "llc"
    <3>1. x = ChildOf(a, "gcc") => pc[a] = "wait"
      BY <1>1, <2>1 DEF ParentsWait
    <3>2. pc[a] = "wait" => pc[m] = "wait" /\ tool[m] = "llc"
      BY <2>1 DEF ParentsWait, Alive
    <3> QED BY <3>1, <3>2
  <2>5. Alive(m) /\ (x # m => pc[m] = "wait")
    BY <1>1, <2>1, <2>2, <2>3, <2>4 DEF Alive
  <2> QED BY <2>1, <2>2, <2>3, <2>4, <2>5 DEF m
<1>2. p[1] = q[1]
  <2>1. p[1] \in Nat /\ q[1] \in Nat /\ p[1] \in Runs /\ q[1] \in Runs
    BY <1>1 DEF Runs
  <2>2. \A r, s \in Runs : r < s => ~(Alive(Main(r)) /\ Alive(Main(s)))
    BY DEF RunsInTurn, Alive
  <2>3. ~(p[1] < q[1]) /\ ~(q[1] < p[1])
    BY <1>1, <2>1, <2>2
  <2> QED BY <2>1, <2>3
<1>3. \A x \in {p, q} :
        \/ x = Main(p[1]) \/ x = ChildOf(Main(p[1]), "llc") \/ x = ChildOf(Main(p[1]), "gcc")
        \/ x = ChildOf(ChildOf(Main(p[1]), "llc"), "gcc")
  BY <1>2, TreeOfProcesses
<1> QED BY <1>1, <1>2, <1>3

\* Whatever fails in any number of runs of main.cpp, as long as no process is killed
\* at most one does anything: no tool is left behind when its run has ended, and no two
\* processes write a file.
THEOREM OneProcessWorks == Spec => []OneWorksOthersWait
<1>1. WaitInvariant => OneWorksOthersWait
  <2> SUFFICES ASSUME WaitInvariant, NoKills
               PROVE  Cardinality({p \in Process : Alive(p) /\ pc[p] # "wait"}) <= 1
    BY DEF OneWorksOthersWait, NoKills
  <2> DEFINE S == {p \in Process : Alive(p) /\ pc[p] # "wait"}
  <2>1. \A p, q \in S : p = q
    BY OneWorker DEF WaitInvariant
  <2>2. S = {} \/ \E p \in S : S = {p}
    BY <2>1
  <2> HIDE DEF S
  <2>3. Cardinality(S) <= 1
    BY <2>2, FS_EmptySet, FS_Singleton
  <2> QED BY <2>3 DEF S
<1> QED BY <1>1, WaitsInitially, WaitsPreserved, PTL DEF Spec

-----------------------------------------------------------------------------
(* How deep forks go                                                       *)

\* A process forked for gcc is one until it ends; one forked for llc, when its exec has
\* failed, is at the block of gcc; and only a main process opens and prints.
ForkNames ==
  \A p \in Process :
    /\ p[2] # <<>> => pc[p] \notin {"parse", "compile", "open", "print"}
    /\ p[2] = <<"llc">> /\ pc[p] \in {"fork", "wait"} => tool[p] = "gcc"
    /\ p[2] \in {<<"gcc">>, <<"llc", "gcc">>} /\ pc[p] # "idle" =>
         tool[p] = "gcc" /\ pc[p] \in {"exec", "read", "write", "exited"}

LEMMA NamesDiffer ==
  /\ <<>> # <<"llc">> /\ <<>> # <<"gcc">> /\ <<>> # <<"llc", "gcc">>
  /\ <<"llc">> # <<"gcc">> /\ <<"llc">> # <<"llc", "gcc">>
OBVIOUS

\* What a process forks is one of Process, and is for the tool it is at.
LEMMA ForksAreNamed ==
  ASSUME ForkNames, Shapes, NEW p \in Process, pc[p] = "fork"
  PROVE  LET c == ChildOf(p, tool[p])
         IN  /\ c \in Process /\ c # p
             /\ c[2] = <<tool[p]>> \/ (c[2] = <<"llc", "gcc">> /\ tool[p] = "gcc")
<1>1. tool[p] \in Tools
  BY DEF Shapes
<1>2. p[1] \in Runs /\ p[2] \in {<<>>, <<"llc">>, <<"gcc">>, <<"llc", "gcc">>}
  BY DEF Process
<1>3. p[2] = <<>> \/ (p[2] = <<"llc">> /\ tool[p] = "gcc")
  BY <1>2 DEF ForkNames
<1>4. ChildOf(p, tool[p]) # p
  BY <1>1, TreeOfProcesses
<1>5. \A t : Append(<<>>, t) = <<t>>
  OBVIOUS
<1>6. Append(<<"llc">>, "gcc") = <<"llc", "gcc">>
  <2>1. \A t, u \in Tools : Append(<<t>>, u) = <<t, u>>
    BY AppendToOne
  <2>2. "llc" \in Tools /\ "gcc" \in Tools
    BY DEF Tools
  <2> QED BY <2>1, <2>2, Zenon
<1>7. ChildOf(p, tool[p]) = <<p[1], Append(p[2], tool[p])>>
  BY DEF ChildOf
<1>8. CASE p[2] = <<>>
  <2>1. ChildOf(p, tool[p]) = <<p[1], <<tool[p]>>>>
    BY <1>5, <1>7, <1>8, Zenon
  <2> QED BY <1>1, <1>2, <1>4, <2>1 DEF Process, Tools
<1>9. CASE p[2] = <<"llc">> /\ tool[p] = "gcc"
  <2>1. ChildOf(p, tool[p]) = <<p[1], <<"llc", "gcc">>>>
    BY <1>6, <1>7, <1>9, Zenon
  <2> QED BY <1>2, <1>4, <1>9, <2>1 DEF Process
<1> QED BY <1>3, <1>8, <1>9

\* A step of one process that does not fork.
LEMMA MoveNames ==
  ASSUME ForkNames, Shapes, NEW p \in Process, NEW stage \in Stages, NEW t \in Tools,
         pc[p] # "idle", pc' = [pc EXCEPT ![p] = stage], tool' = [tool EXCEPT ![p] = t],
         stage \notin {"idle", "parse"},
         stage \in {"compile", "open", "print"} => pc[p] \in {"parse", "compile", "open"},
         stage = "fork" => pc[p] = "print" \/ (tool[p] = "llc" /\ t = "gcc"),
         stage = "wait" => pc[p] = "fork",
         t # tool[p] => tool[p] = "llc"
  PROVE  ForkNames'
<1>1. ASSUME NEW q \in Process, q # p PROVE pc'[q] = pc[q] /\ tool'[q] = tool[q]
  BY <1>1 DEF Shapes
<1>2. pc'[p] = stage /\ tool'[p] = t /\ tool[p] \in Tools /\ t \in Tools
  BY DEF Shapes
<1>3. p[2] \in {<<>>, <<"llc">>, <<"gcc">>, <<"llc", "gcc">>}
  BY DEF Process
<1>4. p[2] # <<>> => stage \notin {"parse", "compile", "open", "print"}
  BY DEF ForkNames
<1>5. p[2] = <<"llc">> /\ stage \in {"fork", "wait"} => t = "gcc"
  BY <1>2, NamesDiffer DEF ForkNames, Tools
<1>6. p[2] \in {<<"gcc">>, <<"llc", "gcc">>} =>
        t = "gcc" /\ stage \in {"exec", "read", "write", "exited"}
  <2>1. ASSUME p[2] \in {<<"gcc">>, <<"llc", "gcc">>}
        PROVE  t = "gcc" /\ stage \in {"exec", "read", "write", "exited"}
    <3>1. tool[p] = "gcc" /\ pc[p] \in {"exec", "read", "write", "exited"}
      BY <2>1 DEF ForkNames
    <3> QED BY <1>2, <3>1 DEF Tools, Stages
  <2> QED BY <2>1
<1>7. ASSUME NEW q \in Process
      PROVE  /\ q[2] # <<>> => pc'[q] \notin {"parse", "compile", "open", "print"}
             /\ q[2] = <<"llc">> /\ pc'[q] \in {"fork", "wait"} => tool'[q] = "gcc"
             /\ q[2] \in {<<"gcc">>, <<"llc", "gcc">>} /\ pc'[q] # "idle" =>
                  tool'[q] = "gcc" /\ pc'[q] \in {"exec", "read", "write", "exited"}
  <2>1. CASE q = p
    BY <1>2, <1>4, <1>5, <1>6, <2>1
  <2>2. CASE q # p
    BY <1>1, <2>2 DEF ForkNames
  <2> QED BY <2>1, <2>2
<1> QED BY <1>7 DEF ForkNames

LEMMA ForkKeepsNames ==
  ASSUME ForkNames, Shapes, NEW p \in Process, Fork(p) PROVE ForkNames'
<1> DEFINE c == ChildOf(p, tool[p])
<1>1. pc[p] = "fork" /\ tool[p] \in Tools
  BY DEF Fork, Shapes
<1>2. /\ c \in Process /\ c # p
      /\ c[2] = <<tool[p]>> \/ (c[2] = <<"llc", "gcc">> /\ tool[p] = "gcc")
  BY <1>1, ForksAreNamed
<1>3. CASE Goto(p, "wait") /\ UNCHANGED tool
  <2>1. tool' = [tool EXCEPT ![p] = tool[p]] /\ pc' = [pc EXCEPT ![p] = "wait"]
    BY <1>3 DEF Goto, Shapes
  <2> QED BY <1>1, <2>1, MoveNames DEF Stages
<1>4. CASE pc' = [pc EXCEPT ![p] = "wait", ![c] = "exec"] /\ tool' = [tool EXCEPT ![c] = tool[p]]
  <2>1. /\ pc'[p] = "wait" /\ pc'[c] = "exec" /\ tool'[c] = tool[p] /\ tool'[p] = tool[p]
        /\ \A q \in Process : q # p /\ q # c => pc'[q] = pc[q] /\ tool'[q] = tool[q]
    BY <1>2, <1>4 DEF Shapes
  <2>2. <<"llc">> # <<"gcc">> /\ <<"llc", "gcc">> # <<"gcc">> /\ <<tool[p]>> # <<"llc", "gcc">> /\ <<tool[p]>> # <<>>
    OBVIOUS
  <2>3. c[2] \in {<<"gcc">>, <<"llc", "gcc">>} => tool[p] = "gcc"
    BY <1>1, <1>2, <2>2 DEF Tools
  <2>4. ASSUME NEW q \in Process
        PROVE  /\ q[2] # <<>> => pc'[q] \notin {"parse", "compile", "open", "print"}
               /\ q[2] = <<"llc">> /\ pc'[q] \in {"fork", "wait"} => tool'[q] = "gcc"
               /\ q[2] \in {<<"gcc">>, <<"llc", "gcc">>} /\ pc'[q] # "idle" =>
                    tool'[q] = "gcc" /\ pc'[q] \in {"exec", "read", "write", "exited"}
    <3>1. CASE q = c
      BY <2>1, <2>3, <3>1
    <3>2. CASE q = p
      BY <1>1, <2>1, <3>2 DEF ForkNames
    <3>3. CASE q # p /\ q # c
      BY <2>1, <3>3 DEF ForkNames
    <3> QED BY <3>1, <3>2, <3>3
  <2> QED BY <2>4 DEF ForkNames
<1> QED BY <1>3, <1>4 DEF Fork

LEMMA StepKeepsNames ==
  ASSUME ForkNames, Shapes, NEW p \in Process, Step(p) \/ Kill(p) PROVE ForkNames'
<1>1. CASE Fork(p)
  BY <1>1, ForkKeepsNames
<1>2. CASE ~Fork(p)
  <2>1. \E stage \in Stages, t \in Tools :
           /\ pc[p] # "idle" /\ pc' = [pc EXCEPT ![p] = stage] /\ tool' = [tool EXCEPT ![p] = t]
           /\ stage \notin {"idle", "parse"}
           /\ stage \in {"compile", "open", "print"} => pc[p] \in {"parse", "compile", "open"}
           /\ stage = "fork" => pc[p] = "print" \/ (tool[p] = "llc" /\ t = "gcc")
           /\ stage = "wait" => pc[p] = "fork"
           /\ t # tool[p] => tool[p] = "llc"
    <3>1. tool[p] \in Tools /\ tool = [tool EXCEPT ![p] = tool[p]] /\ "gcc" \in Tools
      BY DEF Shapes, Tools
    <3>2. CASE Parse(p) \/ Compile(p) \/ OpenIntermediate(p) \/ PrintIntermediate(p)
      BY <3>1, <3>2 DEF Parse, Compile, OpenIntermediate, PrintIntermediate, Goto, Exit, Stages
    <3>3. CASE Wait(p) \/ Exec(p)
      BY <3>1, <3>3 DEF Wait, Exec, GoOn, Goto, Exit, Stages
    <3>4. CASE ToolReads(p) \/ ToolWrites(p) \/ Kill(p)
      BY <3>1, <3>4 DEF ToolReads, ToolWrites, Kill, Alive, Goto, Exit, Stages
    <3> QED BY <1>2, <3>2, <3>3, <3>4 DEF Step
  <2> QED BY <2>1, MoveNames
<1> QED BY <1>1, <1>2

LEMMA NamesPreserved == ForkNames /\ Shapes /\ [Next]_vars => ForkNames'
<1> SUFFICES ASSUME ForkNames, Shapes, [Next]_vars PROVE ForkNames'
  OBVIOUS
<1>1. ASSUME NEW r \in Runs, NEW f \in Forms, Start(r, f) PROVE ForkNames'
  <2>1. Main(r) \in Process /\ Main(r)[2] = <<>>
    BY ProcessNames DEF Main
  <2>2. tool' = tool /\ \E stage : pc' = [pc EXCEPT ![Main(r)] = stage]
    BY <1>1 DEF Start, Goto, Exit
  <2> QED BY <2>1, <2>2, NamesDiffer DEF ForkNames, Shapes
<1>2. CASE Edit \/ UNCHANGED vars
  BY <1>2 DEF Edit, vars, process, ForkNames
<1> QED BY <1>1, <1>2, StepKeepsNames DEF Next

\* main.cpp:83 and main.cpp:98 may be reached by a child whose exec has failed, which
\* then forks as well; no process that comes of that is more than two forks away from
\* its run's main: what is forked is always one of the model's processes.
THEOREM ForksStayNamed ==
  Spec => [](\A p \in Process : pc[p] = "fork" => ChildOf(p, tool[p]) \in Process)
<1>1. Init => ForkNames
  BY DEF Init, ForkNames
<1>2. Inductive => Shapes
  BY DEF Inductive
<1>3. Inductive /\ ForkNames => \A p \in Process : pc[p] = "fork" => ChildOf(p, tool[p]) \in Process
  BY <1>2, ForksAreNamed
<1> QED
  BY <1>1, <1>2, <1>3, InitInductive, NextInductive, NamesPreserved, PTL DEF Spec

-----------------------------------------------------------------------------
(* What 0 means                                                            *)

\* What a tool reads and, when it has ended well, has left behind.
Input(t) == IF t = "llc" THEN files.ll ELSE files.s
Made(r, t) == IF t = "llc" THEN files.s = text[r] ELSE form[r] = "output" => files.out = text[r]

\* A run in progress that nothing has failed in and nobody else is there with.
Clean(r) == r \in alone /\ FaultsIn(r) = {} /\ Alive(Main(r))

\* Such a run consists of its main process and the tool that it waits for, and the
\* file between them is made from what the run has read.
OneToolAtATime(r) ==
  \A p \in Process : Alive(p) => p = Main(r) \/ (pc[Main(r)] = "wait" /\ p = ChildOf(Main(r), tool[Main(r)]))
MainStages(r) ==
  /\ pc[Main(r)] \in {"parse", "compile", "open", "print", "fork", "wait"}
  /\ pc[Main(r)] \notin {"fork", "wait"} => tool[Main(r)] = "llc"
InputIsCurrent(r) == pc[Main(r)] \in {"fork", "wait"} => Input(tool[Main(r)]) = text[r]
ToolIsCurrent(r) ==
  pc[Main(r)] = "wait" =>
    LET t == tool[Main(r)]
        c == ChildOf(Main(r), t)
    IN  /\ child[Main(r)] /\ c \in Process /\ tool[c] = t
        /\ pc[c] \in {"exec", "read", "write", "exited"}
        /\ (pc[c] = "write" => held[c] = text[r])
        /\ (pc[c] = "exited" => Made(r, t))
CleanRun(r) == OneToolAtATime(r) /\ MainStages(r) /\ InputIsCurrent(r) /\ ToolIsCurrent(r)

IdleIsFresh ==
  /\ \A p \in Process : pc[p] = "idle" => tool[p] = "llc"
  /\ \A r \in Runs : r \in alone => pc[Main(r)] # "idle"

BuildInvariant ==
  /\ Inductive /\ WaitInvariant /\ IdleIsFresh /\ status \in [Process -> Nat]
  /\ \A r \in Runs : Clean(r) => CleanRun(r)

-----------------------------------------------------------------------------
(* What every step does                                                    *)

LEMMA Names ==
  ASSUME BuildInvariant, NEW r \in Runs
  PROVE  /\ Main(r) \in Process /\ Main(r)[1] = r /\ tool[Main(r)] \in Tools
         /\ ChildOf(Main(r), tool[Main(r)])[1] = r
         /\ \A p \in Process, s \in Runs : ChildOf(p, tool[p]) # Main(s) /\ ChildOf(p, tool[p]) # p
         /\ \A s \in Runs : Main(s) = Main(r) => s = r
<1>1. ASSUME NEW p \in Process PROVE tool[p] \in Tools
  BY DEF BuildInvariant, WaitInvariant, ProcessShapes
<1>2. ASSUME NEW p \in Process, NEW s \in Runs
      PROVE  ChildOf(p, tool[p]) # Main(s) /\ ChildOf(p, tool[p]) # p /\ ChildOf(p, tool[p])[1] = p[1]
  <2>1. PICK t \in Tools : t = tool[p]
    BY <1>1
  <2>2. ChildOf(p, t) # p
    BY TreeOfProcesses
  <2>3. ChildOf(p, t) # Main(s) /\ ChildOf(p, t)[1] = p[1]
    BY ProcessNames
  <2> QED BY <2>1, <2>2, <2>3
<1>3. Main(r) \in Process /\ Main(r)[1] = r /\ \A s \in Runs : Main(s) = Main(r) => s = r
  BY ProcessNames DEF Main
<1> QED BY <1>1, <1>2, <1>3

LEMMA MainHasChildren ==
  ASSUME NEW r \in Runs, NEW t \in Tools
  PROVE  ChildOf(Main(r), t) \in Process
<1>1. \A u : Append(<<>>, u) = <<u>>
  OBVIOUS
<1>2. ChildOf(Main(r), t) = <<r, <<t>>>>
  BY <1>1 DEF ChildOf, Main
<1> QED BY <1>2 DEF Process, Tools

\* A fault of one of its processes ends that a run is clean.
LEMMA FaultsShow ==
  ASSUME NEW r \in Runs, NEW p \in Process, p[1] = r, NEW kind, Fault(kind, p)
  PROVE  ~Clean(r)'
<1>1. <<kind, p>> \in faults' /\ <<kind, p>>[2][1] = r
  BY DEF Fault
<1> QED BY <1>1 DEF Clean, FaultsIn

Moves(p) ==
  /\ Alive(p) /\ UNCHANGED <<form, alone>> /\ (faults' = faults \/ \E kind \in FaultKinds : Fault(kind, p))
  /\ pc'[p] # "idle" /\ status' \in [Process -> Nat]
  /\ \A q \in Process : q # p =>
       \/ pc'[q] = pc[q] /\ tool'[q] = tool[q]
       \/ q = ChildOf(p, tool[p]) /\ pc[p] = "fork" /\ pc'[q] = "exec"

LEMMA ExitMoves ==
  ASSUME BuildInvariant, NEW p \in Process, NEW code \in {0, 1, 2, Signaled}, Exit(p, code)
  PROVE  /\ pc' = [pc EXCEPT ![p] = "exited"] /\ status' \in [Process -> Nat] /\ pc'[p] = "exited"
         /\ status'[p] = code
  BY DEF BuildInvariant, Inductive, Shapes, Exit, Signaled

LEMMA GotoMoves ==
  ASSUME BuildInvariant, NEW p \in Process, NEW stage \in Stages, Goto(p, stage)
  PROVE  pc' = [pc EXCEPT ![p] = stage] /\ status' \in [Process -> Nat] /\ pc'[p] = stage
  BY DEF BuildInvariant, Inductive, Shapes, Goto

LEMMA GoOnMoves ==
  ASSUME BuildInvariant, NEW p \in Process, GoOn(p)
  PROVE  /\ \E stage \in {"fork", "exited"} : pc' = [pc EXCEPT ![p] = stage] /\ pc'[p] = stage
         /\ status' \in [Process -> Nat]
         /\ \A q \in Process : q # p => tool'[q] = tool[q]
<1>1. CASE Goto(p, "fork") /\ tool' = [tool EXCEPT ![p] = "gcc"]
  BY <1>1, GotoMoves DEF Stages, BuildInvariant, Inductive, Shapes
<1>2. CASE Exit(p, 0) /\ UNCHANGED tool
  BY <1>2, ExitMoves
<1> QED BY <1>1, <1>2 DEF GoOn

LEMMA StepMoves ==
  ASSUME BuildInvariant, NEW p \in Process, Step(p)
  PROVE  Moves(p)
<1>1. pc \in [Process -> Stages] /\ tool \in [Process -> Tools] /\ status \in [Process -> Nat]
  BY DEF BuildInvariant, Inductive, Shapes
<1>2. /\ Alive(p) /\ UNCHANGED <<form, alone>>
      /\ (faults' = faults \/ \E kind \in FaultKinds : Fault(kind, p))
  BY DEF Step, Parse, Compile, OpenIntermediate, PrintIntermediate, Fork, Wait, Exec, ToolReads,
         ToolWrites, Faultless, FaultKinds, Only, files_of_run, Alive
<1>3. ASSUME NEW stage \in Stages \ {"idle"}, pc' = [pc EXCEPT ![p] = stage],
             \A q \in Process : q # p => tool'[q] = tool[q], status' \in [Process -> Nat]
      PROVE  Moves(p)
  BY <1>1, <1>2, <1>3 DEF Moves
<1>4. ASSUME UNCHANGED tool,
             \/ \E stage \in Stages \ {"idle"} : Goto(p, stage)
             \/ \E code \in {0, 1, 2, Signaled} : Exit(p, code)
      PROVE  Moves(p)
  <2>1. ASSUME NEW stage \in Stages \ {"idle"}, Goto(p, stage) PROVE Moves(p)
    BY <1>3, <1>4, <2>1, GotoMoves
  <2>2. ASSUME NEW code \in {0, 1, 2, Signaled}, Exit(p, code) PROVE Moves(p)
    BY <1>3, <1>4, <2>2, ExitMoves DEF Stages
  <2> QED BY <1>4, <2>1, <2>2
<1>5. CASE GoOn(p)
  <2>1. PICK stage \in {"fork", "exited"} : pc' = [pc EXCEPT ![p] = stage]
    BY <1>5, GoOnMoves
  <2> QED BY <1>3, <1>5, <2>1, GoOnMoves DEF Stages
<1>6. CASE Parse(p)
  BY <1>4, <1>6 DEF Parse, Stages
<1>7. CASE Compile(p)
  BY <1>4, <1>7 DEF Compile, Stages
<1>8. CASE OpenIntermediate(p)
  BY <1>4, <1>8 DEF OpenIntermediate, Stages
<1>9. CASE PrintIntermediate(p) \/ ToolReads(p)
  BY <1>4, <1>9 DEF PrintIntermediate, ToolReads, Stages
<1>10. CASE Fork(p)
  <2>1. CASE Goto(p, "wait") /\ UNCHANGED tool
    BY <1>4, <2>1 DEF Stages
  <2>2. CASE /\ pc' = [pc EXCEPT ![p] = "wait", ![ChildOf(p, tool[p])] = "exec"]
             /\ tool' = [tool EXCEPT ![ChildOf(p, tool[p])] = tool[p]] /\ UNCHANGED status
    <3>1. ChildOf(p, tool[p]) # p /\ pc[p] = "fork"
      BY <1>10, ProcessNames, Names DEF Fork
    <3> QED BY <1>1, <1>2, <2>2, <3>1 DEF Moves
  <2> QED BY <1>10, <2>1, <2>2 DEF Fork
<1>11. CASE Wait(p) \/ Exec(p)
  BY <1>4, <1>5, <1>11 DEF Wait, Exec, Stages
<1>12. CASE ToolWrites(p)
  BY <1>4, <1>12 DEF ToolWrites
<1> QED BY <1>6, <1>7, <1>8, <1>9, <1>10, <1>11, <1>12 DEF Step

LEMMA KillMoves ==
  ASSUME BuildInvariant, NEW p \in Process, Kill(p)
  PROVE  Moves(p)
<1>1. /\ pc' = [pc EXCEPT ![p] = "exited"] /\ status' \in [Process -> Nat] /\ UNCHANGED tool
      /\ Fault("kill", p) /\ "kill" \in FaultKinds /\ UNCHANGED <<form, alone>> /\ Alive(p)
  BY ExitMoves DEF Kill, Only, files_of_run, FaultKinds
<1> QED BY <1>1 DEF Moves, BuildInvariant, Inductive, Shapes

-----------------------------------------------------------------------------
(* The steps of a clean run                                                *)

\* Only a process of the run itself can take a step while the run is clean.
LEMMA OwnStep ==
  ASSUME BuildInvariant, NEW r \in Runs, Clean(r), NEW p \in Process, Alive(p)
  PROVE  /\ CleanRun(r) /\ p[1] = r
         /\ p = Main(r) \/ (pc[Main(r)] = "wait" /\ p = ChildOf(Main(r), tool[Main(r)]) /\ p # Main(r))
BY Names DEF BuildInvariant, CleanRun, OneToolAtATime

\* A run is clean only because it was, or because it has just begun.
LEMMA StaysClean ==
  ASSUME BuildInvariant, NEW r \in Runs, NEW p \in Process, Moves(p), Clean(r)'
  PROVE  Clean(r) /\ (p[1] = r => faults' = faults) /\ CleanRun(r)
<1>1. r \in alone /\ FaultsIn(r) = {}
  BY DEF Moves, Clean, FaultsIn, Fault
<1>2. Alive(Main(r))
  BY Names DEF Moves, Clean, Alive
<1>3. p[1] = r => faults' = faults
  BY FaultsShow DEF Moves
<1> QED BY <1>1, <1>2, <1>3 DEF Clean, BuildInvariant

\* The main process goes on to the next stage of the front end, or to llc.
LEMMA FrontEndClean ==
  ASSUME BuildInvariant, NEW r \in Runs, CleanRun(r), Alive(Main(r)), pc[Main(r)] \notin {"fork", "wait"},
         NEW stage, pc' = [pc EXCEPT ![Main(r)] = stage], UNCHANGED tool, Clean(r)',
         stage \in {"compile", "open", "print", "fork", "exited"},
         stage = "fork" => files'.ll = text'[r]
  PROVE  CleanRun(r)'
<1> DEFINE m == Main(r)
<1>1. m \in Process /\ pc \in [Process -> Stages]
  BY Names DEF BuildInvariant, Inductive, Shapes
<1>2. stage # "exited" /\ pc'[m] = stage /\ tool[m] = "llc"
  BY <1>1 DEF Clean, Alive, CleanRun, MainStages
<1>3. OneToolAtATime(r)'
  BY <1>1 DEF CleanRun, OneToolAtATime, Alive
<1>4. MainStages(r)' /\ InputIsCurrent(r)' /\ ToolIsCurrent(r)'
  BY <1>2 DEF MainStages, InputIsCurrent, ToolIsCurrent, Input
<1> QED BY <1>3, <1>4 DEF CleanRun

\* The main process forks, and waits for what it has made.
LEMMA ForkClean ==
  ASSUME BuildInvariant, NEW r \in Runs, CleanRun(r), Fork(Main(r)), UNCHANGED faults, Clean(r)'
  PROVE  CleanRun(r)'
<1> DEFINE m == Main(r)
           c == ChildOf(m, tool[m])
<1>1. /\ m \in Process /\ pc \in [Process -> Stages] /\ tool \in [Process -> Tools]
      /\ child \in [Process -> BOOLEAN] /\ c # m /\ pc[m] = "fork"
  BY Names DEF BuildInvariant, WaitInvariant, ProcessShapes, Inductive, Shapes, Fork
<1>2. /\ pc' = [pc EXCEPT ![m] = "wait", ![c] = "exec"] /\ tool' = [tool EXCEPT ![c] = tool[m]]
      /\ child' = [child EXCEPT ![m] = TRUE] /\ UNCHANGED <<files, text>>
  <2>1. ~Fault("fork", m)
    BY Names, FaultsShow
  <2> QED BY <2>1 DEF Fork, Only, files_of_run
<1>3. c \in Process
  BY Names, MainHasChildren DEF BuildInvariant
<1>4. /\ pc'[m] = "wait" /\ tool'[m] = tool[m] /\ child'[m] /\ pc'[c] = "exec" /\ tool'[c] = tool[m]
      /\ \A q \in Process : q # m /\ q # c => pc'[q] = pc[q]
  BY <1>1, <1>2, <1>3
<1>5. OneToolAtATime(r)'
  BY <1>1, <1>4 DEF CleanRun, OneToolAtATime, Alive
<1>6. MainStages(r)' /\ InputIsCurrent(r)'
  BY <1>1, <1>2, <1>4 DEF CleanRun, MainStages, InputIsCurrent, Input
<1>7. ToolIsCurrent(r)'
  BY <1>3, <1>4 DEF ToolIsCurrent
<1> QED BY <1>5, <1>6, <1>7 DEF CleanRun

\* The main process finds that its tool has ended.
LEMMA WaitClean ==
  ASSUME BuildInvariant, NEW r \in Runs, CleanRun(r), Wait(Main(r)), UNCHANGED faults, Clean(r)'
  PROVE  CleanRun(r)'
<1> DEFINE m == Main(r)
           c == ChildOf(m, tool[m])
<1>1. /\ m \in Process /\ pc \in [Process -> Stages] /\ tool \in [Process -> Tools]
      /\ pc[m] = "wait" /\ UNCHANGED <<files, text, form>>
  BY Names DEF BuildInvariant, Inductive, Shapes, Wait, Only, files_of_run
<1>2. pc[c] = "exited" /\ Made(r, tool[m])
  BY <1>1 DEF CleanRun, ToolIsCurrent, Wait
<1>3. /\ tool[m] = "llc" /\ pc' = [pc EXCEPT ![m] = "fork"] /\ tool' = [tool EXCEPT ![m] = "gcc"]
  <2>1. pc'[m] # "exited"
    BY DEF Clean, Alive
  <2>2. ~Exit(m, 2) /\ ~Exit(m, 0)
    BY <1>1, <2>1 DEF Exit
  <2> QED BY <2>2 DEF Wait, GoOn, Goto
<1>4. /\ pc'[m] = "fork" /\ tool'[m] = "gcc" /\ files'.s = text'[r]
      /\ \A q \in Process : q # m => pc'[q] = pc[q]
  BY <1>1, <1>2, <1>3 DEF Made
<1>5. OneToolAtATime(r)'
  BY <1>1, <1>2, <1>4 DEF CleanRun, OneToolAtATime, Alive
<1>6. MainStages(r)' /\ InputIsCurrent(r)' /\ ToolIsCurrent(r)'
  BY <1>4 DEF MainStages, InputIsCurrent, ToolIsCurrent, Input
<1> QED BY <1>5, <1>6 DEF CleanRun

\* The tool of a clean run goes on, while the main process waits.
LEMMA ToolClean ==
  ASSUME BuildInvariant, NEW r \in Runs, CleanRun(r), pc[Main(r)] = "wait",
         NEW c \in Process, c = ChildOf(Main(r), tool[Main(r)]), c # Main(r), Alive(c),
         NEW stage \in {"read", "write", "exited"}, pc' = [pc EXCEPT ![c] = stage],
         UNCHANGED <<tool, child, text, form>>,
         Input(tool[Main(r)])' = Input(tool[Main(r)]),
         stage = "write" => held'[c] = text[r],
         stage = "exited" => Made(r, tool[Main(r)])'
  PROVE  CleanRun(r)'
<1> DEFINE m == Main(r)
<1>1. m \in Process /\ pc \in [Process -> Stages]
  BY Names DEF BuildInvariant, Inductive, Shapes
<1>2. /\ pc'[m] = "wait" /\ pc'[c] = stage /\ tool'[m] = tool[m]
      /\ \A q \in Process : q # c => pc'[q] = pc[q]
  BY <1>1
<1>3. OneToolAtATime(r)'
  BY <1>1, <1>2 DEF CleanRun, OneToolAtATime, Alive
<1>4. MainStages(r)' /\ InputIsCurrent(r)'
  BY <1>1, <1>2 DEF CleanRun, MainStages, InputIsCurrent, Input
<1>5. ToolIsCurrent(r)'
  BY <1>1, <1>2 DEF CleanRun, ToolIsCurrent, Made
<1> QED BY <1>3, <1>4, <1>5 DEF CleanRun

\* What the tool of a clean run does, action by action.
LEMMA ToolStepClean ==
  ASSUME BuildInvariant, NEW r \in Runs, CleanRun(r), pc[Main(r)] = "wait",
         NEW c \in Process, c = ChildOf(Main(r), tool[Main(r)]), c # Main(r), Alive(c), Step(c),
         UNCHANGED faults, Clean(r)'
  PROVE  CleanRun(r)'
<1> DEFINE t == tool[Main(r)]
<1>1. /\ tool[c] = t /\ t \in Tools /\ c[1] = r /\ pc[c] \in {"exec", "read", "write"}
      /\ Input(t) = text[r] /\ (pc[c] = "write" => held[c] = text[r])
      /\ held \in [Process -> Content] /\ files \in [tree : Content, ll : Content, s : Content, out : Content]
  BY Names DEF CleanRun, ToolIsCurrent, InputIsCurrent, Alive, BuildInvariant, Inductive, Shapes
<1>2. \A kind \in FaultKinds : ~Fault(kind, c)
  BY <1>1, FaultsShow
<1>3. Exec(c) \/ ToolReads(c) \/ ToolWrites(c)
  BY <1>1 DEF Step, Parse, Compile, OpenIntermediate, PrintIntermediate, Fork, Wait
<1>4. CASE Exec(c)
  <2>1. pc' = [pc EXCEPT ![c] = "read"] /\ UNCHANGED <<tool, child, text, form, files>>
    BY <1>2, <1>4 DEF Exec, Goto, Only, files_of_run, FaultKinds
  <2> QED BY <2>1, ToolClean DEF Input
<1>5. CASE ToolReads(c)
  <2>1. /\ pc' = [pc EXCEPT ![c] = "write"] /\ UNCHANGED <<tool, child, text, form, files>>
        /\ held'[c] = Input(t)
    BY <1>1, <1>5 DEF ToolReads, Goto, Only, files_of_run, Input
  <2> QED BY <1>1, <2>1, ToolClean DEF Input
<1>6. CASE ToolWrites(c)
  <2>1. /\ pc[c] = "write" /\ pc' = [pc EXCEPT ![c] = "exited"]
        /\ UNCHANGED <<tool, child, text, form>>
        /\ \/ Translates(c) /\ files' = Written(c, held[c])
           \/ ~Translates(c) /\ UNCHANGED files
    BY <1>2, <1>6 DEF ToolWrites, Exit, Only, files_of_run, FaultKinds
  <2>2. text[r] \in Sources /\ text[r] \notin {None, Empty}
    BY <1>1, <2>1, DriverAssumption DEF BuildInvariant, Inductive, LateIsAccepted, Late, Accepted
  <2>3. Made(r, t)' /\ Input(t)' = Input(t)
    BY <1>1, <2>1, <2>2 DEF Translates, Written, Made, Input, Tools
  <2> QED BY <2>1, <2>3, ToolClean
<1> QED BY <1>3, <1>4, <1>5, <1>6

LEMMA MainStepClean ==
  ASSUME BuildInvariant, NEW r \in Runs, CleanRun(r), Alive(Main(r)), Step(Main(r)),
         UNCHANGED faults, Clean(r)'
  PROVE  CleanRun(r)'
<1> DEFINE m == Main(r)
<1>1. /\ m \in Process /\ m[1] = r /\ pc[m] \in {"parse", "compile", "open", "print", "fork", "wait"}
      /\ files \in [tree : Content, ll : Content, s : Content, out : Content]
  BY Names DEF CleanRun, MainStages, BuildInvariant, Inductive, Shapes
<1>2. CASE Parse(m)
  <2>1. \E stage \in {"exited", "compile"} : pc' = [pc EXCEPT ![m] = stage]
    BY <1>2 DEF Parse, Exit, Goto
  <2> QED BY <1>2, <2>1, FrontEndClean DEF Parse
<1>3. CASE Compile(m)
  <2>1. \E stage \in {"exited", "open"} : pc' = [pc EXCEPT ![m] = stage]
    BY <1>3 DEF Compile, Exit, Goto
  <2> QED BY <1>3, <2>1, FrontEndClean DEF Compile
<1>4. CASE OpenIntermediate(m)
  <2>1. \E stage \in {"exited", "print"} : pc' = [pc EXCEPT ![m] = stage]
    BY <1>4 DEF OpenIntermediate, Exit, Goto
  <2> QED BY <1>4, <2>1, FrontEndClean DEF OpenIntermediate
<1>5. CASE PrintIntermediate(m)
  <2>1. /\ pc[m] = "print" /\ pc' = [pc EXCEPT ![m] = "fork"] /\ UNCHANGED <<tool, text>>
        /\ files'.ll = text[r]
    BY <1>1, <1>5 DEF PrintIntermediate, Goto, Only, files_of_run
  <2> QED BY <2>1, FrontEndClean
<1>6. CASE Fork(m)
  BY <1>6, ForkClean
<1>7. CASE Wait(m)
  BY <1>7, WaitClean
<1> QED BY <1>1, <1>2, <1>3, <1>4, <1>5, <1>6, <1>7 DEF Step, Exec, ToolReads, ToolWrites

-----------------------------------------------------------------------------
(* The invariant                                                           *)

LEMMA CleanKept ==
  ASSUME BuildInvariant, NEW p \in Process, Step(p) \/ Kill(p), NEW r \in Runs, Clean(r)'
  PROVE  CleanRun(r)'
<1>1. Moves(p)
  BY StepMoves, KillMoves
<1>2. Clean(r) /\ CleanRun(r) /\ Alive(p)
  BY <1>1, StaysClean DEF Moves
<1>3. p[1] = r /\ (p = Main(r) \/ (pc[Main(r)] = "wait" /\ p = ChildOf(Main(r), tool[Main(r)]) /\ p # Main(r)))
  BY <1>2, OwnStep
<1>4. UNCHANGED faults
  BY <1>1, <1>3, StaysClean
<1>5. Step(p)
  BY <1>3, FaultsShow DEF Kill
<1>6. CASE p = Main(r)
  BY <1>2, <1>4, <1>5, <1>6, MainStepClean
<1>7. CASE pc[Main(r)] = "wait" /\ p = ChildOf(Main(r), tool[Main(r)]) /\ p # Main(r)
  BY <1>2, <1>4, <1>5, <1>7, ToolStepClean
<1> QED BY <1>3, <1>6, <1>7

LEMMA FreshKept ==
  ASSUME BuildInvariant, NEW p \in Process, Moves(p)
  PROVE  IdleIsFresh' /\ status' \in [Process -> Nat]
<1>1. \A q \in Process : pc'[q] = "idle" => pc[q] = "idle" /\ tool'[q] = tool[q]
  BY DEF Moves
<1>2. \A r \in Runs : Main(r) \in Process
  BY ProcessNames
<1> QED BY <1>1, <1>2 DEF Moves, BuildInvariant, IdleIsFresh

LEMMA StartBuilds ==
  ASSUME BuildInvariant, NEW r \in Runs, NEW f \in Forms, Start(r, f)
  PROVE  /\ IdleIsFresh' /\ status' \in [Process -> Nat]
         /\ \A s \in Runs : Clean(s)' => CleanRun(s)'
<1> DEFINE m == Main(r)
<1>1. /\ m \in Process /\ pc \in [Process -> Stages] /\ pc[m] = "idle" /\ tool[m] = "llc"
      /\ UNCHANGED <<files, text, tool, child, held>>
      /\ r \notin alone /\ alone' = IF \E p \in Process : Alive(p) THEN alone ELSE alone \cup {r}
      /\ \A s \in Runs : Main(s) \in Process /\ (Main(s) = m => s = r)
  BY Names DEF BuildInvariant, Inductive, Shapes, IdleIsFresh, Start
<1>2. PICK stage \in {"parse", "exited"} :
        pc' = [pc EXCEPT ![m] = stage] /\ status' \in [Process -> Nat] /\ (stage = "parse" => UNCHANGED faults)
  <2>1. CASE Goto(m, "parse") /\ Faultless
    BY <1>1, <2>1, GotoMoves DEF Stages, Faultless
  <2>2. CASE Exit(m, 2)
    BY <1>1, <2>2, ExitMoves
  <2> QED BY <2>1, <2>2 DEF Start
<1>3. pc'[m] = stage /\ \A q \in Process : q # m => pc'[q] = pc[q]
  BY <1>1, <1>2
<1>4. IdleIsFresh'
  BY <1>1, <1>3 DEF BuildInvariant, IdleIsFresh
<1>5. ASSUME NEW s \in Runs, Clean(s)' PROVE CleanRun(s)'
  <2>1. CASE s = r
    <3>1. stage = "parse" /\ \A p \in Process : ~Alive(p)
      BY <1>1, <1>3, <1>5, <2>1 DEF Clean, Alive
    <3>2. OneToolAtATime(r)'
      BY <1>3, <3>1 DEF OneToolAtATime, Alive
    <3>3. MainStages(r)' /\ InputIsCurrent(r)' /\ ToolIsCurrent(r)'
      BY <1>1, <1>3, <3>1 DEF MainStages, InputIsCurrent, ToolIsCurrent
    <3> QED BY <2>1, <3>2, <3>3 DEF CleanRun
  \* Runs take turns: no other one is in progress.
  <2>2. CASE s # r
    <3>1. pc[Main(s)] \notin {"idle", "exited"}
      BY <1>1, <1>3, <1>5, <2>2 DEF Clean, Alive
    <3>2. s \in Nat /\ r \in Nat /\ ~(s < r)
      BY <3>1, DriverAssumption DEF Start, Runs
    <3>3. ~(r < s)
      BY <1>1, <3>1 DEF BuildInvariant, WaitInvariant, RunsInTurn
    <3> QED BY <2>2, <3>2, <3>3
  <2> QED BY <2>1, <2>2
<1> QED BY <1>2, <1>4, <1>5

LEMMA QuietBuilds ==
  ASSUME BuildInvariant, UNCHANGED <<files, files_of_run, process, faults, alone>>
  PROVE  /\ IdleIsFresh' /\ status' \in [Process -> Nat]
         /\ \A s \in Runs : Clean(s)' => CleanRun(s)'
<1>1. UNCHANGED <<files, form, text, pc, tool, child, held, status, faults, alone>>
  BY DEF files_of_run, process
<1>2. ASSUME NEW s \in Runs, Clean(s)' PROVE CleanRun(s)'
  <2>1. CleanRun(s)
    BY <1>1, <1>2 DEF Clean, FaultsIn, Alive, BuildInvariant
  <2> QED BY <1>1, <2>1 DEF CleanRun, OneToolAtATime, MainStages, InputIsCurrent, ToolIsCurrent, Alive, Input, Made
<1> QED BY <1>1, <1>2 DEF BuildInvariant, IdleIsFresh

LEMMA BuildsPreserved == BuildInvariant /\ [Next]_vars => BuildInvariant'
<1> SUFFICES ASSUME BuildInvariant, [Next]_vars PROVE BuildInvariant'
  OBVIOUS
<1>1. Inductive' /\ WaitInvariant'
  BY NextInductive, WaitsPreserved DEF BuildInvariant
<1> DEFINE Rest == /\ IdleIsFresh' /\ status' \in [Process -> Nat]
                   /\ \A r \in Runs : Clean(r)' => CleanRun(r)'
<1>2. Rest
  <2>1. CASE Edit \/ UNCHANGED vars
    BY <2>1, QuietBuilds DEF Edit, vars
  <2>2. ASSUME NEW p \in Process, Step(p) \/ Kill(p) PROVE Rest
    BY <2>2, CleanKept, FreshKept, StepMoves, KillMoves
  <2>3. ASSUME NEW r \in Runs, NEW f \in Forms, Start(r, f) PROVE Rest
    BY <2>3, StartBuilds
  <2> HIDE DEF Rest
  <2> QED BY <2>1, <2>2, <2>3 DEF Next
<1> QED BY <1>1, <1>2 DEF BuildInvariant

LEMMA BuildsInitially == Init => BuildInvariant
<1> SUFFICES ASSUME Init PROVE BuildInvariant
  OBVIOUS
<1>1. Inductive /\ WaitInvariant
  BY InitInductive, WaitsInitially
<1>2. IdleIsFresh /\ status \in [Process -> Nat] /\ \A r \in Runs : ~Clean(r)
  BY DEF Init, IdleIsFresh, NoStatus, Clean
<1> QED BY <1>1, <1>2 DEF BuildInvariant

-----------------------------------------------------------------------------
(* The theorem                                                             *)

\* The step that ends a clean run with 0 is the end of the wait for gcc.
LEMMA ZeroIsBuilt ==
  ASSUME BuildInvariant, [Next]_vars, NEW r \in Runs,
         Exits(Main(r), 0), form[r] = "output", FaultsIn(r) = {}, r \in alone
  PROVE  files'.out = text[r]
<1> DEFINE m == Main(r)
<1>1. /\ m \in Process /\ m[1] = r /\ pc[m] # "idle" /\ pc[m] # "exited" /\ pc'[m] = "exited" /\ status'[m] = 0
      /\ status \in [Process -> Nat]
  BY Names DEF Exits, BuildInvariant, IdleIsFresh
<1>2. CleanRun(r) /\ Alive(m)
  BY <1>1 DEF BuildInvariant, Clean, Alive
<1>3. pc[m] \in {"parse", "compile", "open", "print", "fork", "wait"}
  BY <1>2 DEF CleanRun, MainStages
<1>4. ASSUME NEW p \in Process, Step(p) \/ Kill(p) PROVE p = m
  <2>1. Moves(p)
    BY <1>4, StepMoves, KillMoves
  <2> QED BY <1>1, <2>1 DEF Moves
<1>5. ASSUME NEW s \in Runs, NEW f \in Forms, Start(s, f) PROVE FALSE
  <2>1. Main(s) \in Process /\ pc[Main(s)] = "idle" /\ Main(s) # m
    BY <1>1, <1>5, Names DEF Start
  <2>2. \E stage \in {"parse", "exited"} : pc' = [pc EXCEPT ![Main(s)] = stage]
    BY <1>5 DEF Start, Goto, Exit
  <2>3. pc \in [Process -> Stages]
    BY DEF BuildInvariant, Inductive, Shapes
  <2> QED BY <1>1, <2>1, <2>2, <2>3
<1>6. ~Edit /\ ~UNCHANGED vars
  BY <1>1 DEF Edit, vars, process
<1>7. Step(m) \/ Kill(m)
  BY <1>1, <1>4, <1>5, <1>6 DEF Next
<1>8. ASSUME NEW code \in {1, 2, Signaled}, Exit(m, code) PROVE FALSE
  BY <1>1, <1>8, ExitMoves DEF Signaled
<1>9. ASSUME NEW stage \in Stages, Goto(m, stage) PROVE stage = "exited"
  BY <1>1, <1>9, GotoMoves
<1>10. ~Kill(m) /\ ~Parse(m) /\ ~Compile(m) /\ ~OpenIntermediate(m)
  BY <1>8, <1>9 DEF Kill, Parse, Compile, OpenIntermediate, Stages
<1>11. ~PrintIntermediate(m) /\ ~Exec(m) /\ ~ToolReads(m) /\ ~ToolWrites(m)
  BY <1>3, <1>9 DEF PrintIntermediate, Exec, ToolReads, ToolWrites, Stages
<1>12. ~Fork(m)
  <2>1. SUFFICES ASSUME Fork(m) PROVE FALSE
    OBVIOUS
  <2>2. CASE Goto(m, "wait")
    BY <1>9, <2>2 DEF Stages
  <2>3. CASE pc' = [pc EXCEPT ![m] = "wait", ![ChildOf(m, tool[m])] = "exec"]
    <3>1. ChildOf(m, tool[m]) # m /\ pc \in [Process -> Stages]
      BY Names DEF BuildInvariant, Inductive, Shapes
    <3> QED BY <1>1, <2>3, <3>1
  <2> QED BY <2>1, <2>2, <2>3 DEF Fork
<1>13. Wait(m)
  BY <1>7, <1>10, <1>11, <1>12 DEF Step
<1>14. GoOn(m) /\ tool[m] = "gcc"
  BY <1>8, <1>9, <1>13 DEF Wait, GoOn, Stages
<1>15. Made(r, "gcc") /\ UNCHANGED files
  BY <1>2, <1>13, <1>14 DEF CleanRun, ToolIsCurrent, Wait, Only
<1> QED BY <1>15 DEF Made

\* Whatever happens to other runs of main.cpp: a run that ends with 0, that nothing
\* failed in and that was started when no process was left of earlier ones, leaves an
\* executable made from the source that it has read.
THEOREM ZeroMeansCurrent == Spec => BuildsAreCurrent
<1>1. BuildInvariant /\ [Next]_vars =>
        [\A r \in Runs : Exits(Main(r), 0) /\ form[r] = "output" /\ FaultsIn(r) = {} /\ r \in alone
                         => files'.out = text[r]]_vars
  BY ZeroIsBuilt
<1> QED BY <1>1, BuildsInitially, BuildsPreserved, PTL DEF Spec, BuildsAreCurrent
=============================================================================
