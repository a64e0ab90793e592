------------------------------- MODULE Driver -------------------------------
(***************************************************************************)
(* The driver, src/main.cpp, run again and again on one source file that   *)
(* is edited meanwhile.  A run is a process that reads the source, writes  *)
(* the intermediate file and forks llc and gcc.  A process whose exec      *)
(* fails is still the driver: it goes on after the fork like its parent,   *)
(* and forks a gcc of its own.                                             *)
(*                                                                         *)
(* A process is named after its run and the forks it came out of.  The     *)
(* four files are named after the source file and the -o argument, hence   *)
(* shared by all runs.  What can fail is a fault, charged to the process   *)
(* it happens to: fork, exec, wait, opening a file, a tool, or a kill.     *)
(***************************************************************************)
EXTENDS Naturals, Sequences, FiniteSets

CONSTANTS
  Sources,    \* the contents the source file may have
  Verdict,    \* [Sources -> what the front end makes of it]
  MaxRuns, MaxEdits, MaxFaults,
  None, Empty \* a file that is missing, or empty

Verdicts == {"syntax error", "rejected", "crash", "no code", "code"}

ASSUME DriverAssumption ==
  /\ Verdict \in [Sources -> Verdicts] /\ {None, Empty} \cap Sources = {} /\ None # Empty
  /\ MaxRuns \in Nat /\ MaxEdits \in Nat /\ MaxFaults \in Nat

VARIABLES
  source,     \* what is in the source file, and how often it was edited
  files,      \* the tree, the intermediate, the assembly and the executable
  form,       \* [Runs -> the arguments]
  text,       \* [Runs -> what the parser has read]
  pc,         \* [Process -> where it is]
  tool,       \* [Process -> the call of a tool it is at or has become]
  child,      \* [Process -> whether its last fork made a child]
  held,       \* [Process -> what a tool has read]
  status,     \* [Process -> its exit status]
  faults,     \* what has failed: <<kind, process>>
  alone       \* the runs started when nothing was left of earlier ones

files_of_run == <<form, text>>
process == <<pc, tool, child, held, status>>
vars == <<source, files, files_of_run, process, faults, alone>>

Runs == 1 .. MaxRuns
Tools == {"llc", "gcc"}
Process == Runs \X {<<>>, <<"llc">>, <<"gcc">>, <<"llc", "gcc">>}
Main(r) == <<r, <<>>>>
ChildOf(p, t) == <<p[1], Append(p[2], t)>>

Content == Sources \cup {None, Empty}
Stages == {"idle", "parse", "compile", "open", "print", "fork", "wait", "exec", "read", "write", "exited"}
Forms == {"file", "output"}
NoStatus == 512
Signaled == 128
FaultKinds == {"fork", "exec", "wait", "open", "tool", "kill"}

TypeOK ==
  /\ source \in [text : Sources, edits : 0 .. MaxEdits]
  /\ files \in [tree : Content, ll : Content, s : Content, out : Content]
  /\ form \in [Runs -> Forms \cup {"none"}] /\ text \in [Runs -> Sources \cup {None}]
  /\ pc \in [Process -> Stages] /\ tool \in [Process -> Tools]
  /\ child \in [Process -> BOOLEAN] /\ held \in [Process -> Content]
  /\ status \in [Process -> {NoStatus, Signaled} \cup 0 .. 2]
  /\ faults \subseteq FaultKinds \X Process /\ Cardinality(faults) <= MaxFaults
  /\ alone \subseteq Runs

Alive(p) == pc[p] \notin {"idle", "exited"}

Init ==
  /\ source \in [text : Sources, edits : {0}]
  /\ files = [tree |-> None, ll |-> None, s |-> None, out |-> None]
  /\ form = [r \in Runs |-> "none"] /\ text = [r \in Runs |-> None]
  /\ pc = [p \in Process |-> "idle"] /\ tool = [p \in Process |-> "llc"]
  /\ child = [p \in Process |-> FALSE] /\ held = [p \in Process |-> None]
  /\ status = [p \in Process |-> NoStatus]
  /\ faults = {} /\ alone = {}

-----------------------------------------------------------------------------
(* Steps of one process                                                    *)

Faultless == UNCHANGED faults
Fault(kind, p) == Cardinality(faults) < MaxFaults /\ faults' = faults \cup {<<kind, p>>}

\* Nothing but the process p and, where the action says so, the files.
Only == UNCHANGED <<source, files_of_run, alone>>

Goto(p, stage) == pc' = [pc EXCEPT ![p] = stage] /\ UNCHANGED status
Exit(p, code) == pc' = [pc EXCEPT ![p] = "exited"] /\ status' = [status EXCEPT ![p] = code]

\* What follows the block of a tool: the block of gcc, or the end of main.
GoOn(p) ==
  \/ tool[p] = "llc" /\ Goto(p, "fork") /\ tool' = [tool EXCEPT ![p] = "gcc"]
  \/ tool[p] = "gcc" /\ Exit(p, 0) /\ UNCHANGED tool

\* The shell runs one compiler at a time; a file that cannot be read ends the run.
Start(r, f) ==
  /\ pc[Main(r)] = "idle" /\ \A q \in 1 .. r - 1 : pc[Main(q)] = "exited"
  /\ form' = [form EXCEPT ![r] = f]
  /\ alone' = IF \E p \in Process : Alive(p) THEN alone ELSE alone \cup {r}
  /\ \/ Goto(Main(r), "parse") /\ Faultless
     \/ Exit(Main(r), 2) /\ Fault("open", Main(r))
  /\ UNCHANGED <<source, files, text, tool, child, held>>

\* yyparse, and the tree it prints; a tree that cannot be written is not missed.
Parse(p) ==
  /\ pc[p] = "parse"
  /\ text' = [text EXCEPT ![p[1]] = source.text]
  /\ \/ Verdict[source.text] = "syntax error" /\ Exit(p, 1) /\ Faultless /\ UNCHANGED files
     \/ /\ Verdict[source.text] # "syntax error" /\ Goto(p, "compile")
        /\ \/ files' = [files EXCEPT !.tree = source.text] /\ Faultless
           \/ Fault("open", p) /\ UNCHANGED files
  /\ UNCHANGED <<source, form, tool, child, held, alone>>

\* Mutant: code is written out though there is no value for it.
CompileUnchecked(p) ==
  /\ pc[p] = "compile"
  /\ IF Verdict[text[p[1]]] = "rejected" THEN Exit(p, 1) ELSE Goto(p, "open")
  /\ Faultless /\ Only /\ UNCHANGED <<files, tool, child, held>>

\* Analysis and code generation.
Compile(p) ==
  /\ pc[p] = "compile"
  /\ CASE Verdict[text[p[1]]] \in {"rejected", "no code"} -> Exit(p, 1)
       [] Verdict[text[p[1]]] = "crash" -> Exit(p, Signaled)
       [] OTHER -> Goto(p, "open")
  /\ Faultless /\ Only /\ UNCHANGED <<files, tool, child, held>>

\* fopen empties the file; if it fails fileno is called with a null pointer.
OpenIntermediate(p) ==
  /\ pc[p] = "open"
  /\ \/ files' = [files EXCEPT !.ll = Empty] /\ Goto(p, "print") /\ Faultless
     \/ Exit(p, Signaled) /\ Fault("open", p) /\ UNCHANGED files
  /\ Only /\ UNCHANGED <<tool, child, held>>

\* Mutant: the text stays in the stream's buffer.
PrintUnflushed(p) ==
  /\ pc[p] = "print" /\ Goto(p, "fork")
  /\ Faultless /\ Only /\ UNCHANGED <<files, tool, child, held>>

PrintIntermediate(p) ==
  /\ pc[p] = "print" /\ Goto(p, "fork")
  /\ files' = [files EXCEPT !.ll = text[p[1]]]
  /\ Faultless /\ Only /\ UNCHANGED <<tool, child, held>>

Fork(p) ==
  /\ pc[p] = "fork"
  /\ LET c == ChildOf(p, tool[p])
     IN  \/ /\ pc' = [pc EXCEPT ![p] = "wait", ![c] = "exec"]
            /\ tool' = [tool EXCEPT ![c] = tool[p]]
            /\ child' = [child EXCEPT ![p] = TRUE] /\ Faultless /\ UNCHANGED status
         \/ /\ Goto(p, "wait") /\ child' = [child EXCEPT ![p] = FALSE]
            /\ Fault("fork", p) /\ UNCHANGED tool
  /\ Only /\ UNCHANGED <<files, held>>

\* Mutant: waitpid returns at once (WNOHANG).
WaitNot(p) ==
  /\ pc[p] = "wait" /\ GoOn(p) /\ Faultless
  /\ Only /\ UNCHANGED <<files, child, held>>

\* Mutant: a fork that has failed is waited for.
WaitForever(p) ==
  /\ pc[p] = "wait" /\ child[p] /\ pc[ChildOf(p, tool[p])] = "exited"
  /\ GoOn(p) /\ Faultless /\ Only /\ UNCHANGED <<files, child, held>>

\* Mutant: what waitpid stores is returned, 256 times the child's exit status.
WaitReturnsStatus(p) ==
  /\ pc[p] = "wait"
  /\ child[p] => pc[ChildOf(p, tool[p])] = "exited"
  /\ \/ ~child[p] /\ GoOn(p)
     \/ child[p] /\ Exit(p, 256 * status[ChildOf(p, tool[p])]) /\ UNCHANGED tool
  /\ Faultless /\ Only /\ UNCHANGED <<files, child, held>>

\* waitpid(-1) of a process without children returns -1, which is what the failed
\* fork returned: the test passes.  Where SIGCHLD is ignored waitpid finds no child
\* when the child is gone.
Wait(p) ==
  /\ pc[p] = "wait"
  /\ child[p] => pc[ChildOf(p, tool[p])] = "exited"
  /\ \/ GoOn(p) /\ Faultless
     \/ child[p] /\ Exit(p, 2) /\ Fault("wait", p) /\ UNCHANGED tool
  /\ Only /\ UNCHANGED <<files, child, held>>

Exec(p) ==
  /\ pc[p] = "exec"
  /\ \/ Goto(p, "read") /\ Faultless /\ UNCHANGED tool
     \/ GoOn(p) /\ Fault("exec", p)
  /\ Only /\ UNCHANGED <<files, child, held>>

-----------------------------------------------------------------------------
(* The tools.  llc translates the intermediate, an empty one to an empty    *)
(* assembly; gcc links the assembly if there is a main in it.  A tool that  *)
(* fails leaves its output or removes it.                                   *)

ToolReads(p) ==
  /\ pc[p] = "read"
  /\ held' = [held EXCEPT ![p] = IF tool[p] = "llc" THEN files.ll ELSE files.s]
  /\ Goto(p, "write") /\ Faultless /\ Only /\ UNCHANGED <<files, tool, child>>

Translates(p) ==
  IF tool[p] = "llc" THEN held[p] # None
  ELSE form[p[1]] = "output" /\ held[p] \notin {None, Empty}

\* For a file alone gcc's output is named by argv[3], which is read behind the null that
\* ends argv: whatever it is (the first environment string, with the usual layout of a
\* process), gcc writes no file of the run, and it may write another one or fail.
OutputIsAnywhere(p) == tool[p] = "gcc" /\ form[p[1]] = "file" /\ held[p] \notin {None, Empty}
Written(p, content) ==
  IF tool[p] = "llc" THEN [files EXCEPT !.s = content] ELSE [files EXCEPT !.out = content]

ToolWrites(p) ==
  /\ pc[p] = "write"
  /\ \/ Translates(p) /\ files' = Written(p, held[p]) /\ Exit(p, 0) /\ Faultless
     \/ ~Translates(p) /\ Exit(p, 1) /\ Faultless /\ UNCHANGED files
     \/ ~Translates(p) /\ OutputIsAnywhere(p) /\ Exit(p, 0) /\ Faultless /\ UNCHANGED files
     \/ /\ Translates(p) /\ Exit(p, 1) /\ Fault("tool", p)
        /\ files' \in {files, Written(p, None)}
  /\ Only /\ UNCHANGED <<tool, child, held>>

-----------------------------------------------------------------------------
(* The environment                                                          *)

Edit ==
  /\ source.edits < MaxEdits
  /\ \E t \in Sources \ {source.text} : source' = [text |-> t, edits |-> source.edits + 1]
  /\ UNCHANGED <<files, files_of_run, process, faults, alone>>

Kill(p) ==
  /\ Alive(p) /\ Exit(p, Signaled) /\ Fault("kill", p)
  /\ Only /\ UNCHANGED <<files, tool, child, held>>

Step(p) ==
  \/ Parse(p) \/ Compile(p) \/ OpenIntermediate(p) \/ PrintIntermediate(p)
  \/ Fork(p) \/ Wait(p) \/ Exec(p) \/ ToolReads(p) \/ ToolWrites(p)

Next ==
  \/ \E r \in Runs, f \in Forms : Start(r, f)
  \/ \E p \in Process : Step(p) \/ Kill(p)
  \/ Edit

\* Every process runs on: the driver only waits for its children, and the tools end.
Spec == Init /\ [][Next]_vars /\ \A p \in Process : WF_vars(Step(p))

-----------------------------------------------------------------------------
(* Properties                                                               *)

FaultsIn(r) == {f \in faults : f[2][1] = r}
Exits(p, code) == pc[p] # "exited" /\ pc'[p] = "exited" /\ status'[p] = code

\* A run that ends with 0, that nothing failed in and that started when nothing was
\* left of an earlier one, leaves an executable made from the source it has read,
\* whatever the runs before have left in the files.
BuildsAreCurrent ==
  [][\A r \in Runs :
       Exits(Main(r), 0) /\ form[r] = "output" /\ FaultsIn(r) = {} /\ r \in alone => files'.out = text[r]]_vars

\* Without kills, of all processes of all runs at most one does anything: the others
\* wait for it.  So no tool is left when its run has ended, and no two write a file.
OneWorksOthersWait ==
  (\A f \in faults : f[1] # "kill") => Cardinality({p \in Process : Alive(p) /\ pc[p] # "wait"}) <= 1

\* Whatever fails and whoever is killed, intermediate, assembly and executable never
\* come from a source that was refused.
OutputsComeFromAcceptedSources ==
  {files.ll, files.s, files.out} \subseteq {t \in Sources : Verdict[t] = "code"} \cup {None, Empty}

\* Nobody waits for ever, also after a failed fork, where there is no child to wait
\* for: whatever is started and fails, in the end no process is left.
ProcessesEnd == []<>(\A p \in Process : ~Alive(p))
-----------------------------------------------------------------------------
(* What the usage message says of the driver                                *)

\* main.cpp:41 "[file] -o [output]: compile to executable": a run that ends with 0
\* has made the executable from the source it has read.
ZeroMeansBuilt ==
  [][\A r \in Runs : Exits(Main(r), 0) /\ form[r] = "output" => files'.out = text[r]]_vars

\* main.cpp:38 "[file]: create llvm intermediate": no tool is run for a file alone.
FileAloneMakesIntermediate ==
  \A p \in Process : form[p[1]] = "file" => pc[p] \notin {"read", "write"}
=============================================================================
