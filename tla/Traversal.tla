----------------------------- MODULE Traversal ------------------------------
(***************************************************************************)
(* What a walk of a syntax tree promises, whatever its handlers do and in  *)
(* whatever order they call each other: a node is begun once, while its    *)
(* parent is in progress, and ended once, when nothing below it is missing *)
(* or in progress; the tree is accepted when the root ends, and refused at *)
(* any time before.                                                        *)
(***************************************************************************)
CONSTANT NoNode   \* the parent of the root

VARIABLES
  parent,    \* [Node -> the node above it]
  optional,  \* the nodes a walk may leave out
  begun,     \* the nodes whose handler has been called
  ended,     \* those whose handler has returned
  verdict

vars == <<parent, optional, begun, ended, verdict>>

Node == DOMAIN parent
InProgress == begun \ ended

Init ==
  /\ begun = {n \in Node : parent[n] = NoNode}
  /\ ended = {} /\ verdict = "running"

Begin(n) ==
  /\ verdict = "running"
  /\ n \notin begun /\ parent[n] \in InProgress
  /\ begun' = begun \cup {n}
  /\ UNCHANGED <<parent, optional, ended, verdict>>

End(n) ==
  /\ verdict = "running" /\ n \in InProgress
  /\ \A c \in Node \ optional : parent[c] = n => c \in ended
  /\ ended' = ended \cup {n}
  /\ verdict' = IF parent[n] = NoNode THEN "accepted" ELSE "running"
  /\ UNCHANGED <<parent, optional, begun>>

Refuse ==
  /\ verdict = "running" /\ verdict' \in {"rejected", "crashed"}
  /\ UNCHANGED <<parent, optional, begun, ended>>

Next == (\E n \in Node : Begin(n) \/ End(n)) \/ Refuse

Spec == Init /\ [][Next]_vars
=============================================================================
