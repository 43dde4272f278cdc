------------------------------ MODULE Process ------------------------------
(***************************************************************************)
(* What modules/workflow promises to the rest of the system about a        *)
(* process instance (docs/api/phase-3-platform-controls.md): it runs on    *)
(* one document from start to end, it moves only along transitions of that *)
(* document, and once completed it stays where it is.                      *)
(***************************************************************************)
CONSTANTS Instance, Document, NoDocument

VARIABLES
  document,   \* the document an instance runs on; NoDocument before its start
  state,      \* its current state
  completed

vars == <<document, state, completed>>

Init ==
  /\ document = [i \in Instance |-> NoDocument]
  /\ state \in [Instance -> {NoDocument}]
  /\ completed = [i \in Instance |-> FALSE]

Start(i, d) ==
  /\ document[i] = NoDocument
  /\ document' = [document EXCEPT ![i] = d]
  /\ state' = [state EXCEPT ![i] = d.initial]
  /\ UNCHANGED completed

\* An instance whose very first state is terminal is not completed by being
\* started, and its document may lead it out of that state again.
Move(i, t) ==
  /\ document[i] # NoDocument
  /\ t \in document[i].transitions /\ t.from = state[i]
  /\ completed[i] => document[i].initial \in document[i].terminal
  /\ state' = [state EXCEPT ![i] = t.to]
  /\ completed' = [completed EXCEPT ![i] = @ \/ t.to \in document[i].terminal]
  /\ UNCHANGED document

Next == \E i \in Instance :
  \/ \E d \in Document : Start(i, d)
  \/ \E d \in Document : \E t \in d.transitions : Move(i, t)

Spec == Init /\ [][Next]_vars
=============================================================================
