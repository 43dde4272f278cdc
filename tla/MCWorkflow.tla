----------------------------- MODULE MCWorkflow -----------------------------
(* Instances of Workflow for TLC.                                          *)
EXTENDS Workflow, TLC

CONSTANTS clerk, manager, execute, approve, board

Step(code, from, to, gated) ==
  [code |-> code, from |-> from, to |-> to, gated |-> gated, dueValid |-> TRUE,
   permission |-> IF gated THEN NoPermission ELSE execute,
   approver |-> approve, role |-> IF gated THEN board ELSE NoRole]

\* draft and review can be left and entered again; closing needs approval.
Round ==
  [states |-> {"draft", "review", "closed"}, initial |-> "draft",
   terminal |-> {"closed"},
   transitions |-> {Step("submit", "draft", "review", FALSE),
                    Step("return", "review", "draft", FALSE),
                    Step("close", "review", "closed", TRUE),
                    Step("drop", "draft", "closed", TRUE)}]

\* A later version that closes without review, and from a terminal start;
\* the due hours of its other transition are out of range.
Short ==
  [states |-> {"draft", "closed"}, initial |-> "draft",
   terminal |-> {"draft", "closed"},
   transitions |-> {Step("stay", "draft", "draft", TRUE),
                    Step("submit", "draft", "closed", FALSE),
                    [Step("late", "closed", "draft", TRUE) EXCEPT !.dueValid = FALSE]}]

\* Drafts validate_workflow refuses, and one publishing refuses.
Dangling == [Round EXCEPT !.states = {"draft", "review"}, !.terminal = {}]
Unknown ==
  [Short EXCEPT !.transitions =
    {[Step("submit", "draft", "closed", FALSE) EXCEPT !.permission = "nobody"]}]

MCDocument == {Round, Short, Dangling, Unknown}
MCActor == {clerk, manager}
MCGrants == [a \in MCActor |-> IF a = clerk THEN {execute} ELSE {execute, approve}]
MCRoles == [a \in MCActor |-> IF a = clerk THEN {} ELSE {board}]
MCPermission == {execute, approve}
MCLiveRole == {board}
=============================================================================
