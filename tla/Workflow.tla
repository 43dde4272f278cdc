------------------------------ MODULE Workflow ------------------------------
(***************************************************************************)
(* The workflow engine of modules/workflow: versions of one definition are *)
(* drafted and published, instances run on the version they were started   *)
(* with, transitions are requested under optimistic concurrency and some   *)
(* of them wait for an approval task.                                      *)
(*                                                                         *)
(* Every service runs in one transaction and locks the instance row (or    *)
(* the version row) before it reads what it decides on, so one action is   *)
(* one service call.  What is not locked is what a client has read before  *)
(* it calls: Load and the expected_version it later sends are two steps.   *)
(***************************************************************************)
EXTENDS Integers, Sequences

CONSTANTS
  Document,     \* records [states, initial, terminal, transitions] as drafted
  NoDocument,
  Instance,     \* subjects of one definition: workflow_subject_instance_unique
  Task,         \* rows of workflow_approval_task
  NoTask,       \* a move made without an approval task
  Actor,        \* principals with their permission_codes and role_public_ids
  Grants, Roles,
  NoPermission, \* permission_code absent
  NoRole,       \* assigned_role_public_id absent
  Permission,   \* codes of the permission table
  LiveRole,     \* roles of the company that are not retired
  MaxVersion,   \* bound: versions of the definition
  MaxMoves      \* bound: transitions applied to one instance

Transition == UNION {d.transitions : d \in Document}
State == (UNION {d.states : d \in Document}) \cup {d.initial : d \in Document}
           \cup {t.to : t \in Transition}

ASSUME WorkflowAssumption ==
  /\ NoDocument \notin Document /\ NoDocument \notin State /\ NoTask \notin Task
  /\ \A t \in Transition : t.gated \in BOOLEAN /\ t.dueValid \in BOOLEAN
  /\ \A d \in Document : d.terminal \subseteq d.states
  /\ MaxVersion \in Nat /\ MaxMoves \in Nat

VARIABLES
  versions,  \* sequence of [document, published], indexed by version number
  inst,      \* Instance -> [status, version, state, lock] ("NONE": no row)
  task,      \* Task -> [status, instance, code, from, approver, role, by], by
             \* being who requested it, then who decided it ("NONE": no row)
  log,       \* Instance -> rows of workflow_transition_log by sequence, with
             \* the approval task each was applied for (history)
  seen,      \* Actor -> Instance -> [lock, state] as last loaded
  refused    \* history: tasks whose decision was answered with "stale"

vars == <<versions, inst, task, log, seen, refused>>

NoView == [lock |-> 0, state |-> NoDocument]

Init ==
  /\ versions = <<>>
  /\ inst = [i \in Instance |-> [status |-> "NONE", version |-> 0,
                                 state |-> NoDocument, lock |-> 0]]
  /\ task = [k \in Task |-> [status |-> "NONE"]]
  /\ log = [i \in Instance |-> <<>>]
  /\ seen = [a \in Actor |-> [i \in Instance |-> NoView]]
  /\ refused = {}

-----------------------------------------------------------------------------
(* Versions.                                                               *)

\* validate_workflow.
Valid(d) ==
  /\ d.states # {} /\ d.initial \in d.states
  /\ \A t \in d.transitions : t.from \in d.states /\ t.to \in d.states
  /\ \A t, u \in d.transitions : t.code = u.code => t = u

\* The permission and role checks of publish_workflow_version.
Resolvable(d) ==
  /\ \A t \in d.transitions : t.permission \in Permission \cup {NoPermission}
  /\ \A t \in d.transitions : t.approver \in Permission
  /\ \A t \in d.transitions : t.role \in LiveRole \cup {NoRole}

\* WorkflowVersionCreateView: a draft gets the number after the last one.
CreateVersion(d) ==
  /\ Len(versions) < MaxVersion
  /\ Valid(d)
  /\ versions' = Append(versions, [document |-> d, published |-> FALSE])
  /\ UNCHANGED <<inst, task, log, seen, refused>>

PublishVersion(v) ==
  /\ ~versions[v].published
  /\ Valid(versions[v].document) /\ Resolvable(versions[v].document)
  /\ versions' = [versions EXCEPT ![v].published = TRUE]
  /\ UNCHANGED <<inst, task, log, seen, refused>>

-----------------------------------------------------------------------------
(* Instances.                                                              *)

PublishedVersions == {v \in DOMAIN versions : versions[v].published}

\* The published version with the highest number.
Latest(v) == v \in PublishedVersions /\ \A u \in PublishedVersions : u <= v

\* Mutant: the document is taken from the newest version, as if instances
\* followed their definition.
DocumentOfDefinition(i) == versions[CHOOSE v \in PublishedVersions : Latest(v)].document

DocumentOf(i) == versions[inst[i].version].document

StartWorkflow(i) ==
  /\ inst[i].status = "NONE"
  /\ \E v \in PublishedVersions :
       /\ Latest(v)
       /\ inst' = [inst EXCEPT ![i] =
            [status |-> "ACTIVE", version |-> v,
             state |-> versions[v].document.initial, lock |-> 1]]
  /\ UNCHANGED <<versions, task, log, seen, refused>>

\* A client reads the instance: lock_version and current_state_code.
Load(a, i) ==
  /\ inst[i].status # "NONE"
  /\ seen' = [seen EXCEPT ![a][i] = [lock |-> inst[i].lock, state |-> inst[i].state]]
  /\ UNCHANGED <<versions, inst, task, log, refused>>

\* Mutant: the log takes its sequence from the incremented lock_version.
MoveLogsNextVersion(i, t, a, k) ==
  /\ Len(log[i]) < MaxMoves
  /\ inst' = [inst EXCEPT
       ![i].state = t.to, ![i].lock = @ + 1,
       ![i].status = IF t.to \in DocumentOf(i).terminal THEN "COMPLETED" ELSE @]
  /\ log' = [log EXCEPT ![i] = Append(@,
       [sequence |-> inst[i].lock + 1, transition |-> t, actor |-> a, via |-> k])]

\* _apply_transition.
ApplyTransition(i, t, a, k) ==
  /\ Len(log[i]) < MaxMoves
  /\ inst' = [inst EXCEPT
       ![i].state = t.to, ![i].lock = @ + 1,
       ![i].status = IF t.to \in DocumentOf(i).terminal THEN "COMPLETED" ELSE @]
  /\ log' = [log EXCEPT ![i] = Append(@,
       [sequence |-> inst[i].lock, transition |-> t, actor |-> a, via |-> k])]

\* Mutant: the expected version is not compared.
MayRequestAnyVersion(a, i, t) ==
  /\ inst[i].status = "ACTIVE"
  /\ t \in DocumentOf(i).transitions /\ t.from = inst[i].state
  /\ t.permission \in Grants[a] \cup {NoPermission}

\* What request_transition checks before it asks whether to wait for approval.
MayRequest(a, i, t) ==
  /\ inst[i].status = "ACTIVE"
  /\ inst[i].lock = seen[a][i].lock
  /\ t \in DocumentOf(i).transitions /\ t.from = inst[i].state
  /\ t.permission \in Grants[a] \cup {NoPermission}

RequestTransition(a, i, t) ==
  /\ MayRequest(a, i, t) /\ ~t.gated
  /\ ApplyTransition(i, t, a, NoTask)
  /\ UNCHANGED <<versions, task, seen, refused>>

RequestApproval(a, i, t) ==
  /\ MayRequest(a, i, t) /\ t.gated /\ t.dueValid
  /\ ~\E k \in Task : /\ task[k].status = "PENDING"
                      /\ task[k].instance = i /\ task[k].code = t.code
  /\ \E k \in Task :
       /\ task[k].status = "NONE"
       /\ task' = [task EXCEPT ![k] =
            [status |-> "PENDING", instance |-> i, code |-> t.code, from |-> t.from,
             approver |-> t.approver, role |-> t.role, by |-> a]]
  /\ UNCHANGED <<versions, inst, log, seen, refused>>

-----------------------------------------------------------------------------
(* Approvals.                                                              *)

\* Mutant: a task may be decided again, the other way or the same way.
MayDecideAgain(a, k) ==
  /\ task[k].status # "NONE"
  /\ task[k].approver \in Grants[a]
  /\ task[k].role \in Roles[a] \cup {NoRole}

\* The checks of decide_approval on the task.
MayDecide(a, k) ==
  /\ task[k].status = "PENDING"
  /\ task[k].approver \in Grants[a]
  /\ task[k].role \in Roles[a] \cup {NoRole}

\* The instance has left the state the approval was requested in.
Stale(k) == inst[task[k].instance].state # task[k].from

Decide(a, k, status) ==
  task' = [task EXCEPT ![k].status = status, ![k].by = a]

Approve(a, k) ==
  /\ MayDecide(a, k) /\ ~Stale(k)
  /\ Decide(a, k, "APPROVED")
  /\ LET i == task[k].instance IN
     \E t \in DocumentOf(i).transitions :
       /\ t.code = task[k].code /\ t.from = inst[i].state
       /\ ApplyTransition(i, t, a, k)
  /\ UNCHANGED <<versions, seen, refused>>

Reject(a, k) ==
  /\ MayDecide(a, k) /\ ~Stale(k)
  /\ Decide(a, k, "REJECTED")
  /\ UNCHANGED <<versions, inst, log, seen, refused>>

\* decide_approval on a stale task writes CANCELLED and then raises: the
\* exception leaves @transaction.atomic, which rolls the write back.
DecideStale(a, k) ==
  /\ MayDecide(a, k) /\ Stale(k)
  /\ refused' = refused \cup {k}
  /\ UNCHANGED <<versions, inst, task, log, seen>>

-----------------------------------------------------------------------------
Next ==
  \/ \E d \in Document : CreateVersion(d)
  \/ \E v \in DOMAIN versions : PublishVersion(v)
  \/ \E i \in Instance : StartWorkflow(i)
  \/ \E a \in Actor, i \in Instance : Load(a, i)
  \/ \E a \in Actor, i \in Instance, t \in Transition :
       RequestTransition(a, i, t) \/ RequestApproval(a, i, t)
  \/ \E a \in Actor, k \in Task : Approve(a, k) \/ Reject(a, k) \/ DecideStale(a, k)

Spec == Init /\ [][Next]_vars

-----------------------------------------------------------------------------
(* Properties.                                                             *)

InstanceStatus == {"NONE", "ACTIVE", "COMPLETED"}

TypeOK ==
  /\ versions \in Seq([document : Document, published : BOOLEAN])
  /\ inst \in [Instance -> [status : InstanceStatus, version : Nat,
                            state : State \cup {NoDocument}, lock : Nat]]
  /\ task \in [Task ->
       [status : {"NONE"}]
         \cup [status : {"PENDING", "APPROVED", "REJECTED"}, instance : Instance,
               code : {t.code : t \in Transition}, from : {t.from : t \in Transition},
               approver : {t.approver : t \in Transition},
               role : {t.role : t \in Transition}, by : Actor]]
  /\ log \in [Instance -> Seq([sequence : Nat, transition : Transition,
                              actor : Actor, via : Task \cup {NoTask}])]
  /\ seen \in [Actor -> [Instance -> [lock : Nat, state : State \cup {NoDocument}]]]
  /\ refused \subseteq Task

\* The transition log is the instance's whole history: numbered 1, 2, ... up to
\* lock_version - 1, each entry leaving the state the one before it entered,
\* from the initial state of the pinned version to the current state.
LogIsHistory ==
  \A i \in Instance : inst[i].status # "NONE" =>
    /\ Len(log[i]) = inst[i].lock - 1
    /\ \A n \in 1..Len(log[i]) : log[i][n].sequence = n
    /\ LET States == <<versions[inst[i].version].document.initial>>
                       \o [n \in 1..Len(log[i]) |-> log[i][n].transition.to]
       IN /\ \A n \in 1..Len(log[i]) : log[i][n].transition.from = States[n]
          /\ inst[i].state = States[Len(States)]

Entries == {e \in Instance \X (1..MaxMoves) : e[2] <= Len(log[e[1]])}

\* A transition that requires approval is never made without an approved task
\* of the same instance, decided by who the log names and who had the
\* permission; one approval is good for one move, and none is lost.
ApprovalsSpentOnce ==
  /\ \A e \in Entries :
       LET entry == log[e[1]][e[2]]  k == entry.via IN
         IF entry.transition.gated
         THEN /\ k # NoTask /\ task[k].status = "APPROVED"
              /\ task[k].instance = e[1] /\ task[k].code = entry.transition.code
              /\ task[k].by = entry.actor /\ task[k].approver \in Grants[entry.actor]
         ELSE k = NoTask
  /\ \A k \in Task : task[k].status = "APPROVED" =>
       \E e \in Entries : /\ log[e[1]][e[2]].via = k
                          /\ \A f \in Entries : log[f[1]][f[2]].via = k => f = e

\* The client had loaded the version and the state the instance now has.
Knew(a, i, from) == seen[a][i] = [lock |-> inst[i].lock, state |-> from]

\* Whoever moves an instance without an approval, or asks for one, knew it.
Informed ==
  /\ \A i \in Instance : Len(log'[i]) > Len(log[i]) =>
       LET move == log'[i][Len(log'[i])] IN
       move.via = NoTask => Knew(move.actor, i, move.transition.from)
  /\ \A k \in Task : task[k].status = "NONE" /\ task'[k].status # "NONE" =>
       Knew(task'[k].by, task'[k].instance, task'[k].from)

\* Optimistic concurrency: who moves an instance without an approval, or asks for
\* one, has seen the very version and state that the move is to leave, whoever
\* else has moved the instance since, be it back to a state of the same name.
TransitionsLeaveWhatWasSeen == [][Informed]_vars

\* Instances keep the version they started on and behave as Process says,
\* whatever is published meanwhile and whoever approves what when.
ProcessDocument ==
  [i \in Instance |-> IF inst[i].status = "NONE" THEN NoDocument
                      ELSE versions[inst[i].version].document]

P == INSTANCE Process WITH document <- ProcessDocument,
                           state <- [i \in Instance |-> inst[i].state],
                           completed <- [i \in Instance |-> inst[i].status = "COMPLETED"]

RunsAsProcess == P!Spec

\* The comment decide_approval writes on a stale task says that it was
\* "Cancelled because the workflow state changed."
StaleApprovalsAreCancelled ==
  \A k \in refused : task[k].status = "CANCELLED"
=============================================================================
