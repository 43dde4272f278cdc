--------------------------- MODULE WorkflowProofs ---------------------------
(***************************************************************************)
(* Safety of the workflow engine, and its refinement of Process, for every *)
(* set of documents, instances, tasks and actors.                          *)
(***************************************************************************)
EXTENDS Workflow, SequenceTheorems, TLAPS

VersionRow == [document : Document, published : BOOLEAN]

InstanceRow == [status : InstanceStatus, version : Nat, state : State \cup {NoDocument}, lock : Nat]

TaskRow ==
  [status : {"NONE"}]
    \cup [status : {"PENDING", "APPROVED", "REJECTED"}, instance : Instance,
          code : {t.code : t \in Transition}, from : {t.from : t \in Transition},
          approver : {t.approver : t \in Transition},
          role : {t.role : t \in Transition}, by : Actor]

LogRow == [sequence : Nat, transition : Transition, actor : Actor, via : Task \cup {NoTask}]

View == [lock : Nat, state : State \cup {NoDocument}]

\* What a row refers to exists: the version an instance runs on, the instance a
\* task is for.  An instance that was not started has no history.  Drafts are
\* validated when they are stored.
Linked ==
  /\ \A v \in 1..Len(versions) : Valid(versions[v].document)
  /\ \A i \in Instance :
       IF inst[i].status = "NONE"
       THEN inst[i].lock = 0 /\ inst[i].state = NoDocument /\ log[i] = <<>>
       ELSE inst[i].version \in 1..Len(versions) /\ inst[i].lock > 0
  /\ \A k \in Task : task[k].status # "NONE" => inst[task[k].instance].status # "NONE"

BaseInv == TypeOK /\ Linked

-----------------------------------------------------------------------------
(* What the types say, and what each kind of step changes.                 *)

LEMMA Typed ==
  ASSUME TypeOK
  PROVE  /\ versions \in Seq(VersionRow) /\ Len(versions) \in Nat
         /\ DOMAIN versions = 1..Len(versions)
         /\ \A v \in 1..Len(versions) : versions[v] \in VersionRow
         /\ inst \in [Instance -> InstanceRow]
         /\ task \in [Task -> TaskRow]
         /\ log \in [Instance -> Seq(LogRow)]
         /\ seen \in [Actor -> [Instance -> View]]
<1>1. versions \in Seq(VersionRow)
  BY DEF TypeOK, VersionRow
<1>2. QED
  BY <1>1, ElementOfSeq, LenProperties DEF TypeOK, InstanceRow, TaskRow, LogRow, View

\* The document of a started instance is one of the documents, and valid.
LEMMA DocumentTyped ==
  ASSUME BaseInv, NEW i \in Instance, inst[i].status # "NONE"
  PROVE  /\ DocumentOf(i) \in Document /\ DocumentOf(i).transitions \subseteq Transition
         /\ Valid(DocumentOf(i))
<1>1. inst[i].version \in 1..Len(versions)
  BY DEF BaseInv, Linked
<1>2. versions[inst[i].version] \in VersionRow
  BY <1>1, Typed DEF BaseInv
<1>3. DocumentOf(i) \in Document
  BY <1>2 DEF DocumentOf, VersionRow
<1>4. Valid(DocumentOf(i))
  BY <1>1 DEF BaseInv, Linked, DocumentOf
<1>5. QED BY <1>3, <1>4 DEF Transition

LEMMA CreateVersionStep ==
  ASSUME TypeOK, NEW d \in Document, CreateVersion(d)
  PROVE  /\ versions' \in Seq(VersionRow) /\ Len(versions') = Len(versions) + 1
         /\ versions'[Len(versions) + 1].document = d
         /\ \A v \in 1..Len(versions) : versions'[v] = versions[v]
<1> DEFINE row == [document |-> d, published |-> FALSE]
<1>1. row \in VersionRow
  BY DEF VersionRow
<1>2. versions' = Append(versions, row)
  BY DEF CreateVersion
<1>3. versions \in Seq(VersionRow)
  BY Typed
<1>4. row.document = d
  OBVIOUS
<1> HIDE DEF row
<1>5. QED BY <1>1, <1>2, <1>3, <1>4, AppendProperties

LEMMA PublishVersionStep ==
  ASSUME TypeOK, NEW u \in DOMAIN versions, PublishVersion(u)
  PROVE  /\ versions' \in Seq(VersionRow) /\ Len(versions') = Len(versions)
         /\ \A v \in 1..Len(versions) : versions'[v].document = versions[v].document
<1>1. u \in 1..Len(versions) /\ versions[u] \in VersionRow /\ versions \in Seq(VersionRow)
  BY Typed
<1> DEFINE row == [versions[u] EXCEPT !.published = TRUE]
<1>2. row \in VersionRow /\ row.document = versions[u].document
  BY <1>1 DEF VersionRow
<1>3. versions' = [versions EXCEPT ![u] = row]
  BY DEF PublishVersion
<1> HIDE DEF row
<1>4. QED BY <1>1, <1>2, <1>3, ExceptSeq

\* Starting pins the newest published version.
LEMMA StartStep ==
  ASSUME TypeOK, NEW i \in Instance, StartWorkflow(i)
  PROVE  \E v \in 1..Len(versions) :
           /\ inst' = [inst EXCEPT ![i] = [status |-> "ACTIVE", version |-> v,
                         state |-> versions[v].document.initial, lock |-> 1]]
           /\ versions[v].document \in Document
           /\ versions[v].document.initial \in State
           /\ inst' \in [Instance -> InstanceRow]
<1>1. PICK v \in PublishedVersions :
        inst' = [inst EXCEPT ![i] = [status |-> "ACTIVE", version |-> v,
                   state |-> versions[v].document.initial, lock |-> 1]]
  BY DEF StartWorkflow
<1>2. v \in 1..Len(versions) /\ versions[v].document \in Document
  BY Typed DEF PublishedVersions, VersionRow
<1>3. versions[v].document.initial \in State
  <2>1. versions[v].document.initial \in {d.initial : d \in Document}
    BY <1>2
  <2>2. QED BY <2>1 DEF State
<1>4. v \in Nat
  BY <1>2, Typed
<1>5. inst' \in [Instance -> InstanceRow]
  BY <1>1, <1>3, <1>4, Typed DEF InstanceRow, InstanceStatus
<1>6. QED BY <1>1, <1>2, <1>3, <1>5

\* A transition moves the instance on, raises its lock version and adds one
\* entry to its log.
Entry(i, t, a, k) == [sequence |-> inst[i].lock, transition |-> t, actor |-> a, via |-> k]

LEMMA MovedRow ==
  ASSUME NEW r \in InstanceRow, NEW x, NEW st
  PROVE  [r EXCEPT !.state = x, !.lock = @ + 1, !.status = st]
           = [status |-> st, version |-> r.version, state |-> x, lock |-> r.lock + 1]
<1>1. r = [status |-> r.status, version |-> r.version, state |-> r.state, lock |-> r.lock]
  BY DEF InstanceRow
<1> DEFINE r1 == [r EXCEPT !.state = x]
           r2 == [r1 EXCEPT !.lock = r.lock + 1]
           r3 == [r2 EXCEPT !.status = st]
<1>2. r1 = [status |-> r.status, version |-> r.version, state |-> x, lock |-> r.lock]
  BY <1>1
<1>3. [r EXCEPT !.state = x, !.lock = @ + 1, !.status = st] = r3
  OBVIOUS
<1> HIDE DEF r1
<1>4. r2 = [status |-> r.status, version |-> r.version, state |-> x, lock |-> r.lock + 1]
  BY <1>2
<1> HIDE DEF r2
<1>5. r3 = [status |-> st, version |-> r.version, state |-> x, lock |-> r.lock + 1]
  BY <1>4
<1>6. QED BY <1>3, <1>5

LEMMA ApplyStep ==
  ASSUME TypeOK, NEW i \in Instance, NEW t \in Transition, NEW a \in Actor,
         NEW k \in Task \cup {NoTask}, t.to \in State, ApplyTransition(i, t, a, k)
  PROVE  /\ inst'[i].status = IF t.to \in DocumentOf(i).terminal THEN "COMPLETED"
                               ELSE inst[i].status
         /\ inst'[i].version = inst[i].version /\ inst'[i].state = t.to
         /\ inst'[i].lock = inst[i].lock + 1 /\ inst[i].lock \in Nat
         /\ \A j \in Instance \ {i} : inst'[j] = inst[j] /\ log'[j] = log[j]
         /\ inst' \in [Instance -> InstanceRow]
         /\ log' \in [Instance -> Seq(LogRow)]
         /\ Len(log[i]) \in Nat /\ Len(log[i]) < MaxMoves
         /\ Len(log'[i]) = Len(log[i]) + 1
         /\ \A n \in 1..Len(log[i]) : log'[i][n] = log[i][n]
         /\ log'[i][Len(log[i]) + 1] = Entry(i, t, a, k)
<1>1. inst[i] \in InstanceRow /\ inst \in [Instance -> InstanceRow] /\ log[i] \in Seq(LogRow)
      /\ log \in [Instance -> Seq(LogRow)]
  BY Typed
<1> DEFINE st == IF t.to \in DocumentOf(i).terminal THEN "COMPLETED" ELSE inst[i].status
           row == [status |-> st, version |-> inst[i].version, state |-> t.to,
                   lock |-> inst[i].lock + 1]
<1>2. row \in InstanceRow
  BY <1>1 DEF InstanceRow, InstanceStatus
<1> HIDE DEF st
<1>3. [inst[i] EXCEPT !.state = t.to, !.lock = @ + 1, !.status = st] = row
  BY <1>1, MovedRow
<1>4. inst' = [inst EXCEPT ![i] = [inst[i] EXCEPT !.state = t.to, !.lock = @ + 1, !.status = st]]
  BY <1>1 DEF ApplyTransition, st
<1>5. inst' = [inst EXCEPT ![i] = row]
  BY <1>3, <1>4
<1>6. Entry(i, t, a, k) \in LogRow
  BY <1>1 DEF Entry, LogRow, InstanceRow
<1>7. log' = [log EXCEPT ![i] = Append(log[i], Entry(i, t, a, k))] /\ Len(log[i]) < MaxMoves
  BY DEF ApplyTransition, Entry
<1>8. /\ Append(log[i], Entry(i, t, a, k)) \in Seq(LogRow)
      /\ Len(Append(log[i], Entry(i, t, a, k))) = Len(log[i]) + 1
      /\ \A n \in 1..Len(log[i]) : Append(log[i], Entry(i, t, a, k))[n] = log[i][n]
      /\ Append(log[i], Entry(i, t, a, k))[Len(log[i]) + 1] = Entry(i, t, a, k)
  BY <1>1, <1>6, AppendProperties
<1> HIDE DEF row
<1>9. /\ inst'[i] = row /\ inst' \in [Instance -> InstanceRow]
      /\ \A j \in Instance \ {i} : inst'[j] = inst[j]
  BY <1>1, <1>2, <1>5
<1>10. /\ log'[i] = Append(log[i], Entry(i, t, a, k)) /\ log' \in [Instance -> Seq(LogRow)]
       /\ \A j \in Instance \ {i} : log'[j] = log[j]
  BY <1>1, <1>7, <1>8
<1>11. Len(log[i]) \in Nat
  BY <1>1, LenProperties
<1>12. /\ row.status = st /\ row.version = inst[i].version /\ row.state = t.to
       /\ row.lock = inst[i].lock + 1 /\ inst[i].lock \in Nat
  BY <1>1 DEF row, InstanceRow
<1>13. QED BY <1>7, <1>8, <1>9, <1>10, <1>11, <1>12 DEF st

\* A decision rewrites the status of one pending task and who it was by.
LEMMA DecideStep ==
  ASSUME TypeOK, NEW k \in Task, NEW a \in Actor, NEW status \in {"APPROVED", "REJECTED"},
         task[k].status = "PENDING", Decide(a, k, status)
  PROVE  /\ task' \in [Task -> TaskRow]
         /\ \A j \in Task \ {k} : task'[j] = task[j]
         /\ task'[k].status = status /\ task'[k].instance = task[k].instance
         /\ task'[k].code = task[k].code /\ task'[k].from = task[k].from
         /\ task'[k].approver = task[k].approver /\ task'[k].by = a
<1>1. task \in [Task -> TaskRow] /\ task[k] \in TaskRow
  BY Typed
<1> DEFINE r == task[k]
           r1 == [r EXCEPT !.status = status]
           r2 == [r1 EXCEPT !.by = a]
           row == [status |-> status, instance |-> r.instance, code |-> r.code, from |-> r.from,
                   approver |-> r.approver, role |-> r.role, by |-> a]
<1>2. r = [status |-> r.status, instance |-> r.instance, code |-> r.code, from |-> r.from,
           approver |-> r.approver, role |-> r.role, by |-> r.by]
  BY <1>1 DEF TaskRow
<1>3. row \in TaskRow
  BY <1>1 DEF TaskRow
<1>4. task' = [task EXCEPT ![k] = r2]
  BY <1>1 DEF Decide
<1> HIDE DEF r
<1>5. r1 = [status |-> status, instance |-> r.instance, code |-> r.code, from |-> r.from,
            approver |-> r.approver, role |-> r.role, by |-> r.by]
  BY <1>2
<1> HIDE DEF r1
<1>6. r2 = row
  BY <1>5
<1> HIDE DEF r2, row
<1>7. /\ task' \in [Task -> TaskRow] /\ task'[k] = row
      /\ \A j \in Task \ {k} : task'[j] = task[j]
  BY <1>1, <1>3, <1>4, <1>6
<1>8. QED BY <1>7 DEF row, r

LEMMA RequestApprovalStep ==
  ASSUME TypeOK, NEW a \in Actor, NEW i \in Instance, NEW t \in Transition,
         RequestApproval(a, i, t)
  PROVE  \E k \in Task :
           /\ task[k].status = "NONE" /\ task' \in [Task -> TaskRow]
           /\ \A j \in Task \ {k} : task'[j] = task[j]
           /\ task'[k].status = "PENDING" /\ task'[k].instance = i
           /\ task'[k].code = t.code /\ task'[k].from = t.from
           /\ task'[k].approver = t.approver /\ task'[k].by = a
<1> DEFINE row == [status |-> "PENDING", instance |-> i, code |-> t.code, from |-> t.from,
                   approver |-> t.approver, role |-> t.role, by |-> a]
<1>1. row \in TaskRow
  BY DEF TaskRow
<1>2. PICK k \in Task : task[k].status = "NONE" /\ task' = [task EXCEPT ![k] = row]
  BY DEF RequestApproval
<1>3. task \in [Task -> TaskRow]
  BY Typed
<1> HIDE DEF row
<1>4. task' \in [Task -> TaskRow] /\ task'[k] = row /\ \A j \in Task \ {k} : task'[j] = task[j]
  BY <1>1, <1>2, <1>3
<1>5. QED BY <1>2, <1>4 DEF row

\* What an approved and an ungated request have in common: the instance is
\* moved along a transition of its document that leaves its state.
Moves(i, t, a, k) ==
  /\ inst[i].status # "NONE"
  /\ t \in DocumentOf(i).transitions /\ t.from = inst[i].state
  /\ ApplyTransition(i, t, a, k)
  /\ UNCHANGED <<versions, seen, refused>>

LEMMA RequestMoves ==
  ASSUME NEW a \in Actor, NEW i \in Instance, NEW t \in Transition, RequestTransition(a, i, t)
  PROVE  Moves(i, t, a, NoTask) /\ inst[i].status = "ACTIVE" /\ ~t.gated /\ task' = task
BY DEF RequestTransition, MayRequest, Moves

LEMMA ApproveMoves ==
  ASSUME BaseInv, NEW a \in Actor, NEW k \in Task, Approve(a, k)
  PROVE  /\ task[k].instance \in Instance
         /\ \E t \in Transition : Moves(task[k].instance, t, a, k) /\ t.code = task[k].code
<1>1. task[k].status = "PENDING" /\ task[k] \in TaskRow
  BY Typed DEF BaseInv, Approve, MayDecide
<1>2. task[k].instance \in Instance
  BY <1>1 DEF TaskRow
<1>3. inst[task[k].instance].status # "NONE"
  BY <1>1 DEF BaseInv, Linked
<1>4. DocumentOf(task[k].instance).transitions \subseteq Transition
  BY <1>2, <1>3, DocumentTyped
<1>5. QED BY <1>2, <1>3, <1>4 DEF Approve, Moves

LEMMA MoveStep ==
  ASSUME BaseInv, NEW i \in Instance, NEW t \in Transition, NEW a \in Actor,
         NEW k \in Task \cup {NoTask}, Moves(i, t, a, k)
  PROVE  /\ inst'[i].status = IF t.to \in DocumentOf(i).terminal THEN "COMPLETED"
                               ELSE inst[i].status
         /\ inst'[i].version = inst[i].version /\ inst'[i].state = t.to
         /\ inst'[i].lock = inst[i].lock + 1 /\ inst[i].lock \in Nat
         /\ \A j \in Instance \ {i} : inst'[j] = inst[j] /\ log'[j] = log[j]
         /\ inst' \in [Instance -> InstanceRow]
         /\ log' \in [Instance -> Seq(LogRow)]
         /\ Len(log[i]) \in Nat /\ Len(log[i]) < MaxMoves
         /\ Len(log'[i]) = Len(log[i]) + 1
         /\ \A n \in 1..Len(log[i]) : log'[i][n] = log[i][n]
         /\ log'[i][Len(log[i]) + 1] = Entry(i, t, a, k)
<1>1. t.to \in {u.to : u \in Transition}
  OBVIOUS
<1>2. t.to \in State
  BY <1>1 DEF State
<1>3. QED BY <1>2, ApplyStep DEF BaseInv, Moves

-----------------------------------------------------------------------------
(* Types and references.                                                   *)

LEMMA TypedNext ==
  ASSUME versions' \in Seq(VersionRow), inst' \in [Instance -> InstanceRow],
         task' \in [Task -> TaskRow], log' \in [Instance -> Seq(LogRow)],
         seen' \in [Actor -> [Instance -> View]], refused' \subseteq Task
  PROVE  TypeOK'
BY DEF TypeOK, VersionRow, InstanceRow, TaskRow, LogRow, View

LEMMA BaseStep == BaseInv /\ [Next]_vars => BaseInv'
<1> SUFFICES ASSUME BaseInv, [Next]_vars PROVE BaseInv'
  OBVIOUS
<1>a. /\ versions \in Seq(VersionRow) /\ Len(versions) \in Nat
      /\ inst \in [Instance -> InstanceRow] /\ task \in [Task -> TaskRow]
      /\ log \in [Instance -> Seq(LogRow)] /\ seen \in [Actor -> [Instance -> View]]
      /\ refused \subseteq Task
  BY Typed DEF BaseInv, TypeOK
<1>b. TypeOK /\ Linked
  BY DEF BaseInv
<1>1. ASSUME NEW d \in Document, CreateVersion(d) PROVE BaseInv'
  <2>1. /\ versions' \in Seq(VersionRow) /\ Len(versions') = Len(versions) + 1
        /\ versions'[Len(versions) + 1].document = d
        /\ \A v \in 1..Len(versions) : versions'[v] = versions[v]
    BY <1>1, <1>b, CreateVersionStep
  <2>2. UNCHANGED <<inst, task, log, seen, refused>> /\ Valid(d)
    BY <1>1 DEF CreateVersion
  <2>3. TypeOK'
    BY <2>1, <2>2, <1>a, TypedNext
  <2>4. Linked'
    <3>1. ASSUME NEW v \in 1..Len(versions') PROVE Valid(versions'[v].document)
      <4>1. CASE v \in 1..Len(versions)
        BY <2>1, <4>1, <1>b DEF Linked
      <4>2. CASE v = Len(versions) + 1
        BY <2>1, <2>2, <4>2
      <4>3. QED BY <2>1, <4>1, <4>2, <1>a
    <3>2. \A i \in Instance : inst[i].version \in 1..Len(versions) =>
                              inst[i].version \in 1..Len(versions')
      BY <2>1, <1>a
    <3>3. QED BY <3>1, <3>2, <2>2, <1>b DEF Linked
  <2>5. QED BY <2>3, <2>4 DEF BaseInv
<1>2. ASSUME NEW v \in DOMAIN versions, PublishVersion(v) PROVE BaseInv'
  <2>1. /\ versions' \in Seq(VersionRow) /\ Len(versions') = Len(versions)
        /\ \A u \in 1..Len(versions) : versions'[u].document = versions[u].document
    BY <1>2, <1>b, PublishVersionStep
  <2>2. UNCHANGED <<inst, task, log, seen, refused>>
    BY <1>2 DEF PublishVersion
  <2>3. TypeOK'
    BY <2>1, <2>2, <1>a, TypedNext
  <2>4. Linked'
    BY <2>1, <2>2, <1>a, <1>b DEF Linked, Valid
  <2>5. QED BY <2>3, <2>4 DEF BaseInv
<1>3. ASSUME NEW i \in Instance, StartWorkflow(i) PROVE BaseInv'
  <2>1. PICK v \in 1..Len(versions) :
          /\ inst' = [inst EXCEPT ![i] = [status |-> "ACTIVE", version |-> v,
                        state |-> versions[v].document.initial, lock |-> 1]]
          /\ inst' \in [Instance -> InstanceRow]
    BY <1>3, <1>b, StartStep
  <2>2. UNCHANGED <<versions, task, log, seen, refused>> /\ inst[i].status = "NONE"
    BY <1>3 DEF StartWorkflow
  <2>3. TypeOK'
    BY <2>1, <2>2, <1>a, TypedNext
  <2>4. /\ inst'[i].status = "ACTIVE" /\ inst'[i].version = v /\ inst'[i].lock = 1
        /\ \A j \in Instance \ {i} : inst'[j] = inst[j]
    BY <2>1, <1>a
  <2>5. Linked'
    <3>1. \A j \in Instance :
            IF inst'[j].status = "NONE"
            THEN inst'[j].lock = 0 /\ inst'[j].state = NoDocument /\ log'[j] = <<>>
            ELSE inst'[j].version \in 1..Len(versions') /\ inst'[j].lock > 0
      BY <2>2, <2>4, <1>b DEF Linked
    <3>2. \A k \in Task : task'[k].status # "NONE" => inst'[task'[k].instance].status # "NONE"
      <4> SUFFICES ASSUME NEW k \in Task, task[k].status # "NONE"
                   PROVE  inst'[task[k].instance].status # "NONE"
        BY <2>2
      <4>1. task[k].instance \in Instance
        BY <1>a DEF TaskRow
      <4>2. QED BY <2>4, <4>1, <1>b DEF Linked
    <3>3. QED BY <2>2, <3>1, <3>2, <1>b DEF Linked
  <2>6. QED BY <2>3, <2>5 DEF BaseInv
<1>4. ASSUME NEW a \in Actor, NEW i \in Instance, Load(a, i) PROVE BaseInv'
  <2> DEFINE view == [lock |-> inst[i].lock, state |-> inst[i].state]
  <2>1. view \in View
    BY <1>a DEF InstanceRow, View
  <2>2. /\ seen' = [seen EXCEPT ![a][i] = view]
        /\ UNCHANGED <<versions, inst, task, log, refused>>
    BY <1>4 DEF Load
  <2> HIDE DEF view
  <2>3. seen' \in [Actor -> [Instance -> View]]
    BY <2>1, <2>2, <1>a
  <2>4. TypeOK'
    BY <2>2, <2>3, <1>a, TypedNext
  <2>5. Linked'
    BY <2>2, <1>b DEF Linked, Valid
  <2>6. QED BY <2>4, <2>5 DEF BaseInv
<1>5. ASSUME NEW i \in Instance, NEW t \in Transition, NEW a \in Actor,
             NEW k \in Task \cup {NoTask}, Moves(i, t, a, k),
             task' \in [Task -> TaskRow],
             \A j \in Task : \/ task'[j] = task[j]
                             \/ task[j].status # "NONE" /\ task'[j].instance = task[j].instance
      PROVE  BaseInv'
  <2>1. /\ inst'[i].status # "NONE" /\ inst'[i].version = inst[i].version
        /\ inst'[i].lock = inst[i].lock + 1 /\ inst[i].status # "NONE"
        /\ \A j \in Instance \ {i} : inst'[j] = inst[j] /\ log'[j] = log[j]
        /\ inst' \in [Instance -> InstanceRow] /\ log' \in [Instance -> Seq(LogRow)]
    <3>1. inst[i].status # "NONE"
      BY <1>5 DEF Moves
    <3>2. QED BY <1>5, <3>1, MoveStep
  <2>2. UNCHANGED <<versions, seen, refused>>
    BY <1>5 DEF Moves
  <2>3. TypeOK'
    BY <2>1, <2>2, <1>a, <1>5, TypedNext
  <2>4. \A j \in Task : task'[j].status # "NONE" => inst'[task'[j].instance].status # "NONE"
    BY <2>1, <1>5, <1>b DEF Linked, TaskRow
  <2>5. \A j \in Instance :
          IF inst'[j].status = "NONE"
          THEN inst'[j].lock = 0 /\ inst'[j].state = NoDocument /\ log'[j] = <<>>
          ELSE inst'[j].version \in 1..Len(versions) /\ inst'[j].lock > 0
    <3>1. inst[i].lock \in Nat
      BY <1>5, MoveStep
    <3>2. QED BY <2>1, <3>1, <1>b DEF Linked
  <2>6. Linked'
    BY <2>2, <2>4, <2>5, <1>b DEF Linked, Valid
  <2>7. QED BY <2>3, <2>6 DEF BaseInv
<1>6. ASSUME NEW a \in Actor, NEW i \in Instance, NEW t \in Transition, RequestTransition(a, i, t)
      PROVE  BaseInv'
  BY <1>5, <1>6, <1>a, RequestMoves
<1>7. ASSUME NEW a \in Actor, NEW k \in Task, Approve(a, k) PROVE BaseInv'
  <2>1. PICK t \in Transition : Moves(task[k].instance, t, a, k)
    BY <1>7, ApproveMoves
  <2>2. task[k].instance \in Instance
    BY <1>7, ApproveMoves
  <2>3. task[k].status = "PENDING" /\ Decide(a, k, "APPROVED")
    BY <1>7 DEF Approve, MayDecide
  <2>4. /\ task' \in [Task -> TaskRow] /\ task'[k].instance = task[k].instance
        /\ \A j \in Task \ {k} : task'[j] = task[j]
    BY <2>3, <1>b, DecideStep
  <2>5. QED BY <2>1, <2>2, <2>3, <2>4, <1>5
<1>8. ASSUME NEW a \in Actor, NEW i \in Instance, NEW t \in Transition, RequestApproval(a, i, t)
      PROVE  BaseInv'
  <2>1. PICK k \in Task : /\ task' \in [Task -> TaskRow] /\ task'[k].instance = i
                          /\ \A j \in Task \ {k} : task'[j] = task[j]
    BY <1>8, <1>b, RequestApprovalStep
  <2>2. UNCHANGED <<versions, inst, log, seen, refused>> /\ inst[i].status # "NONE"
    BY <1>8 DEF RequestApproval, MayRequest
  <2>3. TypeOK'
    BY <2>1, <2>2, <1>a, TypedNext
  <2>4. Linked'
    BY <2>1, <2>2, <1>b DEF Linked, Valid
  <2>5. QED BY <2>3, <2>4 DEF BaseInv
<1>9. ASSUME NEW a \in Actor, NEW k \in Task, Reject(a, k) PROVE BaseInv'
  <2>1. task[k].status = "PENDING" /\ Decide(a, k, "REJECTED")
        /\ UNCHANGED <<versions, inst, log, seen, refused>>
    BY <1>9 DEF Reject, MayDecide
  <2>2. /\ task' \in [Task -> TaskRow] /\ task'[k].instance = task[k].instance
        /\ \A j \in Task \ {k} : task'[j] = task[j]
    BY <2>1, <1>b, DecideStep
  <2>3. TypeOK'
    BY <2>1, <2>2, <1>a, TypedNext
  <2>4. Linked'
    BY <2>1, <2>2, <1>b DEF Linked, Valid
  <2>5. QED BY <2>3, <2>4 DEF BaseInv
<1>10. ASSUME NEW a \in Actor, NEW k \in Task, DecideStale(a, k) PROVE BaseInv'
  <2>1. refused' \subseteq Task /\ UNCHANGED <<versions, inst, task, log, seen>>
    BY <1>10, <1>a DEF DecideStale
  <2>2. TypeOK'
    BY <2>1, <1>a, TypedNext
  <2>3. Linked'
    BY <2>1, <1>b DEF Linked, Valid
  <2>4. QED BY <2>2, <2>3 DEF BaseInv
<1>11. CASE UNCHANGED vars
  BY <1>11, <1>b DEF vars, BaseInv, TypeOK, Linked, Valid
<1>12. QED
  BY <1>1, <1>2, <1>3, <1>4, <1>6, <1>7, <1>8, <1>9, <1>10, <1>11 DEF Next

LEMMA BaseInit == Init => BaseInv
<1> SUFFICES ASSUME Init PROVE BaseInv
  OBVIOUS
<1>1. <<>> \in Seq(VersionRow) /\ <<>> \in Seq(LogRow) /\ Len(<<>>) = 0
  BY EmptySeq
<1>2. TypeOK
  BY <1>1 DEF Init, TypeOK, VersionRow, LogRow, InstanceStatus, NoView
<1>3. Linked
  BY <1>1 DEF Init, Linked
<1>4. QED BY <1>2, <1>3 DEF BaseInv

\* Type correctness of the workflow engine; the references between its rows
\* are part of it, since a transition takes its type from a document.
THEOREM WorkflowTypeCorrect == Spec => []TypeOK
<1>1. BaseInv => TypeOK
  BY DEF BaseInv
<1>2. QED BY <1>1, BaseInit, BaseStep, PTL DEF Spec

-----------------------------------------------------------------------------
(* The history of an instance.                                             *)

\* A published version is not redrafted: what an instance runs on stays.
DocumentsKept ==
  \A i \in Instance : inst[i].status # "NONE" =>
    versions'[inst[i].version].document = DocumentOf(i)

LEMMA StepKinds ==
  ASSUME BaseInv, [Next]_vars
  PROVE  \/ UNCHANGED <<inst, log>> /\ DocumentsKept
         \/ \E i \in Instance : StartWorkflow(i)
         \/ \E i \in Instance, t \in Transition, a \in Actor, k \in Task \cup {NoTask} :
              Moves(i, t, a, k)
<1>a. \A i \in Instance : inst[i].status # "NONE" => inst[i].version \in 1..Len(versions)
  BY DEF BaseInv, Linked
<1>1. ASSUME NEW d \in Document, CreateVersion(d) PROVE UNCHANGED <<inst, log>> /\ DocumentsKept
  <2>1. \A v \in 1..Len(versions) : versions'[v] = versions[v]
    BY <1>1, CreateVersionStep DEF BaseInv
  <2>2. QED BY <1>1, <1>a, <2>1 DEF CreateVersion, DocumentsKept, DocumentOf
<1>2. ASSUME NEW v \in DOMAIN versions, PublishVersion(v)
      PROVE  UNCHANGED <<inst, log>> /\ DocumentsKept
  <2>1. \A u \in 1..Len(versions) : versions'[u].document = versions[u].document
    BY <1>2, PublishVersionStep DEF BaseInv
  <2>2. QED BY <1>2, <1>a, <2>1 DEF PublishVersion, DocumentsKept, DocumentOf
<1>3. CASE UNCHANGED <<versions, inst, log>>
  BY <1>3 DEF DocumentsKept, DocumentOf
<1>4. ASSUME NEW a \in Actor, NEW i \in Instance, NEW t \in Transition, RequestTransition(a, i, t)
      PROVE  Moves(i, t, a, NoTask)
  BY <1>4, RequestMoves
<1>5. ASSUME NEW a \in Actor, NEW k \in Task, Approve(a, k)
      PROVE  \E i \in Instance, t \in Transition : Moves(i, t, a, k)
  BY <1>5, ApproveMoves
<1>6. QED
  BY <1>1, <1>2, <1>3, <1>4, <1>5
  DEF Next, vars, Load, RequestApproval, Reject, DecideStale

\* The state an instance was in after its first n moves.
Reached(i, n) == IF n = 0 THEN DocumentOf(i).initial ELSE log[i][n].transition.to

HistoryOf(i) ==
  /\ Len(log[i]) = inst[i].lock - 1
  /\ \A n \in 1..Len(log[i]) : /\ log[i][n].sequence = n
                               /\ log[i][n].transition.from = Reached(i, n - 1)
  /\ inst[i].state = Reached(i, Len(log[i]))

HistoryInv == \A i \in Instance : inst[i].status # "NONE" => HistoryOf(i)

LEMMA HistoryStep == BaseInv /\ HistoryInv /\ [Next]_vars => HistoryInv'
<1> SUFFICES ASSUME BaseInv, HistoryInv, [Next]_vars PROVE HistoryInv'
  OBVIOUS
<1>a. /\ inst \in [Instance -> InstanceRow] /\ log \in [Instance -> Seq(LogRow)]
      /\ \A j \in Instance : Len(log[j]) \in Nat
  BY Typed, LenProperties DEF BaseInv
<1>1. CASE UNCHANGED <<inst, log>> /\ DocumentsKept
  BY <1>1 DEF HistoryInv, HistoryOf, Reached, DocumentsKept, DocumentOf
<1>2. ASSUME NEW i \in Instance, StartWorkflow(i) PROVE HistoryInv'
  <2>1. PICK v \in 1..Len(versions) :
          inst' = [inst EXCEPT ![i] = [status |-> "ACTIVE", version |-> v,
                     state |-> versions[v].document.initial, lock |-> 1]]
    BY <1>2, StartStep DEF BaseInv
  <2>2. UNCHANGED <<versions, log>> /\ log[i] = <<>>
    BY <1>2 DEF StartWorkflow, BaseInv, Linked
  <2>3. /\ inst'[i].version = v /\ inst'[i].lock = 1
        /\ inst'[i].state = versions[v].document.initial
        /\ \A j \in Instance \ {i} : inst'[j] = inst[j]
    BY <2>1, <1>a
  <2>4. HistoryOf(i)'
    BY <2>2, <2>3 DEF HistoryOf, Reached, DocumentOf
  <2>5. ASSUME NEW j \in Instance \ {i}, inst'[j].status # "NONE" PROVE HistoryOf(j)'
    BY <2>2, <2>3, <2>5 DEF HistoryInv, HistoryOf, Reached, DocumentOf
  <2>6. QED BY <2>4, <2>5 DEF HistoryInv
<1>3. ASSUME NEW i \in Instance, NEW t \in Transition, NEW a \in Actor,
             NEW k \in Task \cup {NoTask}, Moves(i, t, a, k)
      PROVE  HistoryInv'
  <2>1. /\ inst'[i].version = inst[i].version /\ inst'[i].state = t.to
        /\ inst'[i].lock = inst[i].lock + 1 /\ inst[i].lock \in Nat
        /\ \A j \in Instance \ {i} : inst'[j] = inst[j] /\ log'[j] = log[j]
        /\ Len(log'[i]) = Len(log[i]) + 1
        /\ \A n \in 1..Len(log[i]) : log'[i][n] = log[i][n]
        /\ log'[i][Len(log[i]) + 1] = Entry(i, t, a, k)
    BY <1>3, MoveStep
  <2>2. versions' = versions /\ inst[i].status # "NONE" /\ t.from = inst[i].state
    BY <1>3 DEF Moves
  <2>3. HistoryOf(i)
    BY <2>2 DEF HistoryInv
  <2>4. DocumentOf(i)' = DocumentOf(i)
    BY <2>1, <2>2 DEF DocumentOf
  <2>5. \A n \in 0..Len(log[i]) : Reached(i, n)' = Reached(i, n)
    BY <2>1, <2>4, <1>a DEF Reached
  <2>6. HistoryOf(i)'
    <3>1. Len(log'[i]) = inst'[i].lock - 1
      BY <2>1, <2>3 DEF HistoryOf
    <3>2. inst'[i].state = Reached(i, Len(log[i]))'
      BY <2>1, <1>a DEF Reached, Entry
    <3>3. ASSUME NEW n \in 1..Len(log'[i])
          PROVE  log'[i][n].sequence = n /\ log'[i][n].transition.from = Reached(i, n - 1)'
      <4>1. CASE n \in 1..Len(log[i])
        <5>1. n - 1 \in 0..Len(log[i])
          BY <4>1, <1>a
        <5>2. QED BY <4>1, <5>1, <2>1, <2>3, <2>5 DEF HistoryOf
      <4>2. CASE n = Len(log[i]) + 1
        <5>1. n - 1 = Len(log[i]) /\ n - 1 \in 0..Len(log[i])
          BY <4>2, <1>a
        <5>2. log'[i][n].sequence = inst[i].lock /\ log'[i][n].transition = t
          BY <4>2, <2>1 DEF Entry
        <5>3. QED BY <4>2, <5>1, <5>2, <2>1, <2>2, <2>3, <2>5, <1>a DEF HistoryOf
      <4>3. QED BY <2>1, <4>1, <4>2, <1>a
    <3>4. QED BY <2>1, <3>1, <3>2, <3>3 DEF HistoryOf
  <2>7. ASSUME NEW j \in Instance \ {i}, inst'[j].status # "NONE" PROVE HistoryOf(j)'
    BY <2>1, <2>2, <2>7 DEF HistoryInv, HistoryOf, Reached, DocumentOf
  <2>8. QED BY <2>6, <2>7 DEF HistoryInv
<1>4. QED BY <1>1, <1>2, <1>3, StepKinds

\* The log of every instance is its whole history on the version it started
\* with, however many versions are published meanwhile.
THEOREM WorkflowLogIsHistory == Spec => []LogIsHistory
<1>1. Init => HistoryInv
  BY DEF Init, HistoryInv
<1>2. BaseInv /\ HistoryInv => LogIsHistory
  <2> SUFFICES ASSUME BaseInv, HistoryInv, NEW i \in Instance, inst[i].status # "NONE"
               PROVE  /\ Len(log[i]) = inst[i].lock - 1
                      /\ \A n \in 1..Len(log[i]) : log[i][n].sequence = n
                      /\ LET States == <<versions[inst[i].version].document.initial>>
                                         \o [n \in 1..Len(log[i]) |-> log[i][n].transition.to]
                         IN /\ \A n \in 1..Len(log[i]) : log[i][n].transition.from = States[n]
                            /\ inst[i].state = States[Len(States)]
    BY DEF LogIsHistory
  <2> DEFINE S == State
             head == <<versions[inst[i].version].document.initial>>
             tail == [n \in 1..Len(log[i]) |-> log[i][n].transition.to]
  <2>1. HistoryOf(i) /\ Len(log[i]) \in Nat /\ log[i] \in Seq(LogRow)
    BY Typed, LenProperties DEF HistoryInv, BaseInv
  <2>2. head[1] = DocumentOf(i).initial /\ Len(head) = 1
    BY DEF DocumentOf
  <2>3. DocumentOf(i).initial \in State
    <3>1. DocumentOf(i).initial \in {d.initial : d \in Document}
      BY DocumentTyped
    <3>2. QED BY <3>1 DEF State
  <2>4. head \in Seq(State)
    BY <2>3 DEF DocumentOf
  <2>5. \A n \in 1..Len(log[i]) : log[i][n].transition.to \in State
    <3>1. \A n \in 1..Len(log[i]) : log[i][n].transition \in Transition
      <4>1. \A n \in 1..Len(log[i]) : log[i][n] \in LogRow
        BY <2>1, ElementOfSeq
      <4>2. QED BY <4>1 DEF LogRow
    <3>2. \A n \in 1..Len(log[i]) : log[i][n].transition.to \in {u.to : u \in Transition}
      BY <3>1
    <3>3. QED BY <3>2 DEF State
  <2>6. tail \in [1..Len(log[i]) -> State]
    BY <2>5
  <2>7. tail \in Seq(State) /\ Len(tail) = Len(log[i])
    BY <2>1, <2>6, SeqDef, LenProperties
  <2>8. \A n \in 1..Len(log[i]) : tail[n] = log[i][n].transition.to
    OBVIOUS
  <2> HIDE DEF head, tail
  <2>9. /\ Len(head \o tail) = 1 + Len(log[i])
        /\ \A n \in 1..(1 + Len(log[i])) :
             (head \o tail)[n] = IF n <= 1 THEN head[n] ELSE tail[n - 1]
    <3>1. /\ Len(head \o tail) = Len(head) + Len(tail)
          /\ \A n \in 1..Len(head) + Len(tail) :
               (head \o tail)[n] = IF n <= Len(head) THEN head[n] ELSE tail[n - Len(head)]
      BY <2>4, <2>7, ConcatProperties
    <3>2. QED BY <2>1, <2>2, <2>7, <3>1
  <2>10. \A n \in 0..Len(log[i]) : (head \o tail)[n + 1] = Reached(i, n)
    BY <2>1, <2>2, <2>8, <2>9 DEF Reached
  <2>11. \A n \in 1..Len(log[i]) : log[i][n].transition.from = (head \o tail)[n]
    <3> SUFFICES ASSUME NEW n \in 1..Len(log[i])
                 PROVE  log[i][n].transition.from = (head \o tail)[n]
      OBVIOUS
    <3>1. n - 1 \in 0..Len(log[i]) /\ (n - 1) + 1 = n
      BY <2>1
    <3>2. (head \o tail)[n] = Reached(i, n - 1)
      BY <2>10, <3>1
    <3>3. QED BY <2>1, <3>2 DEF HistoryOf
  <2>12. inst[i].state = (head \o tail)[Len(head \o tail)]
    <3>1. Len(log[i]) \in 0..Len(log[i]) /\ Len(log[i]) + 1 = 1 + Len(log[i])
      BY <2>1
    <3>2. QED BY <2>1, <2>9, <2>10, <3>1 DEF HistoryOf
  <2>13. QED BY <2>1, <2>11, <2>12 DEF HistoryOf, head, tail
<1>3. QED BY <1>1, <1>2, BaseInit, BaseStep, HistoryStep, PTL DEF Spec

-----------------------------------------------------------------------------
(* Optimistic concurrency.                                                 *)

\* A version number stands for one state: a client that has loaded the current
\* one has loaded the current state.
VersionIdentifiesState ==
  \A a \in Actor, i \in Instance :
    /\ seen[a][i].lock <= inst[i].lock
    /\ seen[a][i].lock = inst[i].lock => seen[a][i].state = inst[i].state

LEMMA ViewStep == BaseInv /\ VersionIdentifiesState /\ [Next]_vars => VersionIdentifiesState'
<1> SUFFICES ASSUME BaseInv, VersionIdentifiesState, [Next]_vars PROVE VersionIdentifiesState'
  OBVIOUS
<1> USE DEF VersionIdentifiesState
<1>a. /\ inst \in [Instance -> InstanceRow] /\ seen \in [Actor -> [Instance -> View]]
  BY Typed DEF BaseInv
<1>b. /\ \A i \in Instance : inst[i].lock \in Nat
      /\ \A a \in Actor, i \in Instance : seen[a][i].lock \in Nat
  BY <1>a DEF InstanceRow, View
<1>1. CASE UNCHANGED <<inst, seen>>
  BY <1>1
<1>2. ASSUME NEW i \in Instance, StartWorkflow(i) PROVE VersionIdentifiesState'
  <2>1. PICK v \in 1..Len(versions) :
          inst' = [inst EXCEPT ![i] = [status |-> "ACTIVE", version |-> v,
                     state |-> versions[v].document.initial, lock |-> 1]]
    BY <1>2, StartStep DEF BaseInv
  <2>2. seen' = seen /\ inst[i].lock = 0
    BY <1>2 DEF StartWorkflow, BaseInv, Linked
  <2>3. inst'[i].lock = 1 /\ \A j \in Instance \ {i} : inst'[j] = inst[j]
    BY <2>1, <1>a
  <2>4. QED BY <2>2, <2>3, <1>b
<1>3. ASSUME NEW a \in Actor, NEW i \in Instance, Load(a, i) PROVE VersionIdentifiesState'
  <2>1. /\ inst' = inst
        /\ seen' = [seen EXCEPT ![a] = [seen[a] EXCEPT ![i] =
                      [lock |-> inst[i].lock, state |-> inst[i].state]]]
    BY <1>3 DEF Load
  <2>2. /\ seen'[a][i].lock = inst[i].lock /\ seen'[a][i].state = inst[i].state
        /\ \A j \in Instance \ {i} : seen'[a][j] = seen[a][j]
        /\ \A c \in Actor \ {a} : seen'[c] = seen[c]
    BY <2>1, <1>a
  <2>3. QED BY <2>1, <2>2, <1>b
<1>4. ASSUME NEW i \in Instance, NEW t \in Transition, NEW a \in Actor,
             NEW k \in Task \cup {NoTask}, Moves(i, t, a, k)
      PROVE  VersionIdentifiesState'
  <2>1. inst'[i].lock = inst[i].lock + 1 /\ \A j \in Instance \ {i} : inst'[j] = inst[j]
    BY <1>4, MoveStep
  <2>2. seen' = seen
    BY <1>4 DEF Moves
  <2>3. QED BY <2>1, <2>2, <1>b
<1>5. ASSUME NEW a \in Actor, NEW i \in Instance, NEW t \in Transition, RequestTransition(a, i, t)
      PROVE  VersionIdentifiesState'
  BY <1>4, <1>5, RequestMoves
<1>6. ASSUME NEW a \in Actor, NEW k \in Task, Approve(a, k) PROVE VersionIdentifiesState'
  BY <1>4, <1>6, ApproveMoves
<1>7. QED
  BY <1>1, <1>2, <1>3, <1>5, <1>6
  DEF Next, vars, CreateVersion, PublishVersion, RequestApproval, Reject, DecideStale

\* A request goes through only for who has loaded the current version.
LEMMA RequestKnows ==
  ASSUME BaseInv, VersionIdentifiesState, NEW a \in Actor, NEW i \in Instance,
         NEW t \in Transition, MayRequest(a, i, t)
  PROVE  Knew(a, i, t.from)
<1>1. seen[a][i] = [lock |-> seen[a][i].lock, state |-> seen[a][i].state]
  BY Typed DEF BaseInv, View
<1>2. seen[a][i].lock = inst[i].lock /\ seen[a][i].state = t.from
  BY DEF MayRequest, VersionIdentifiesState
<1>3. QED BY <1>1, <1>2 DEF Knew

LEMMA InformedStep == BaseInv /\ VersionIdentifiesState /\ [Next]_vars => Informed
<1> SUFFICES ASSUME BaseInv, VersionIdentifiesState, [Next]_vars PROVE Informed
  OBVIOUS
<1>a. \A i \in Instance : Len(log[i]) \in Nat
  BY Typed, LenProperties DEF BaseInv
<1>1. CASE UNCHANGED <<log, task>>
  BY <1>1, <1>a DEF Informed
<1>2. ASSUME NEW i \in Instance, NEW t \in Transition, NEW a \in Actor,
             NEW k \in Task \cup {NoTask}, Moves(i, t, a, k),
             k = NoTask => Knew(a, i, t.from)
      PROVE  \A j \in Instance : Len(log'[j]) > Len(log[j]) =>
               LET move == log'[j][Len(log'[j])] IN
               move.via = NoTask => Knew(move.actor, j, move.transition.from)
  <2>1. /\ \A j \in Instance \ {i} : log'[j] = log[j]
        /\ Len(log'[i]) = Len(log[i]) + 1
        /\ log'[i][Len(log[i]) + 1] = Entry(i, t, a, k)
    BY <1>2, MoveStep
  <2>2. log'[i][Len(log'[i])] = [sequence |-> inst[i].lock, transition |-> t,
                                 actor |-> a, via |-> k]
    BY <2>1 DEF Entry
  <2>3. QED BY <1>2, <2>1, <2>2, <1>a
<1>3. ASSUME NEW a \in Actor, NEW i \in Instance, NEW t \in Transition, RequestTransition(a, i, t)
      PROVE  Informed
  <2>1. Moves(i, t, a, NoTask) /\ task' = task
    BY <1>3, RequestMoves
  <2>2. Knew(a, i, t.from)
    BY <1>3, RequestKnows DEF RequestTransition
  <2>3. QED BY <1>2, <2>1, <2>2 DEF Informed
<1>4. ASSUME NEW a \in Actor, NEW i \in Instance, NEW t \in Transition, RequestApproval(a, i, t)
      PROVE  Informed
  <2>1. PICK k \in Task :
          /\ \A j \in Task \ {k} : task'[j] = task[j]
          /\ task'[k].instance = i /\ task'[k].from = t.from /\ task'[k].by = a
    BY <1>4, RequestApprovalStep DEF BaseInv
  <2>2. Knew(a, i, t.from)
    BY <1>4, RequestKnows DEF RequestApproval
  <2>3. log' = log
    BY <1>4 DEF RequestApproval
  <2>4. QED BY <2>1, <2>2, <2>3, <1>a DEF Informed
<1>5. ASSUME NEW a \in Actor, NEW k \in Task, Approve(a, k) PROVE Informed
  <2>1. task[k].status = "PENDING" /\ Decide(a, k, "APPROVED")
    BY <1>5 DEF Approve, MayDecide
  <2>2. \A j \in Task : task[j].status = "NONE" => task'[j] = task[j]
    BY <2>1, DecideStep DEF BaseInv
  <2>3. \E i \in Instance, t \in Transition : Moves(i, t, a, k)
    BY <1>5, ApproveMoves
  <2>4. k # NoTask
    BY WorkflowAssumption
  <2>5. QED BY <1>2, <2>2, <2>3, <2>4 DEF Informed
<1>6. ASSUME NEW a \in Actor, NEW k \in Task, Reject(a, k) PROVE Informed
  <2>1. task[k].status = "PENDING" /\ Decide(a, k, "REJECTED") /\ log' = log
    BY <1>6 DEF Reject, MayDecide
  <2>2. \A j \in Task : task[j].status = "NONE" => task'[j] = task[j]
    BY <2>1, DecideStep DEF BaseInv
  <2>3. QED BY <2>1, <2>2, <1>a DEF Informed
<1>7. QED
  BY <1>1, <1>3, <1>4, <1>5, <1>6
  DEF Next, vars, CreateVersion, PublishVersion, StartWorkflow, Load, DecideStale

\* Whatever was loaded and moved in between by any number of clients: who moves
\* an instance, or asks for approval of a move, knows the state that is left.
THEOREM WorkflowTransitionsLeaveWhatWasSeen == Spec => TransitionsLeaveWhatWasSeen
<1>1. Init => VersionIdentifiesState
  BY DEF Init, VersionIdentifiesState, NoView
<1>2. BaseInv /\ VersionIdentifiesState /\ [Next]_vars => [Informed]_vars
  BY InformedStep
<1>3. QED BY <1>1, <1>2, BaseInit, BaseStep, ViewStep, PTL DEF Spec, TransitionsLeaveWhatWasSeen

-----------------------------------------------------------------------------
(* Approvals.                                                              *)

\* A task asks for a transition of the document its instance runs on, one that
\* is approved by whom the task says.
Asks(k, t) ==
  /\ t \in DocumentOf(task[k].instance).transitions
  /\ t.gated /\ t.code = task[k].code /\ t.from = task[k].from /\ t.approver = task[k].approver

TaskInv == \A k \in Task : task[k].status # "NONE" => \E t \in Transition : Asks(k, t)

LEMMA TaskStep == BaseInv /\ TaskInv /\ [Next]_vars => TaskInv'
<1> SUFFICES ASSUME BaseInv, TaskInv, [Next]_vars PROVE TaskInv'
  OBVIOUS
<1>a. inst \in [Instance -> InstanceRow] /\ task \in [Task -> TaskRow]
  BY Typed DEF BaseInv
<1>b. \A k \in Task : task[k].status # "NONE" =>
        task[k].instance \in Instance /\ inst[task[k].instance].status # "NONE"
  BY <1>a DEF BaseInv, Linked, TaskRow
\* The documents of started instances stay.
<1>c. \A i \in Instance : inst[i].status # "NONE" => DocumentOf(i)' = DocumentOf(i)
  <2>1. CASE UNCHANGED <<inst, log>> /\ DocumentsKept
    BY <2>1 DEF DocumentsKept, DocumentOf
  <2>2. ASSUME NEW j \in Instance, StartWorkflow(j)
        PROVE  \A i \in Instance : inst[i].status # "NONE" => DocumentOf(i)' = DocumentOf(i)
    <3>1. /\ inst[j].status = "NONE" /\ versions' = versions
          /\ \A i \in Instance \ {j} : inst'[i] = inst[i]
      BY <2>2, <1>a DEF StartWorkflow
    <3>2. QED BY <3>1 DEF DocumentOf
  <2>3. ASSUME NEW j \in Instance, NEW t \in Transition, NEW a \in Actor,
               NEW k \in Task \cup {NoTask}, Moves(j, t, a, k)
        PROVE  \A i \in Instance : inst[i].status # "NONE" => DocumentOf(i)' = DocumentOf(i)
    <3>1. inst'[j].version = inst[j].version /\ \A i \in Instance \ {j} : inst'[i] = inst[i]
      BY <2>3, MoveStep
    <3>2. versions' = versions
      BY <2>3 DEF Moves
    <3>3. QED BY <3>1, <3>2 DEF DocumentOf
  <2>4. QED BY <2>1, <2>2, <2>3, StepKinds
<1>1. ASSUME NEW k \in Task, task'[k].status # "NONE", task[k].status # "NONE",
             task'[k].instance = task[k].instance, task'[k].code = task[k].code,
             task'[k].from = task[k].from, task'[k].approver = task[k].approver
      PROVE  \E t \in Transition : Asks(k, t)'
  <2>1. PICK t \in Transition : Asks(k, t)
    BY <1>1 DEF TaskInv
  <2>2. DocumentOf(task[k].instance)' = versions'[inst'[task'[k].instance].version].document
    BY DEF DocumentOf
  <2>3. versions'[inst'[task[k].instance].version].document
          = versions[inst[task[k].instance].version].document
    BY <1>1, <1>b, <1>c DEF DocumentOf
  <2>4. QED BY <1>1, <2>1, <2>2, <2>3 DEF Asks, DocumentOf
<1>2. CASE task' = task
  BY <1>1, <1>2 DEF TaskInv
<1>3. ASSUME NEW a \in Actor, NEW i \in Instance, NEW t \in Transition, RequestApproval(a, i, t)
      PROVE  TaskInv'
  <2>1. PICK k \in Task :
          /\ task'[k].instance = i /\ task'[k].code = t.code /\ task'[k].from = t.from
          /\ task'[k].approver = t.approver /\ \A j \in Task \ {k} : task'[j] = task[j]
    BY <1>3, RequestApprovalStep DEF BaseInv
  <2>2. UNCHANGED <<inst, versions>> /\ t \in DocumentOf(i).transitions /\ t.gated
    BY <1>3 DEF RequestApproval, MayRequest
  <2>3. Asks(k, t)'
    BY <2>1, <2>2 DEF Asks, DocumentOf
  <2>4. \A j \in Task \ {k} : task'[j].status # "NONE" => \E u \in Transition : Asks(j, u)'
    BY <2>1, <1>1
  <2>5. QED BY <2>3, <2>4 DEF TaskInv
<1>4. ASSUME NEW a \in Actor, NEW k \in Task, Approve(a, k) \/ Reject(a, k) PROVE TaskInv'
  <2>1. /\ task[k].status = "PENDING"
        /\ \E status \in {"APPROVED", "REJECTED"} : Decide(a, k, status)
    BY <1>4 DEF Approve, Reject, MayDecide
  <2>2. /\ task'[k].instance = task[k].instance /\ task'[k].code = task[k].code
        /\ task'[k].from = task[k].from /\ task'[k].approver = task[k].approver
        /\ \A j \in Task \ {k} : task'[j] = task[j]
    BY <2>1, DecideStep DEF BaseInv
  <2>3. QED BY <2>1, <2>2, <1>1 DEF TaskInv
<1>5. QED
  BY <1>2, <1>3, <1>4
  DEF Next, vars, CreateVersion, PublishVersion, StartWorkflow, Load, RequestTransition,
      DecideStale

\* What ApprovalsSpentOnce says of the n-th move of an instance ...
Backed(i, n) ==
  LET entry == log[i][n]  k == entry.via IN
    IF entry.transition.gated
    THEN /\ k \in Task /\ task[k].status = "APPROVED"
         /\ task[k].instance = i /\ task[k].code = entry.transition.code
         /\ task[k].by = entry.actor /\ task[k].approver \in Grants[entry.actor]
    ELSE k = NoTask

\* ... and of an approved task.
UsedAt(k, i, n) ==
  /\ i \in Instance /\ n \in 1..Len(log[i]) /\ log[i][n].via = k
  /\ \A j \in Instance : \A m \in 1..Len(log[j]) : log[j][m].via = k => j = i /\ m = n

SpentInv ==
  /\ \A i \in Instance : Len(log[i]) <= MaxMoves
  /\ \A i \in Instance : \A n \in 1..Len(log[i]) : Backed(i, n)
  /\ \A k \in Task : task[k].status = "APPROVED" =>
       \E i \in Instance : \E n \in 1..Len(log[i]) : UsedAt(k, i, n)

\* A task that is not approved was spent on nothing.
LEMMA UnspentTask ==
  ASSUME SpentInv, NEW k \in Task, task[k].status # "APPROVED",
         NEW i \in Instance, NEW n \in 1..Len(log[i])
  PROVE  log[i][n].via # k
<1>1. Backed(i, n) /\ k # NoTask
  BY WorkflowAssumption DEF SpentInv
<1>2. QED BY <1>1 DEF Backed

\* An approval is for one transition of the document, and that one is gated.
LEMMA ApprovesGated ==
  ASSUME BaseInv, TaskInv, NEW a \in Actor, NEW k \in Task, NEW i \in Instance,
         NEW t \in Transition, task[k].status = "PENDING", i = task[k].instance,
         Moves(i, t, a, k), t.code = task[k].code
  PROVE  t.gated
<1>1. PICK u \in Transition : Asks(k, u)
  BY DEF TaskInv
<1>2. u \in DocumentOf(i).transitions /\ u.gated /\ u.code = t.code
  BY <1>1 DEF Asks
<1>3. t \in DocumentOf(i).transitions /\ Valid(DocumentOf(i))
  BY DocumentTyped DEF Moves
<1>4. t = u
  BY <1>2, <1>3 DEF Valid
<1>5. QED BY <1>2, <1>4

LEMMA SpentStep == BaseInv /\ TaskInv /\ SpentInv /\ [Next]_vars => SpentInv'
<1> SUFFICES ASSUME BaseInv, TaskInv, SpentInv, [Next]_vars PROVE SpentInv'
  OBVIOUS
<1>a. /\ task \in [Task -> TaskRow] /\ \A i \in Instance : Len(log[i]) \in Nat
      /\ MaxMoves \in Nat
  BY Typed, LenProperties, WorkflowAssumption DEF BaseInv
\* Tasks move only towards a decision and approved ones stay as they are.
<1>1. ASSUME log' = log,
             \A k \in Task : task[k].status = "APPROVED" => task'[k] = task[k],
             \A k \in Task : task'[k].status = "APPROVED" => task[k].status = "APPROVED"
      PROVE  SpentInv'
  <2>1. \A i \in Instance : \A n \in 1..Len(log'[i]) : Backed(i, n)'
    BY <1>1 DEF SpentInv, Backed
  <2>2. \A k \in Task : task'[k].status = "APPROVED" =>
          \E i \in Instance : \E n \in 1..Len(log'[i]) : UsedAt(k, i, n)'
    BY <1>1 DEF SpentInv, UsedAt
  <2>3. QED BY <1>1, <2>1, <2>2 DEF SpentInv
<1>2. ASSUME NEW a \in Actor, NEW i \in Instance, NEW t \in Transition, RequestApproval(a, i, t)
      PROVE  SpentInv'
  <2>1. PICK k \in Task : /\ task[k].status = "NONE" /\ task'[k].status = "PENDING"
                          /\ \A j \in Task \ {k} : task'[j] = task[j]
    BY <1>2, RequestApprovalStep DEF BaseInv
  <2>2. log' = log
    BY <1>2 DEF RequestApproval
  <2>3. \A j \in Task : task[j].status = "APPROVED" => j # k
    BY <2>1
  <2>4. \A j \in Task : task'[j].status = "APPROVED" => j # k
    BY <2>1
  <2>5. QED BY <1>1, <2>1, <2>2, <2>3, <2>4
<1>3. ASSUME NEW a \in Actor, NEW k \in Task, Reject(a, k) PROVE SpentInv'
  <2>1. task[k].status = "PENDING" /\ Decide(a, k, "REJECTED") /\ log' = log
    BY <1>3 DEF Reject, MayDecide
  <2>2. task'[k].status = "REJECTED" /\ \A j \in Task \ {k} : task'[j] = task[j]
    BY <2>1, DecideStep DEF BaseInv
  <2>3. \A j \in Task : task[j].status = "APPROVED" => j # k
    BY <2>1
  <2>4. \A j \in Task : task'[j].status = "APPROVED" => j # k
    BY <2>2
  <2>5. QED BY <1>1, <2>1, <2>2, <2>3, <2>4
<1>4. ASSUME NEW a \in Actor, NEW i \in Instance, NEW t \in Transition, NEW k \in Task \cup {NoTask},
             Moves(i, t, a, k)
      PROVE  /\ \A j \in Instance : Len(log'[j]) <= MaxMoves
             /\ Len(log'[i]) = Len(log[i]) + 1
             /\ \A j \in Instance : Len(log[j]) <= Len(log'[j])
             /\ \A j \in Instance : \A n \in 1..Len(log[j]) : log'[j][n] = log[j][n]
             /\ log'[i][Len(log[i]) + 1].transition = t
             /\ log'[i][Len(log[i]) + 1].actor = a /\ log'[i][Len(log[i]) + 1].via = k
             /\ \A j \in Instance : \A n \in 1..Len(log'[j]) :
                  n \in 1..Len(log[j]) \/ (j = i /\ n = Len(log[i]) + 1)
  <2>1. /\ Len(log[i]) < MaxMoves /\ Len(log'[i]) = Len(log[i]) + 1
        /\ \A j \in Instance \ {i} : log'[j] = log[j]
        /\ \A n \in 1..Len(log[i]) : log'[i][n] = log[i][n]
        /\ log'[i][Len(log[i]) + 1] = Entry(i, t, a, k)
    BY <1>4, MoveStep
  <2>2. \A j \in Instance : Len(log'[j]) <= MaxMoves
    BY <2>1, <1>a DEF SpentInv
  <2>3. \A j \in Instance : Len(log[j]) <= Len(log'[j])
    BY <2>1, <1>a
  <2>4. \A j \in Instance : \A n \in 1..Len(log[j]) : log'[j][n] = log[j][n]
    BY <2>1
  <2>5. \A j \in Instance : \A n \in 1..Len(log'[j]) :
          n \in 1..Len(log[j]) \/ (j = i /\ n = Len(log[i]) + 1)
    BY <2>1, <1>a
  <2>6. QED BY <2>1, <2>2, <2>3, <2>4, <2>5 DEF Entry
\* A move that needs no approval.
<1>5. ASSUME NEW a \in Actor, NEW i \in Instance, NEW t \in Transition, RequestTransition(a, i, t)
      PROVE  SpentInv'
  <2>1. Moves(i, t, a, NoTask) /\ ~t.gated /\ task' = task
    BY <1>5, RequestMoves
  <2>2. NoTask \in Task \cup {NoTask} /\ NoTask \notin Task
    BY WorkflowAssumption
  <2>3. \A j \in Instance : \A n \in 1..Len(log'[j]) : Backed(j, n)'
    <3> SUFFICES ASSUME NEW j \in Instance, NEW n \in 1..Len(log'[j]) PROVE Backed(j, n)'
      OBVIOUS
    <3>1. CASE n \in 1..Len(log[j])
      <4>1. log'[j][n] = log[j][n] /\ Backed(j, n)
        BY <3>1, <2>1, <2>2, <1>4 DEF SpentInv
      <4>2. QED BY <4>1, <2>1 DEF Backed
    <3>2. CASE j = i /\ n = Len(log[i]) + 1
      BY <3>2, <2>1, <2>2, <1>4 DEF Backed
    <3>3. QED BY <3>1, <3>2, <2>1, <2>2, <1>4
  <2>4. ASSUME NEW k \in Task, task'[k].status = "APPROVED"
        PROVE  \E j \in Instance : \E n \in 1..Len(log'[j]) : UsedAt(k, j, n)'
    <3>1. PICK j \in Instance : \E n \in 1..Len(log[j]) : UsedAt(k, j, n)
      BY <2>4, <2>1 DEF SpentInv
    <3>1a. PICK n \in 1..Len(log[j]) : UsedAt(k, j, n)
      BY <3>1
    <3>2. n \in 1..Len(log'[j]) /\ log'[j][n].via = k
      BY <3>1a, <2>1, <2>2, <1>4, <1>a DEF UsedAt
    <3>3. \A c \in Instance : \A m \in 1..Len(log'[c]) : log'[c][m].via = k => c = j /\ m = n
      <4> SUFFICES ASSUME NEW c \in Instance, NEW m \in 1..Len(log'[c]), log'[c][m].via = k
                   PROVE  c = j /\ m = n
        OBVIOUS
      <4>1. m \in 1..Len(log[c]) \/ (c = i /\ m = Len(log[i]) + 1)
        BY <2>1, <2>2, <1>4
      <4>2. m \in 1..Len(log[c])
        BY <4>1, <2>1, <2>2, <1>4
      <4>3. log[c][m].via = k
        BY <4>2, <2>1, <2>2, <1>4
      <4>4. QED BY <3>1a, <4>2, <4>3 DEF UsedAt
    <3>4. QED BY <3>2, <3>3 DEF UsedAt
  <2>5. QED BY <2>1, <2>2, <2>3, <2>4, <1>4 DEF SpentInv
\* An approved move spends the task it was approved by.
<1>6. ASSUME NEW a \in Actor, NEW k \in Task, Approve(a, k) PROVE SpentInv'
  <2> DEFINE i == task[k].instance
  <2>1. PICK t \in Transition : Moves(i, t, a, k) /\ t.code = task[k].code
    BY <1>6, ApproveMoves
  <2>2. i \in Instance
    BY <1>6, ApproveMoves
  <2>3. /\ task[k].status = "PENDING" /\ task[k].approver \in Grants[a]
        /\ Decide(a, k, "APPROVED")
    BY <1>6 DEF Approve, MayDecide
  <2>4. /\ task'[k].status = "APPROVED" /\ task'[k].instance = i
        /\ task'[k].code = task[k].code /\ task'[k].approver = task[k].approver
        /\ task'[k].by = a /\ \A j \in Task \ {k} : task'[j] = task[j]
    BY <2>3, DecideStep DEF BaseInv
  <2>5. t.gated
    BY <2>1, <2>2, <2>3, ApprovesGated
  <2> HIDE DEF i
  <2>6. /\ \A j \in Instance : Len(log'[j]) <= MaxMoves
        /\ Len(log'[i]) = Len(log[i]) + 1
        /\ \A j \in Instance : Len(log[j]) <= Len(log'[j])
        /\ \A j \in Instance : \A n \in 1..Len(log[j]) : log'[j][n] = log[j][n]
        /\ log'[i][Len(log[i]) + 1].transition = t
        /\ log'[i][Len(log[i]) + 1].actor = a /\ log'[i][Len(log[i]) + 1].via = k
        /\ \A j \in Instance : \A n \in 1..Len(log'[j]) :
             n \in 1..Len(log[j]) \/ (j = i /\ n = Len(log[i]) + 1)
    BY <2>1, <2>2, <1>4
  <2>7. \A j \in Instance : \A n \in 1..Len(log[j]) : log[j][n].via # k
    BY <2>3, UnspentTask
  <2>8. ASSUME NEW j \in Instance, NEW n \in 1..Len(log'[j]) PROVE Backed(j, n)'
    <3>1. CASE n \in 1..Len(log[j])
      <4>1. log'[j][n] = log[j][n] /\ Backed(j, n) /\ log[j][n].via # k
        BY <3>1, <2>6, <2>7 DEF SpentInv
      <4>2. log[j][n].transition.gated =>
              log[j][n].via \in Task /\ task'[log[j][n].via] = task[log[j][n].via]
        BY <4>1, <2>4 DEF Backed
      <4>3. QED BY <4>1, <4>2 DEF Backed
    <3>2. CASE j = i /\ n = Len(log[i]) + 1
      BY <3>2, <2>1, <2>3, <2>4, <2>5, <2>6 DEF Backed
    <3>3. QED BY <3>1, <3>2, <2>6
  <2>9. ASSUME NEW c \in Task, task'[c].status = "APPROVED"
        PROVE  \E j \in Instance : \E n \in 1..Len(log'[j]) : UsedAt(c, j, n)'
    <3>1. CASE c = k
      <4> DEFINE n == Len(log[i]) + 1
      <4>1. n \in 1..Len(log'[i]) /\ log'[i][n].via = c
        BY <3>1, <2>2, <2>6, <1>a
      <4>2. \A j \in Instance : \A m \in 1..Len(log'[j]) : log'[j][m].via = c => j = i /\ m = n
        BY <3>1, <2>6, <2>7
      <4>3. QED BY <4>1, <4>2, <2>2 DEF UsedAt
    <3>2. CASE c # k
      <4>1. task[c].status = "APPROVED"
        BY <3>2, <2>4, <2>9
      <4>2. PICK j \in Instance : \E n \in 1..Len(log[j]) : UsedAt(c, j, n)
        BY <4>1 DEF SpentInv
      <4>2a. PICK n \in 1..Len(log[j]) : UsedAt(c, j, n)
        BY <4>2
      <4>3. n \in 1..Len(log'[j]) /\ log'[j][n].via = c
        BY <4>2a, <2>6, <1>a DEF UsedAt
      <4>4. \A h \in Instance : \A m \in 1..Len(log'[h]) : log'[h][m].via = c => h = j /\ m = n
        <5> SUFFICES ASSUME NEW h \in Instance, NEW m \in 1..Len(log'[h]), log'[h][m].via = c
                     PROVE  h = j /\ m = n
          OBVIOUS
        <5>1. m \in 1..Len(log[h])
          BY <2>6, <3>2
        <5>2. QED BY <5>1, <2>6, <4>2a DEF UsedAt
      <4>5. QED BY <4>3, <4>4 DEF UsedAt
    <3>3. QED BY <3>1, <3>2
  <2>10. QED BY <2>6, <2>8, <2>9 DEF SpentInv
<1>7. CASE UNCHANGED <<log, task>>
  BY <1>1, <1>7
<1>8. QED
  BY <1>2, <1>3, <1>5, <1>6, <1>7
  DEF Next, vars, CreateVersion, PublishVersion, StartWorkflow, Load, DecideStale

\* Every gated move has an approved task of its own, decided by the actor the
\* log names with the permission the task asked for; every approved task was
\* spent on exactly one move; every other move was made without a task.
THEOREM WorkflowApprovalsSpentOnce == Spec => []ApprovalsSpentOnce
<1>1. Init => TaskInv /\ SpentInv
  BY WorkflowAssumption DEF Init, TaskInv, SpentInv
<1>2. BaseInv /\ SpentInv => ApprovalsSpentOnce
  <2> SUFFICES ASSUME BaseInv, SpentInv PROVE ApprovalsSpentOnce
    OBVIOUS
  <2>a. \A i \in Instance : Len(log[i]) \in Nat
    BY Typed, LenProperties DEF BaseInv
  <2>b. \A e \in Entries : e[1] \in Instance /\ e[2] \in 1..Len(log[e[1]]) /\ e = <<e[1], e[2]>>
    BY <2>a, WorkflowAssumption DEF Entries
  <2>c. \A i \in Instance : \A n \in 1..Len(log[i]) : <<i, n>> \in Entries
    <3> SUFFICES ASSUME NEW i \in Instance, NEW n \in 1..Len(log[i]) PROVE <<i, n>> \in Entries
      OBVIOUS
    <3>1. Len(log[i]) <= MaxMoves /\ Len(log[i]) \in Nat /\ MaxMoves \in Nat
      BY <2>a, WorkflowAssumption DEF SpentInv
    <3>2. n \in 1..MaxMoves /\ n <= Len(log[i])
      BY <3>1
    <3>3. QED BY <3>2 DEF Entries
  <2>1. ASSUME NEW e \in Entries
        PROVE  LET entry == log[e[1]][e[2]]  k == entry.via IN
                 IF entry.transition.gated
                 THEN /\ k # NoTask /\ task[k].status = "APPROVED"
                      /\ task[k].instance = e[1] /\ task[k].code = entry.transition.code
                      /\ task[k].by = entry.actor /\ task[k].approver \in Grants[entry.actor]
                 ELSE k = NoTask
    <3>1. Backed(e[1], e[2])
      BY <2>b DEF SpentInv
    <3>2. QED BY <3>1, WorkflowAssumption DEF Backed
  <2>2. ASSUME NEW k \in Task, task[k].status = "APPROVED"
        PROVE  \E e \in Entries : /\ log[e[1]][e[2]].via = k
                                  /\ \A f \in Entries : log[f[1]][f[2]].via = k => f = e
    <3>1. PICK i \in Instance : \E n \in 1..Len(log[i]) : UsedAt(k, i, n)
      BY <2>2 DEF SpentInv
    <3>1a. PICK n \in 1..Len(log[i]) : UsedAt(k, i, n)
      BY <3>1
    <3> DEFINE e == <<i, n>>
    <3>2. e \in Entries /\ e[1] = i /\ e[2] = n
      BY <2>c
    <3>3. log[e[1]][e[2]].via = k
      BY <3>1a, <3>2 DEF UsedAt
    <3>4. ASSUME NEW f \in Entries, log[f[1]][f[2]].via = k PROVE f = e
      <4>1. f[1] = i /\ f[2] = n
        BY <3>1a, <3>4, <2>b DEF UsedAt
      <4>2. QED BY <4>1, <2>b
    <3> HIDE DEF e
    <3>5. QED BY <3>2, <3>3, <3>4
  <2>3. QED BY <2>1, <2>2 DEF ApprovalsSpentOnce
<1>3. QED BY <1>1, <1>2, BaseInit, BaseStep, TaskStep, SpentStep, PTL DEF Spec

-----------------------------------------------------------------------------
(* The engine implements Process.                                          *)

\* A document may start in a state it calls terminal; starting does not
\* complete such an instance.
StartsTerminal(i) == DocumentOf(i).initial \in DocumentOf(i).terminal

\* Otherwise an instance is completed exactly when it is in a terminal state,
\* and no approval is pending that would lead out of one.
PhaseOf(i) ==
  inst[i].status # "NONE" /\ ~StartsTerminal(i) =>
    (inst[i].status = "COMPLETED" <=> inst[i].state \in DocumentOf(i).terminal)

PendingOf(k) ==
  task[k].status = "PENDING" /\ ~StartsTerminal(task[k].instance) =>
    task[k].from \notin DocumentOf(task[k].instance).terminal

PhaseInv == (\A i \in Instance : PhaseOf(i)) /\ (\A k \in Task : PendingOf(k))

\* The document of a started instance never changes.
LEMMA DocumentStays ==
  ASSUME BaseInv, [Next]_vars, NEW i \in Instance, inst[i].status # "NONE"
  PROVE  DocumentOf(i)' = DocumentOf(i) /\ inst'[i].status # "NONE"
<1>a. inst \in [Instance -> InstanceRow]
  BY Typed DEF BaseInv
<1>1. CASE UNCHANGED <<inst, log>> /\ DocumentsKept
  BY <1>1 DEF DocumentsKept, DocumentOf
<1>2. ASSUME NEW j \in Instance, StartWorkflow(j)
      PROVE  DocumentOf(i)' = DocumentOf(i) /\ inst'[i].status # "NONE"
  <2>1. versions' = versions /\ inst'[i] = inst[i]
    BY <1>2, <1>a DEF StartWorkflow
  <2>2. QED BY <2>1 DEF DocumentOf
<1>3. ASSUME NEW j \in Instance, NEW t \in Transition, NEW a \in Actor,
             NEW k \in Task \cup {NoTask}, Moves(j, t, a, k)
      PROVE  DocumentOf(i)' = DocumentOf(i) /\ inst'[i].status # "NONE"
  <2>1. /\ inst'[j].version = inst[j].version
        /\ inst'[j].status = "COMPLETED" \/ inst'[j].status = inst[j].status
        /\ \A h \in Instance \ {j} : inst'[h] = inst[h]
    BY <1>3, MoveStep
  <2>2. versions' = versions
    BY <1>3 DEF Moves
  <2>3. QED BY <2>1, <2>2 DEF DocumentOf
<1>4. QED BY <1>1, <1>2, <1>3, StepKinds

\* Who is moved: an active instance, or one for which an approval is pending.
LEMMA MovedFrom ==
  ASSUME BaseInv, PhaseInv, NEW i \in Instance, NEW t \in Transition, NEW a \in Actor,
         NEW k \in Task \cup {NoTask}, Moves(i, t, a, k),
         \/ inst[i].status = "ACTIVE"
         \/ k \in Task /\ task[k].status = "PENDING" /\ task[k].instance = i
                       /\ task[k].from = inst[i].state
  PROVE  ~StartsTerminal(i) => inst[i].status = "ACTIVE"
<1>1. inst[i].status # "NONE" /\ inst[i] \in InstanceRow
  BY Typed DEF Moves, BaseInv
<1>2. inst[i].status \in {"ACTIVE", "COMPLETED"}
  BY <1>1 DEF InstanceRow, InstanceStatus
<1>3. QED BY <1>1, <1>2 DEF PhaseInv, PhaseOf, PendingOf

\* The moves of a step, with what allowed them.
AllowedMove(i, t, a, k) ==
  /\ Moves(i, t, a, k)
  /\ \/ inst[i].status = "ACTIVE" /\ task' = task
     \/ k \in Task /\ task[k].status = "PENDING" /\ task[k].instance = i
                   /\ task[k].from = inst[i].state /\ Decide(a, k, "APPROVED")

LEMMA AllowedSteps ==
  ASSUME BaseInv, [Next]_vars
  PROVE  \/ UNCHANGED <<inst, log>> /\ DocumentsKept
         \/ \E i \in Instance : StartWorkflow(i)
         \/ \E i \in Instance, t \in Transition, a \in Actor, k \in Task \cup {NoTask} :
              AllowedMove(i, t, a, k)
<1>1. ASSUME NEW a \in Actor, NEW i \in Instance, NEW t \in Transition, RequestTransition(a, i, t)
      PROVE  AllowedMove(i, t, a, NoTask)
  BY <1>1, RequestMoves DEF AllowedMove
<1>2. ASSUME NEW a \in Actor, NEW k \in Task, Approve(a, k)
      PROVE  \E i \in Instance, t \in Transition : AllowedMove(i, t, a, k)
  <2>1. /\ task[k].status = "PENDING" /\ Decide(a, k, "APPROVED")
        /\ task[k].from = inst[task[k].instance].state
    BY <1>2 DEF Approve, MayDecide, Stale
  <2>2. QED BY <1>2, <2>1, ApproveMoves DEF AllowedMove
<1>3. ASSUME NEW i \in Instance, NEW t \in Transition, NEW a \in Actor,
             NEW k \in Task \cup {NoTask}, Moves(i, t, a, k), inst' = inst
      PROVE  FALSE
  BY <1>3, MoveStep
<1>4. CASE \/ \E d \in Document : CreateVersion(d)
           \/ \E v \in DOMAIN versions : PublishVersion(v)
           \/ \E a \in Actor, i \in Instance : Load(a, i)
           \/ \E a \in Actor, i \in Instance, t \in Transition : RequestApproval(a, i, t)
           \/ \E a \in Actor, k \in Task : Reject(a, k) \/ DecideStale(a, k)
           \/ UNCHANGED vars
  <2>1. inst' = inst
    BY <1>4
    DEF vars, CreateVersion, PublishVersion, Load, RequestApproval, Reject, DecideStale
  <2>2. CASE UNCHANGED <<inst, log>> /\ DocumentsKept
    BY <2>2
  <2>3. CASE \E i \in Instance : StartWorkflow(i)
    BY <2>3
  <2>4. QED BY <2>1, <2>2, <2>3, <1>3, StepKinds
<1>5. QED BY <1>1, <1>2, <1>4 DEF Next

LEMMA PhaseStep == BaseInv /\ PhaseInv /\ [Next]_vars => PhaseInv'
<1> SUFFICES ASSUME BaseInv, PhaseInv, [Next]_vars PROVE PhaseInv'
  OBVIOUS
<1>a. inst \in [Instance -> InstanceRow] /\ task \in [Task -> TaskRow]
  BY Typed DEF BaseInv
<1>b. \A k \in Task : task[k].status # "NONE" =>
        task[k].instance \in Instance /\ inst[task[k].instance].status # "NONE"
  BY <1>a DEF BaseInv, Linked, TaskRow
<1>1. \A i \in Instance : PhaseOf(i)'
  <2> SUFFICES ASSUME NEW i \in Instance PROVE PhaseOf(i)'
    OBVIOUS
  <2>1. CASE UNCHANGED <<inst, log>> /\ DocumentsKept
    BY <2>1 DEF PhaseInv, PhaseOf, StartsTerminal, DocumentsKept, DocumentOf
  <2>2. ASSUME NEW j \in Instance, StartWorkflow(j) PROVE PhaseOf(i)'
    <3>1. PICK v \in 1..Len(versions) :
            inst' = [inst EXCEPT ![j] = [status |-> "ACTIVE", version |-> v,
                       state |-> versions[v].document.initial, lock |-> 1]]
      BY <2>2, StartStep DEF BaseInv
    <3>2. versions' = versions
      BY <2>2 DEF StartWorkflow
    <3>3. /\ inst'[j].status = "ACTIVE" /\ inst'[j].version = v
          /\ inst'[j].state = versions[v].document.initial
          /\ \A h \in Instance \ {j} : inst'[h] = inst[h]
      BY <3>1, <1>a
    <3>4. QED BY <3>2, <3>3 DEF PhaseInv, PhaseOf, StartsTerminal, DocumentOf
  <2>3. ASSUME NEW j \in Instance, NEW t \in Transition, NEW a \in Actor,
               NEW k \in Task \cup {NoTask}, AllowedMove(j, t, a, k)
        PROVE  PhaseOf(i)'
    <3>1. /\ inst'[j].status = IF t.to \in DocumentOf(j).terminal THEN "COMPLETED"
                                ELSE inst[j].status
          /\ inst'[j].state = t.to /\ inst'[j].version = inst[j].version
          /\ \A h \in Instance \ {j} : inst'[h] = inst[h]
      BY <2>3, MoveStep DEF AllowedMove
    <3>2. versions' = versions /\ inst[j].status # "NONE"
      BY <2>3 DEF AllowedMove, Moves
    <3>3. ~StartsTerminal(j) => inst[j].status = "ACTIVE"
      BY <2>3, MovedFrom DEF AllowedMove
    <3>4. CASE i = j
      <4>1. DocumentOf(i)' = DocumentOf(i)
        BY <3>1, <3>2, <3>4 DEF DocumentOf
      <4>2. StartsTerminal(i)' = StartsTerminal(i)
        BY <4>1 DEF StartsTerminal
      <4>3. ASSUME ~StartsTerminal(i)
            PROVE  inst'[i].status = "COMPLETED" <=> inst'[i].state \in DocumentOf(i).terminal
        BY <3>1, <3>3, <3>4, <4>3
      <4>4. QED BY <4>1, <4>2, <4>3 DEF PhaseOf
    <3>5. CASE i # j
      BY <3>1, <3>2, <3>5 DEF PhaseInv, PhaseOf, StartsTerminal, DocumentOf
    <3>6. QED BY <3>4, <3>5
  <2>4. QED BY <2>1, <2>2, <2>3, AllowedSteps
<1>2. ASSUME NEW k \in Task, task[k].status = "PENDING",
             task'[k].instance = task[k].instance, task'[k].from = task[k].from
      PROVE  PendingOf(k)'
  <2>1. task[k].instance \in Instance /\ inst[task[k].instance].status # "NONE"
    BY <1>2, <1>b
  <2>2. \A i \in Instance : inst[i].status # "NONE" =>
          versions'[inst'[i].version].document = versions[inst[i].version].document
    BY DocumentStays DEF DocumentOf
  <2>3. versions'[inst'[task'[k].instance].version].document
          = versions[inst[task[k].instance].version].document
    BY <2>1, <2>2, <1>2
  <2>4. QED BY <1>2, <2>3 DEF PhaseInv, PendingOf, StartsTerminal, DocumentOf
<1>3. CASE task' = task
  <2>1. ASSUME NEW k \in Task PROVE PendingOf(k)'
    <3>1. CASE task[k].status = "PENDING"
      BY <1>2, <1>3, <3>1
    <3>2. QED BY <1>3, <3>1 DEF PendingOf
  <2>2. QED BY <1>1, <2>1 DEF PhaseInv
<1>4. ASSUME NEW a \in Actor, NEW i \in Instance, NEW t \in Transition, RequestApproval(a, i, t)
      PROVE  \A k \in Task : PendingOf(k)'
  <2>1. PICK k \in Task :
          /\ task'[k].instance = i /\ task'[k].from = t.from
          /\ \A j \in Task \ {k} : task'[j] = task[j]
    BY <1>4, RequestApprovalStep DEF BaseInv
  <2>2. /\ UNCHANGED <<inst, versions>> /\ inst[i].status = "ACTIVE" /\ t.from = inst[i].state
    BY <1>4 DEF RequestApproval, MayRequest
  <2>3. ~StartsTerminal(i) => t.from \notin DocumentOf(i).terminal
    BY <2>2 DEF PhaseInv, PhaseOf
  <2>4. PendingOf(k)'
    BY <2>1, <2>2, <2>3 DEF PendingOf, StartsTerminal, DocumentOf
  <2>5. ASSUME NEW j \in Task \ {k} PROVE PendingOf(j)'
    <3>1. CASE task[j].status = "PENDING"
      BY <1>2, <2>1, <3>1
    <3>2. QED BY <2>1, <3>1 DEF PendingOf
  <2>6. QED BY <2>4, <2>5
<1>5. ASSUME NEW a \in Actor, NEW k \in Task, Approve(a, k) \/ Reject(a, k)
      PROVE  \A j \in Task : PendingOf(j)'
  <2>1. PICK status \in {"APPROVED", "REJECTED"} :
          task[k].status = "PENDING" /\ Decide(a, k, status)
    BY <1>5 DEF Approve, Reject, MayDecide
  <2>2. task'[k].status = status /\ \A j \in Task \ {k} : task'[j] = task[j]
    BY <2>1, DecideStep DEF BaseInv
  <2>3. PendingOf(k)'
    BY <2>2 DEF PendingOf
  <2>4. ASSUME NEW j \in Task \ {k} PROVE PendingOf(j)'
    <3>1. CASE task[j].status = "PENDING"
      BY <1>2, <2>2, <3>1
    <3>2. QED BY <2>2, <3>1 DEF PendingOf
  <2>5. QED BY <2>3, <2>4
<1>6. CASE ~(\E a \in Actor, i \in Instance, t \in Transition : RequestApproval(a, i, t))
           /\ ~(\E a \in Actor, k \in Task : Approve(a, k) \/ Reject(a, k))
  <2>1. task' = task
    BY <1>6
    DEF Next, vars, CreateVersion, PublishVersion, StartWorkflow, Load, RequestTransition,
        DecideStale
  <2>2. QED BY <2>1, <1>3
<1>7. QED BY <1>1, <1>4, <1>5, <1>6 DEF PhaseInv

LEMMA ProcessStarts == Init => P!Init
<1> SUFFICES ASSUME Init PROVE P!Init
  OBVIOUS
<1>1. \A i \in Instance : inst[i].status = "NONE" /\ inst[i].state = NoDocument
  BY DEF Init
<1>2. ProcessDocument = [i \in Instance |-> NoDocument]
  BY <1>1 DEF ProcessDocument
<1>3. [i \in Instance |-> inst[i].state] \in [Instance -> {NoDocument}]
  BY <1>1
<1>4. [i \in Instance |-> inst[i].status = "COMPLETED"] = [i \in Instance |-> FALSE]
  BY <1>1
<1>5. QED BY <1>2, <1>3, <1>4 DEF P!Init

LEMMA ProcessStep == BaseInv /\ PhaseInv /\ [Next]_vars => [P!Next]_(P!vars)
<1> SUFFICES ASSUME BaseInv, PhaseInv, [Next]_vars PROVE [P!Next]_(P!vars)
  OBVIOUS
<1>a. inst \in [Instance -> InstanceRow]
  BY Typed DEF BaseInv
<1>1. CASE UNCHANGED <<inst, log>> /\ DocumentsKept
  <2>1. \A i \in Instance :
          inst[i].status # "NONE" => versions'[inst'[i].version].document
                                       = versions[inst[i].version].document
    BY <1>1 DEF DocumentsKept, DocumentOf
  <2>2. ProcessDocument' = ProcessDocument
    BY <1>1, <2>1 DEF ProcessDocument
  <2>3. QED BY <1>1, <2>2 DEF P!vars
<1>2. ASSUME NEW i \in Instance, StartWorkflow(i) PROVE P!Next
  <2>1. PICK v \in 1..Len(versions) :
          /\ inst' = [inst EXCEPT ![i] = [status |-> "ACTIVE", version |-> v,
                        state |-> versions[v].document.initial, lock |-> 1]]
          /\ versions[v].document \in Document
    BY <1>2, StartStep DEF BaseInv
  <2>2. versions' = versions /\ inst[i].status = "NONE"
    BY <1>2 DEF StartWorkflow
  <2>0. PICK d \in Document : d = versions[v].document
    BY <2>1
  <2>3. /\ inst'[i].status = "ACTIVE" /\ inst'[i].version = v /\ inst'[i].state = d.initial
        /\ \A h \in Instance \ {i} : inst'[h] = inst[h]
    BY <2>0, <2>1, <1>a
  <2>4. ProcessDocument[i] = NoDocument
    BY <2>2 DEF ProcessDocument
  <2>5. ProcessDocument' = [ProcessDocument EXCEPT ![i] = d]
    BY <2>0, <2>2, <2>3 DEF ProcessDocument
  <2>6. [h \in Instance |-> inst[h].state]'
          = [[h \in Instance |-> inst[h].state] EXCEPT ![i] = d.initial]
    BY <2>3
  <2>7. [h \in Instance |-> inst[h].status = "COMPLETED"]'
          = [h \in Instance |-> inst[h].status = "COMPLETED"]
    <3>1. \A h \in Instance : (inst'[h].status = "COMPLETED") = (inst[h].status = "COMPLETED")
      BY <2>2, <2>3
    <3>2. QED BY <3>1
  <2>8. P!Start(i, d)
    BY <2>4, <2>5, <2>6, <2>7 DEF P!Start
  <2>9. QED BY <2>8 DEF P!Next
<1>3. ASSUME NEW i \in Instance, NEW t \in Transition, NEW a \in Actor,
             NEW k \in Task \cup {NoTask}, AllowedMove(i, t, a, k)
      PROVE  P!Next
  <2>1. /\ inst'[i].status = IF t.to \in DocumentOf(i).terminal THEN "COMPLETED"
                              ELSE inst[i].status
        /\ inst'[i].state = t.to /\ inst'[i].version = inst[i].version
        /\ \A h \in Instance \ {i} : inst'[h] = inst[h]
    BY <1>3, MoveStep DEF AllowedMove
  <2>2. /\ versions' = versions /\ inst[i].status # "NONE"
        /\ t \in DocumentOf(i).transitions /\ t.from = inst[i].state
    BY <1>3 DEF AllowedMove, Moves
  <2>3. ~StartsTerminal(i) => inst[i].status = "ACTIVE"
    BY <1>3, MovedFrom DEF AllowedMove
  <2> DEFINE d == DocumentOf(i)
  <2>4. ProcessDocument[i] = d /\ d \in Document /\ d # NoDocument
    BY <2>2, DocumentTyped, WorkflowAssumption DEF ProcessDocument, DocumentOf
  <2>5. ProcessDocument' = ProcessDocument
    BY <2>1, <2>2 DEF ProcessDocument
  <2>6. [h \in Instance |-> inst[h].state]'
          = [[h \in Instance |-> inst[h].state] EXCEPT ![i] = t.to]
    BY <2>1
  <2>7. [h \in Instance |-> inst[h].status = "COMPLETED"]'
          = [[h \in Instance |-> inst[h].status = "COMPLETED"]
               EXCEPT ![i] = @ \/ t.to \in d.terminal]
    <3>1. (inst'[i].status = "COMPLETED")
            = (inst[i].status = "COMPLETED" \/ t.to \in d.terminal)
      BY <2>1
    <3>2. \A h \in Instance \ {i} :
            (inst'[h].status = "COMPLETED") = (inst[h].status = "COMPLETED")
      BY <2>1
    <3> HIDE DEF d
    <3>3. QED BY <3>1, <3>2
  <2>8. inst[i].status = "COMPLETED" => d.initial \in d.terminal
    BY <2>3 DEF StartsTerminal
  <2>9. t \in d.transitions
    BY <2>2
  <2> HIDE DEF d
  <2>10. P!Move(i, t)
    <3>1. /\ [h \in Instance |-> inst[h].state][i] = inst[i].state
          /\ [h \in Instance |-> inst[h].status = "COMPLETED"][i] = (inst[i].status = "COMPLETED")
      OBVIOUS
    <3>2. /\ ProcessDocument[i] # NoDocument
          /\ t \in ProcessDocument[i].transitions
          /\ t.from = [h \in Instance |-> inst[h].state][i]
      BY <2>2, <2>4, <2>9, <3>1
    <3>3. [h \in Instance |-> inst[h].status = "COMPLETED"][i]
            => ProcessDocument[i].initial \in ProcessDocument[i].terminal
      BY <2>4, <2>8, <3>1
    <3>4. QED BY <2>4, <2>5, <2>6, <2>7, <3>2, <3>3 DEF P!Move
  <2>11. QED BY <2>4, <2>9, <2>10 DEF P!Next
<1>4. QED BY <1>1, <1>2, <1>3, AllowedSteps

\* Whatever is drafted and published, and whoever requests and approves what in
\* which order, every instance keeps the document it was started on, moves only
\* along its transitions, and stays where it is once it is completed.
THEOREM WorkflowRunsAsProcess == Spec => RunsAsProcess
<1>1. Init => PhaseInv
  BY DEF Init, PhaseInv, PhaseOf, PendingOf
<1>2. QED
  BY <1>1, BaseInit, BaseStep, PhaseStep, ProcessStarts, ProcessStep, PTL
  DEF Spec, RunsAsProcess, P!Spec
=============================================================================
