----------------------------- MODULE FieldSync -----------------------------
(***************************************************************************)
(* Operations captured offline and replayed to the server (modules/        *)
(* fieldops, application/sync.py), against the web API that records the    *)
(* same meter and submits the same inspection (modules/equipment and       *)
(* quality, application/services.py).                                      *)
(*                                                                         *)
(* receive_operation is one transaction.  Its row takes a number from a    *)
(* sequence when it is inserted, and record_meter looks for an earlier     *)
(* reading of the same operation before it locks the equipment; from that  *)
(* lock to the commit nobody else moves the meter.  So a replay is two     *)
(* steps, and so is a web call that carries an operation id.  A second     *)
(* insert of an operation waits for the first and fails if that commits.   *)
(*                                                                         *)
(* There is one piece of equipment and one inspection, whose stage leads   *)
(* to "submitted" and nowhere from there.  Attendance and incidents are    *)
(* inserted as readings are, without a lock or an order, and are left out. *)
(***************************************************************************)
EXTENDS Integers, Sequences, FiniteSets

CONSTANTS
  Meter, Visit,  \* operation ids: readings of the meter, submitted inspections
  Device,
  DeviceOf,      \* operation -> device_id
  ReadingOf,     \* meter operation -> reading
  ByWeb,         \* in place of an operation id: the web API was given none
  WebReading,    \* bound: readings the web API records without an operation id
  MaxNumber      \* bound: numbers taken from the sequence

Operation == Meter \cup Visit

None == "none"

ASSUME FieldSyncAssumption ==
  /\ Meter \cap Visit = {} /\ ByWeb \notin Operation /\ None \notin Operation \cup {ByWeb}
  /\ DeviceOf \in [Operation -> Device] /\ ReadingOf \in [Meter -> Nat]
  /\ WebReading \subseteq Nat /\ MaxNumber \in Nat

VARIABLES
  captured,    \* operation -> version of the inspection when the device took
               \* it, its expected_version; 0 before
  status,      \* operation -> status of its row; "none" without one
  number,      \* operation -> primary key of its row, committed or not
  syncing,     \* operations whose receive_operation is under way
  known,       \* those of them that found an earlier reading of theirs
  calling,     \* meter operations whose web call found none and is under way
  conflicts,   \* operations with a row in SyncConflict
  checkpoint,  \* Device -> last_server_sequence; 0 without a row
  readings,    \* sequence of [operation, reading, source], meter readings
  inspection,  \* [version, result], result being whose submission it shows
  sequence     \* last number taken from the sequence

rowVars    == <<captured, status, number, conflicts, checkpoint, sequence>>
flightVars == <<syncing, known, calling>>
vars       == <<rowVars, flightVars, readings, inspection>>

Init ==
  /\ captured = [o \in Operation |-> 0]
  /\ status = [o \in Operation |-> None]
  /\ number = [o \in Operation |-> 0]
  /\ syncing = {} /\ known = {} /\ calling = {}
  /\ conflicts = {}
  /\ checkpoint = [d \in Device |-> 0]
  /\ readings = <<>>
  /\ inspection = [version |-> 1, result |-> None]
  /\ sequence = 0

-----------------------------------------------------------------------------
(* The meter and the inspection.                                           *)

CurrentMeter == IF readings = <<>> THEN 0 ELSE readings[Len(readings)].reading

Recorded(o) == \E k \in DOMAIN readings : readings[k].operation = o

\* Mutant: a reading is refused only for what it repeats.
AcceptableAnyOrder(o, value) == o = ByWeb \/ ~Recorded(o)

\* Mutant: there is no unique constraint behind the first look.
AcceptableTwice(o, value) == CurrentMeter <= value

\* record_meter under its lock: the meter does not run backwards, and the
\* unique constraint refuses a second reading of the operation.
Acceptable(o, value) == CurrentMeter <= value /\ (o = ByWeb \/ ~Recorded(o))

RecordMeter(o, value, source) ==
  /\ Acceptable(o, value)
  /\ readings' = Append(readings, [operation |-> o, reading |-> value, source |-> source])

\* Mutant: expected_version is compared only to refuse what lies ahead.
CurrentOrOlder(expected) == expected <= inspection.version

Current(expected) == expected = inspection.version

\* The stage leads to "submitted" once.
MaySubmit(expected) == Current(expected) /\ inspection.result = None

SubmitInspection(o, expected) ==
  /\ MaySubmit(expected)
  /\ inspection' = [version |-> inspection.version + 1, result |-> o]

-----------------------------------------------------------------------------
(* receive_operation.                                                      *)

\* The device takes the operation, with what it knows of the inspection.
Capture(o) ==
  /\ captured[o] = 0
  /\ captured' = [captured EXCEPT ![o] = inspection.version]
  /\ UNCHANGED <<status, number, conflicts, checkpoint, sequence, flightVars,
                 readings, inspection>>

\* From the look for an earlier row to record_meter's for an earlier reading.
BeginSync(o) ==
  /\ captured[o] # 0 /\ status[o] = None /\ o \notin syncing
  /\ sequence < MaxNumber
  /\ sequence' = sequence + 1
  /\ number' = [number EXCEPT ![o] = sequence + 1]
  /\ syncing' = syncing \cup {o}
  /\ known' = IF Recorded(o) THEN known \cup {o} ELSE known
  /\ UNCHANGED <<captured, status, conflicts, checkpoint, calling, readings, inspection>>

\* Mutant: the checkpoint is the newest number, whoever took it.
SettleNewest(o, outcome) ==
  /\ status' = [status EXCEPT ![o] = outcome]
  /\ conflicts' = IF outcome = "conflict" THEN conflicts \cup {o} ELSE conflicts
  /\ checkpoint' = [checkpoint EXCEPT ![DeviceOf[o]] = sequence]
  /\ syncing' = syncing \ {o} /\ known' = known \ {o}
  /\ UNCHANGED <<captured, number, calling, sequence>>

\* The outcome, its conflict and the checkpoint of the device.
Settle(o, outcome) ==
  /\ status' = [status EXCEPT ![o] = outcome]
  /\ conflicts' = IF outcome = "conflict" THEN conflicts \cup {o} ELSE conflicts
  /\ checkpoint' = [checkpoint EXCEPT ![DeviceOf[o]] = number[o]]
  /\ syncing' = syncing \ {o} /\ known' = known \ {o}
  /\ UNCHANGED <<captured, number, calling, sequence>>

\* record_meter raises nothing that reads like a conflict, so what it refuses
\* is rejected.  A reading found by the first look is not compared again.
FinishMeter(o) ==
  /\ o \in syncing \cap Meter
  /\ \/ /\ o \in known
        /\ Settle(o, "applied") /\ UNCHANGED readings
     \/ /\ o \notin known /\ ~Acceptable(o, ReadingOf[o])
        /\ Settle(o, "rejected") /\ UNCHANGED readings
     \/ /\ o \notin known
        /\ RecordMeter(o, ReadingOf[o], "offline")
        /\ Settle(o, "applied")
  /\ UNCHANGED inspection

\* "Inspection changed; refresh and retry" is classified as a conflict.
FinishVisit(o) ==
  /\ o \in syncing \cap Visit
  /\ \/ /\ ~Current(captured[o])
        /\ Settle(o, "conflict") /\ UNCHANGED inspection
     \/ /\ Current(captured[o]) /\ ~MaySubmit(captured[o])
        /\ Settle(o, "rejected") /\ UNCHANGED inspection
     \/ /\ SubmitInspection(o, captured[o])
        /\ Settle(o, "applied")
  /\ UNCHANGED readings

\* The request dies, or fails with anything but a ValidationError: no row is
\* left, and the device sends the operation again.
RollbackSync(o) ==
  /\ o \in syncing
  /\ number' = [number EXCEPT ![o] = 0]
  /\ syncing' = syncing \ {o} /\ known' = known \ {o}
  /\ UNCHANGED <<captured, status, conflicts, checkpoint, sequence, calling,
                 readings, inspection>>

-----------------------------------------------------------------------------
(* The web API, which may be given the id of an operation.                 *)

BeginCall(o) ==
  /\ captured[o] # 0 /\ o \notin calling /\ ~Recorded(o)
  /\ calling' = calling \cup {o}
  /\ UNCHANGED <<rowVars, syncing, known, readings, inspection>>

FinishCall(o) ==
  /\ o \in calling
  /\ calling' = calling \ {o}
  /\ \/ RecordMeter(o, ReadingOf[o], "web")
     \/ ~Acceptable(o, ReadingOf[o]) /\ UNCHANGED readings
  /\ UNCHANGED <<rowVars, syncing, known, inspection>>

WebMeter(value) ==
  /\ \A k \in DOMAIN readings : readings[k].operation = ByWeb => readings[k].reading # value
  /\ RecordMeter(ByWeb, value, "web")
  /\ UNCHANGED <<rowVars, flightVars, inspection>>

WebSubmit(expected) ==
  /\ SubmitInspection(ByWeb, expected)
  /\ UNCHANGED <<rowVars, flightVars, readings>>

-----------------------------------------------------------------------------
Next ==
  \/ \E o \in Operation : Capture(o) \/ BeginSync(o) \/ RollbackSync(o)
  \/ \E o \in Meter : FinishMeter(o) \/ BeginCall(o) \/ FinishCall(o)
  \/ \E o \in Visit : FinishVisit(o)
  \/ \E value \in WebReading : WebMeter(value)
  \/ \E expected \in 1..inspection.version : WebSubmit(expected)

Spec == Init /\ [][Next]_vars

-----------------------------------------------------------------------------
(* Properties.                                                             *)

TypeOK ==
  /\ captured \in [Operation -> Nat] /\ number \in [Operation -> 0..sequence]
  /\ status \in [Operation -> {None, "applied", "conflict", "rejected"}]
  /\ syncing \subseteq Operation /\ known \subseteq syncing \cap Meter
  /\ calling \subseteq Meter /\ conflicts \subseteq Operation
  /\ checkpoint \in [Device -> 0..sequence] /\ sequence \in 0..MaxNumber
  /\ readings \in Seq([operation : Meter \cup {ByWeb}, reading : Nat,
                        source : {"offline", "web"}])
  /\ inspection \in [version : Nat, result : Visit \cup {ByWeb, None}]

ReadingsOf(o) == {k \in DOMAIN readings : readings[k].operation = o}

\* A reading captured offline counts once, however often it is replayed and
\* called: when it is answered "applied" the meter has exactly one reading of
\* it, and one that a replay itself recorded is never answered otherwise.
AppliedExactlyOnce ==
  \A o \in Meter :
    /\ Cardinality(ReadingsOf(o)) <= 1
    /\ status[o] = "applied" => ReadingsOf(o) # {}
    /\ \A k \in ReadingsOf(o) : readings[k].source = "offline" => status[o] = "applied"

\* Whatever is replayed late or out of order, the meter never runs backwards.
MeterRunsForward ==
  \A k \in DOMAIN readings : \A j \in 1..k : readings[j].reading <= readings[k].reading

\* The first submission of an inspection wins: what it shows is what exactly
\* one operation (or the web) was told was applied, and an operation that was
\* captured before somebody else's submission ends in a conflict, with its row.
FirstSubmissionWins ==
  \A o \in Visit :
    /\ status[o] = "applied" <=> inspection.result = o
    /\ status[o] \in {"conflict", "rejected"} => inspection.result \notin {None, o}
    /\ status[o] = "conflict" <=> o \in conflicts
    /\ status[o] \in {"conflict", "applied"} <=>
         status[o] # None /\ captured[o] < inspection.version

\* The checkpoint of a device names an operation of that device that was
\* answered, and every device that had an answer has one.
CheckpointWasAnswered ==
  \A d \in Device :
    IF checkpoint[d] = 0
    THEN \A o \in Operation : DeviceOf[o] = d => status[o] = None
    ELSE \E o \in Operation : /\ DeviceOf[o] = d /\ number[o] = checkpoint[d]
                              /\ status[o] # None
=============================================================================
