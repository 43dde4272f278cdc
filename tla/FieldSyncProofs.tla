--------------------------- MODULE FieldSyncProofs ---------------------------
(***************************************************************************)
(* Safety of the replay of offline operations, for every set of operations *)
(* and devices, any number of replays, rollbacks and web calls; then of    *)
(* what is launched: a company going live, a release, a pilot.             *)
(***************************************************************************)
EXTENDS FieldSync, Launch, SequenceTheorems, FiniteSetTheorems, TLAPS

Reading == [operation : Meter \cup {ByWeb}, reading : Nat, source : {"offline", "web"}]

Outcome == {"applied", "conflict", "rejected"}

\* An operation is replayed after it was captured, has a number while it is
\* replayed, and is not replayed again once it was answered.
LifeOf(o) ==
  /\ captured[o] <= inspection.version
  /\ o \in syncing => status[o] = None /\ captured[o] # 0 /\ number[o] # 0
  /\ status[o] # None => captured[o] # 0

\* The inspection is submitted at most once.
StageInv == inspection.version = IF inspection.result = None THEN 1 ELSE 2

BaseInv == TypeOK /\ StageInv /\ \A o \in Operation : LifeOf(o)

-----------------------------------------------------------------------------
(* What the types say, and what the helpers change.                        *)

LEMMA Typed ==
  ASSUME TypeOK
  PROVE  /\ readings \in Seq(Reading) /\ Len(readings) \in Nat
         /\ DOMAIN readings = 1..Len(readings)
         /\ \A k \in 1..Len(readings) : readings[k] \in Reading
         /\ captured \in [Operation -> Nat] /\ sequence \in Nat
         /\ number \in [Operation -> Nat]
         /\ status \in [Operation -> Outcome \cup {None}]
         /\ inspection.version \in Nat
<1>1. readings \in Seq(Reading)
  BY DEF TypeOK, Reading
<1>2. sequence \in Nat /\ \A n \in 0..sequence : n \in Nat
  BY FieldSyncAssumption DEF TypeOK
<1>3. number \in [Operation -> Nat]
  BY <1>2 DEF TypeOK
<1>4. status \in [Operation -> Outcome \cup {None}]
  BY DEF TypeOK, Outcome
<1>5. captured \in [Operation -> Nat] /\ inspection.version \in Nat
  BY DEF TypeOK
<1>6. DOMAIN readings = 1..Len(readings) /\ Len(readings) \in Nat
      /\ \A k \in 1..Len(readings) : readings[k] \in Reading
  BY <1>1, LenProperties, ElementOfSeq
<1>7. QED BY <1>1, <1>2, <1>3, <1>4, <1>5, <1>6

\* A recorded reading comes last, is not smaller than the one before it, and is
\* the first of its operation.
LEMMA RecordStep ==
  ASSUME TypeOK, NEW o \in Meter \cup {ByWeb}, NEW value \in Nat,
         NEW source \in {"offline", "web"}, RecordMeter(o, value, source)
  PROVE  /\ readings' \in Seq(Reading) /\ Len(readings') = Len(readings) + 1
         /\ DOMAIN readings' = 1..(Len(readings) + 1)
         /\ \A k \in 1..Len(readings) : readings'[k] = readings[k]
         /\ readings'[Len(readings) + 1].operation = o
         /\ readings'[Len(readings) + 1].reading = value
         /\ readings'[Len(readings) + 1].source = source
         /\ Len(readings) > 0 => readings[Len(readings)].reading <= value
         /\ o # ByWeb => \A k \in 1..Len(readings) : readings[k].operation # o
<1> DEFINE row == [operation |-> o, reading |-> value, source |-> source]
<1>1. row \in Reading
  BY DEF Reading
<1>2. readings' = Append(readings, row) /\ readings \in Seq(Reading) /\ Len(readings) \in Nat
  BY Typed DEF RecordMeter
<1>3. row.operation = o /\ row.reading = value /\ row.source = source
  OBVIOUS
<1> HIDE DEF row
<1>4. /\ readings' \in Seq(Reading) /\ Len(readings') = Len(readings) + 1
      /\ \A k \in 1..Len(readings) : readings'[k] = readings[k]
      /\ readings'[Len(readings) + 1] = row
  BY <1>1, <1>2, AppendProperties
<1>5. DOMAIN readings' = 1..(Len(readings) + 1)
  BY <1>4, LenProperties
<1>6. Len(readings) > 0 => readings[Len(readings)].reading <= value
  <2>1. Len(readings) > 0 => readings # <<>>
    BY EmptySeq
  <2>2. CurrentMeter <= value
    BY DEF RecordMeter, Acceptable
  <2>3. QED BY <2>1, <2>2 DEF CurrentMeter
<1>7. o # ByWeb => \A k \in 1..Len(readings) : readings[k].operation # o
  BY Typed DEF RecordMeter, Acceptable, Recorded
<1>8. QED BY <1>3, <1>4, <1>5, <1>6, <1>7

\* A replay that ends answers its operation and moves the device's checkpoint.
LEMMA SettleStep ==
  ASSUME TypeOK, NEW o \in Operation, NEW outcome \in Outcome, Settle(o, outcome)
  PROVE  /\ UNCHANGED <<captured, number, calling, sequence>>
         /\ syncing' = syncing \ {o} /\ known' = known \ {o}
         /\ status' \in [Operation -> Outcome \cup {None}] /\ status'[o] = outcome
         /\ \A p \in Operation \ {o} : status'[p] = status[p]
         /\ DeviceOf[o] \in Device /\ checkpoint'[DeviceOf[o]] = number[o]
         /\ \A d \in Device \ {DeviceOf[o]} : checkpoint'[d] = checkpoint[d]
         /\ checkpoint' \in [Device -> 0..sequence]
         /\ conflicts' = IF outcome = "conflict" THEN conflicts \cup {o} ELSE conflicts
<1>1. /\ number[o] \in 0..sequence /\ DeviceOf[o] \in Device
      /\ checkpoint \in [Device -> 0..sequence] /\ status \in [Operation -> Outcome \cup {None}]
  BY Typed, FieldSyncAssumption DEF TypeOK
<1>2. QED BY <1>1 DEF Settle

\* How a replay ends.
LEMMA FinishMeterKinds ==
  ASSUME TypeOK, NEW o \in Meter, FinishMeter(o)
  PROVE  /\ inspection' = inspection /\ o \in syncing
         /\ \/ o \in known /\ Settle(o, "applied") /\ readings' = readings
            \/ o \notin known /\ Settle(o, "rejected") /\ readings' = readings
            \/ Settle(o, "applied") /\ RecordMeter(o, ReadingOf[o], "offline")
BY DEF FinishMeter

LEMMA SubmitStep ==
  ASSUME TypeOK, StageInv, NEW o \in Visit \cup {ByWeb}, NEW expected, SubmitInspection(o, expected)
  PROVE  /\ inspection.result = None /\ inspection.version = 1 /\ expected = 1
         /\ inspection'.result = o /\ inspection'.version = 2
         /\ inspection' \in [version : Nat, result : Visit \cup {ByWeb, None}]
<1>1. inspection.result = None /\ inspection.version = 1 /\ expected = inspection.version
  BY DEF SubmitInspection, MaySubmit, Current, StageInv
<1>2. inspection' = [version |-> 2, result |-> o]
  BY <1>1 DEF SubmitInspection
<1>3. QED BY <1>1, <1>2

-----------------------------------------------------------------------------
(* Types and the life of an operation.                                     *)

LEMMA TypedNext ==
  ASSUME TypeOK, readings' \in Seq(Reading), sequence' \in 0..MaxNumber,
         captured' \in [Operation -> Nat], number' \in [Operation -> 0..sequence'],
         status' \in [Operation -> Outcome \cup {None}], syncing' \subseteq Operation,
         known' \subseteq syncing' \cap Meter, calling' \subseteq Meter,
         conflicts' \subseteq Operation, checkpoint' \in [Device -> 0..sequence'],
         inspection' \in [version : Nat, result : Visit \cup {ByWeb, None}]
  PROVE  TypeOK'
BY DEF TypeOK, Reading, Outcome

LEMMA CaptureStep ==
  ASSUME BaseInv, NEW o \in Operation, Capture(o)
  PROVE  BaseInv'
<1>1. /\ UNCHANGED <<status, number, conflicts, checkpoint, sequence, flightVars, readings, inspection>>
      /\ captured[o] = 0 /\ captured' = [captured EXCEPT ![o] = inspection.version]
  BY DEF Capture
<1>2. captured \in [Operation -> Nat] /\ inspection.version \in Nat
  BY DEF BaseInv, TypeOK
<1>3. /\ captured' \in [Operation -> Nat] /\ captured'[o] = inspection.version
      /\ \A p \in Operation \ {o} : captured'[p] = captured[p]
  BY <1>1, <1>2
<1>4. TypeOK'
  BY <1>1, <1>3 DEF BaseInv, TypeOK, flightVars
<1>5. LifeOf(o)'
  <2>1. LifeOf(o)
    BY DEF BaseInv
  <2>2. o \notin syncing /\ status[o] = None
    BY <1>1, <2>1 DEF LifeOf
  <2>3. UNCHANGED <<status, syncing, inspection>> /\ inspection.version <= inspection.version
    BY <1>1, <1>2 DEF flightVars
  <2>4. QED BY <1>3, <2>2, <2>3 DEF LifeOf
<1>6. \A p \in Operation \ {o} : LifeOf(p)'
  BY <1>1, <1>3 DEF BaseInv, LifeOf, flightVars
<1>7. QED BY <1>1, <1>4, <1>5, <1>6 DEF BaseInv, StageInv

LEMMA BeginStep ==
  ASSUME BaseInv, NEW o \in Operation, BeginSync(o)
  PROVE  BaseInv'
<1>1. /\ UNCHANGED <<captured, status, conflicts, checkpoint, calling, readings, inspection>>
      /\ captured[o] # 0 /\ status[o] = None /\ sequence < MaxNumber /\ sequence' = sequence + 1
      /\ number' = [number EXCEPT ![o] = sequence + 1] /\ syncing' = syncing \cup {o}
      /\ known' = IF Recorded(o) THEN known \cup {o} ELSE known
  BY DEF BeginSync
<1>2. /\ sequence \in 0..MaxNumber /\ MaxNumber \in Nat /\ number \in [Operation -> 0..sequence]
      /\ checkpoint \in [Device -> 0..sequence] /\ known \subseteq syncing \cap Meter
  BY FieldSyncAssumption DEF BaseInv, TypeOK
<1>3. sequence' \in 0..MaxNumber /\ \A n \in 0..sequence : n \in 0..sequence'
      /\ sequence + 1 \in 0..sequence' /\ sequence + 1 # 0
  BY <1>1, <1>2
<1>4. number' \in [Operation -> 0..sequence'] /\ checkpoint' \in [Device -> 0..sequence']
  BY <1>1, <1>2, <1>3
<1>5. Recorded(o) => o \in Meter
  BY Typed, FieldSyncAssumption DEF Recorded, BaseInv, Reading, Operation
<1>6. known' \subseteq syncing' \cap Meter
  BY <1>1, <1>2, <1>5
<1>7. TypeOK'
  BY <1>1, <1>3, <1>4, <1>6 DEF BaseInv, TypeOK
<1>8. number'[o] # 0 /\ \A p \in Operation \ {o} : number'[p] = number[p]
  BY <1>1, <1>2, <1>3
<1>9. \A p \in Operation : LifeOf(p)'
  BY <1>1, <1>8 DEF BaseInv, LifeOf
<1>10. QED BY <1>1, <1>7, <1>9 DEF BaseInv, StageInv

LEMMA RollbackStep ==
  ASSUME BaseInv, NEW o \in Operation, RollbackSync(o)
  PROVE  BaseInv'
<1>1. /\ UNCHANGED <<captured, status, conflicts, checkpoint, sequence, calling, readings, inspection>>
      /\ number' = [number EXCEPT ![o] = 0] /\ syncing' = syncing \ {o} /\ known' = known \ {o}
  BY DEF RollbackSync
<1>2. number \in [Operation -> 0..sequence] /\ 0 \in 0..sequence
  BY FieldSyncAssumption DEF BaseInv, TypeOK
<1>3. /\ number' \in [Operation -> 0..sequence]
      /\ \A p \in Operation \ {o} : number'[p] = number[p]
  BY <1>1, <1>2
<1>4. TypeOK'
  BY <1>1, <1>3 DEF BaseInv, TypeOK
<1>5. \A p \in Operation : LifeOf(p)'
  BY <1>1, <1>3 DEF BaseInv, LifeOf
<1>6. QED BY <1>1, <1>4, <1>5 DEF BaseInv, StageInv

\* The answer to a replay does not depend on what else the transaction wrote.
LEMMA AnswerStep ==
  ASSUME BaseInv, NEW o \in Operation, o \in syncing, NEW outcome \in Outcome,
         Settle(o, outcome), readings' \in Seq(Reading), StageInv',
         inspection' \in [version : Nat, result : Visit \cup {ByWeb, None}],
         inspection.version <= inspection'.version
  PROVE  BaseInv'
<1>1. /\ UNCHANGED <<captured, number, calling, sequence>>
      /\ syncing' = syncing \ {o} /\ known' = known \ {o}
      /\ status' \in [Operation -> Outcome \cup {None}]
      /\ \A p \in Operation \ {o} : status'[p] = status[p]
      /\ checkpoint' \in [Device -> 0..sequence]
      /\ conflicts' \subseteq conflicts \cup {o}
  BY SettleStep DEF BaseInv
<1>2. TypeOK'
  <2>1. /\ conflicts \subseteq Operation /\ captured \in [Operation -> Nat]
        /\ sequence \in 0..MaxNumber /\ number \in [Operation -> 0..sequence]
        /\ syncing \subseteq Operation /\ known \subseteq syncing \cap Meter
        /\ calling \subseteq Meter
    BY DEF BaseInv, TypeOK
  <2>2. /\ conflicts' \subseteq Operation /\ syncing' \subseteq Operation
        /\ known' \subseteq syncing' \cap Meter
    BY <1>1, <2>1
  <2>3. QED BY <1>1, <2>1, <2>2, TypedNext DEF BaseInv
<1>3. ASSUME NEW p \in Operation PROVE LifeOf(p)'
  <2>1. LifeOf(p) /\ LifeOf(o) /\ captured[p] \in Nat /\ inspection.version \in Nat
        /\ inspection'.version \in Nat
    BY Typed DEF BaseInv
  <2>2. captured'[p] <= inspection'.version
    BY <1>1, <2>1 DEF LifeOf
  <2>3. QED BY <1>1, <2>1, <2>2 DEF LifeOf
<1>4. QED BY <1>2, <1>3 DEF BaseInv

LEMMA FinishMeterStep ==
  ASSUME BaseInv, NEW o \in Meter, FinishMeter(o)
  PROVE  BaseInv'
<1>1. /\ inspection' = inspection /\ o \in syncing /\ o \in Operation
      /\ \E outcome \in Outcome : Settle(o, outcome)
      /\ readings' = readings \/ RecordMeter(o, ReadingOf[o], "offline")
  BY FinishMeterKinds DEF BaseInv, Outcome, Operation
<1>2. ReadingOf[o] \in Nat
  BY FieldSyncAssumption
<1>3. readings' \in Seq(Reading)
  BY <1>1, <1>2, RecordStep, Typed DEF BaseInv
<1>4. /\ StageInv' /\ inspection.version <= inspection'.version
      /\ inspection' \in [version : Nat, result : Visit \cup {ByWeb, None}]
  BY <1>1 DEF BaseInv, StageInv, TypeOK
<1>5. QED BY <1>1, <1>3, <1>4, AnswerStep

LEMMA FinishVisitKinds ==
  ASSUME BaseInv, NEW o \in Visit, FinishVisit(o)
  PROVE  /\ readings' = readings /\ o \in syncing
         /\ \/ /\ captured[o] # inspection.version
               /\ Settle(o, "conflict") /\ inspection' = inspection
            \/ /\ captured[o] = inspection.version /\ inspection.result # None
               /\ Settle(o, "rejected") /\ inspection' = inspection
            \/ /\ captured[o] = 1 /\ SubmitInspection(o, captured[o])
               /\ Settle(o, "applied")
<1>1. CASE SubmitInspection(o, captured[o])
  BY <1>1, SubmitStep DEF FinishVisit, BaseInv, SubmitInspection, MaySubmit, Current
<1>2. CASE ~SubmitInspection(o, captured[o])
  BY <1>2 DEF FinishVisit, MaySubmit, Current
<1>3. QED BY <1>1, <1>2

LEMMA FinishVisitStep ==
  ASSUME BaseInv, NEW o \in Visit, FinishVisit(o)
  PROVE  BaseInv'
<1>1. /\ readings' = readings /\ o \in syncing /\ o \in Operation
      /\ \E outcome \in Outcome : Settle(o, outcome)
      /\ inspection' = inspection \/ SubmitInspection(o, captured[o])
  BY FinishVisitKinds DEF Outcome, Operation
<1>2. readings' \in Seq(Reading)
  BY <1>1, Typed DEF BaseInv
<1>3. /\ StageInv' /\ inspection.version <= inspection'.version
      /\ inspection' \in [version : Nat, result : Visit \cup {ByWeb, None}]
  <2>1. CASE inspection' = inspection
    BY <2>1 DEF BaseInv, StageInv, TypeOK
  <2>2. CASE SubmitInspection(o, captured[o])
    <3>1. /\ inspection.version = 1 /\ inspection'.result = o /\ inspection'.version = 2
          /\ inspection' \in [version : Nat, result : Visit \cup {ByWeb, None}]
      BY <2>2, SubmitStep DEF BaseInv
    <3>2. o # None
      BY FieldSyncAssumption DEF Operation
    <3>3. QED BY <3>1, <3>2 DEF StageInv
  <2>3. QED BY <1>1, <2>1, <2>2
<1>4. QED BY <1>1, <1>2, <1>3, AnswerStep

LEMMA WebStep ==
  ASSUME BaseInv,
         \/ \E o \in Meter : BeginCall(o) \/ FinishCall(o)
         \/ \E value \in WebReading : WebMeter(value)
  PROVE  BaseInv'
<1>1. /\ UNCHANGED <<rowVars, syncing, known, inspection>>
      /\ calling' \subseteq Meter
      /\ \/ readings' = readings
         \/ \E o \in Meter \cup {ByWeb}, value \in Nat : RecordMeter(o, value, "web")
  BY FieldSyncAssumption DEF BaseInv, TypeOK, BeginCall, FinishCall, WebMeter, flightVars
<1>2. readings' \in Seq(Reading)
  BY <1>1, RecordStep, Typed DEF BaseInv
<1>3. TypeOK'
  BY <1>1, <1>2 DEF BaseInv, TypeOK, Reading, rowVars
<1>4. \A p \in Operation : LifeOf(p)'
  BY <1>1 DEF BaseInv, LifeOf, rowVars
<1>5. QED BY <1>1, <1>3, <1>4 DEF BaseInv, StageInv

LEMMA WebSubmitStep ==
  ASSUME BaseInv, NEW expected, WebSubmit(expected)
  PROVE  BaseInv'
<1>1. UNCHANGED <<rowVars, flightVars, readings>> /\ SubmitInspection(ByWeb, expected)
  BY DEF WebSubmit
<1>2. /\ inspection.version = 1 /\ inspection'.result = ByWeb /\ inspection'.version = 2
      /\ inspection' \in [version : Nat, result : Visit \cup {ByWeb, None}]
  BY <1>1, SubmitStep DEF BaseInv
<1>3. TypeOK'
  BY <1>1, <1>2 DEF BaseInv, TypeOK, rowVars, flightVars
<1>4. StageInv'
  BY <1>2, FieldSyncAssumption DEF StageInv
<1>5. ASSUME NEW p \in Operation PROVE LifeOf(p)'
  <2>1. LifeOf(p) /\ captured[p] \in Nat
    BY Typed DEF BaseInv
  <2>2. captured[p] <= inspection'.version
    BY <1>2, <2>1 DEF LifeOf
  <2>3. QED BY <1>1, <2>1, <2>2 DEF LifeOf, rowVars, flightVars
<1>6. QED BY <1>3, <1>4, <1>5 DEF BaseInv

LEMMA BaseStep == BaseInv /\ [Next]_vars => BaseInv'
<1> SUFFICES ASSUME BaseInv, [Next]_vars PROVE BaseInv'
  OBVIOUS
<1>1. CASE UNCHANGED vars
  BY <1>1 DEF vars, rowVars, flightVars, BaseInv, TypeOK, StageInv, LifeOf
<1>2. QED
  BY <1>1, CaptureStep, BeginStep, RollbackStep, FinishMeterStep, FinishVisitStep, WebStep,
     WebSubmitStep
  DEF Next

LEMMA BaseInit == Init => BaseInv
<1> SUFFICES ASSUME Init PROVE BaseInv
  OBVIOUS
<1>1. readings \in Seq(Reading)
  BY EmptySeq DEF Init
<1>2. /\ 0 \in 0..0 /\ 0 \in 0..MaxNumber
  BY FieldSyncAssumption
<1>3. TypeOK
  BY <1>1, <1>2 DEF Init, TypeOK, Reading
<1>4. StageInv /\ \A o \in Operation : LifeOf(o)
  BY DEF Init, StageInv, LifeOf
<1>5. QED BY <1>3, <1>4 DEF BaseInv

\* Every row keeps its type: numbers come from the sequence, a checkpoint is a
\* number that was taken, and only what is replayed is looked up.
THEOREM FieldSyncTypeCorrect == Spec => []TypeOK
<1>1. BaseInv => TypeOK
  BY DEF BaseInv
<1>2. QED BY <1>1, BaseInit, BaseStep, PTL DEF Spec

-----------------------------------------------------------------------------
(* Readings.                                                               *)

\* What becomes of the readings and of what is said of them: nothing, or one
\* reading more, by the web or by a replay that is answered "applied".
MeterSteps ==
  /\ known' \subseteq known \/ (\E o \in Operation : known' = known \cup {o} /\ Recorded(o))
  /\ \/ readings' = readings
     \/ \E o \in Meter \cup {ByWeb}, value \in Nat, source \in {"offline", "web"} :
          /\ RecordMeter(o, value, source)
          /\ source = "offline" => o \in Meter /\ status'[o] = "applied"
  /\ \A o \in Meter : status'[o] # status[o] =>
       /\ status[o] = None
       /\ status'[o] = "applied" => o \in known \/ RecordMeter(o, ReadingOf[o], "offline")

LEMMA MeterStepKinds ==
  ASSUME BaseInv, [Next]_vars
  PROVE  MeterSteps
<1>a. TypeOK /\ \A o \in Operation : LifeOf(o)
  BY DEF BaseInv
<1>1. CASE UNCHANGED <<readings, known, status>>
  BY <1>1 DEF MeterSteps
<1>2. ASSUME NEW o \in Operation, BeginSync(o) PROVE MeterSteps
  BY <1>2 DEF MeterSteps, BeginSync
<1>3. ASSUME NEW o \in Operation, RollbackSync(o) PROVE MeterSteps
  BY <1>3 DEF MeterSteps, RollbackSync
<1>4. ASSUME NEW o \in Meter, FinishMeter(o) PROVE MeterSteps
  <2>1. o \in syncing /\ o \in Operation /\ ReadingOf[o] \in Nat /\ status[o] = None
    BY <1>4, <1>a, FinishMeterKinds, FieldSyncAssumption DEF Operation, LifeOf
  <2>2. PICK outcome \in Outcome :
          /\ Settle(o, outcome)
          /\ \/ readings' = readings /\ (outcome = "applied" => o \in known)
             \/ RecordMeter(o, ReadingOf[o], "offline") /\ outcome = "applied"
    BY <1>4, <1>a, FinishMeterKinds DEF Outcome
  <2>3. /\ known' = known \ {o} /\ status'[o] = outcome
        /\ \A p \in Operation \ {o} : status'[p] = status[p]
    BY <2>1, <2>2, <1>a, SettleStep
  <2>4. \A p \in Meter : status'[p] # status[p] => p = o
    BY <2>3 DEF Operation
  <2>5. QED BY <2>1, <2>2, <2>3, <2>4 DEF MeterSteps
<1>5. ASSUME NEW o \in Visit, FinishVisit(o) PROVE MeterSteps
  <2>1. readings' = readings /\ o \in Operation /\ o \notin Meter
        /\ \E outcome \in Outcome : Settle(o, outcome)
    BY <1>5, FinishVisitKinds, FieldSyncAssumption DEF Operation, Outcome
  <2>2. known' = known \ {o} /\ \A p \in Operation \ {o} : status'[p] = status[p]
    BY <2>1, <1>a, SettleStep
  <2>3. \A p \in Meter : status'[p] = status[p]
    BY <2>1, <2>2 DEF Operation
  <2>4. QED BY <2>1, <2>2, <2>3 DEF MeterSteps
<1>6. ASSUME NEW o \in Meter, BeginCall(o) PROVE MeterSteps
  BY <1>6 DEF MeterSteps, BeginCall, rowVars
<1>7. ASSUME NEW o \in Meter, FinishCall(o) PROVE MeterSteps
  <2>1. ReadingOf[o] \in Nat /\ UNCHANGED <<known, status>>
        /\ (readings' = readings \/ RecordMeter(o, ReadingOf[o], "web"))
    BY <1>7, FieldSyncAssumption DEF FinishCall, rowVars
  <2>2. QED BY <2>1 DEF MeterSteps
<1>8. ASSUME NEW value \in WebReading, WebMeter(value) PROVE MeterSteps
  <2>1. value \in Nat /\ UNCHANGED <<known, status>> /\ RecordMeter(ByWeb, value, "web")
    BY <1>8, FieldSyncAssumption DEF WebMeter, rowVars, flightVars
  <2>2. QED BY <2>1 DEF MeterSteps
<1>9. ASSUME NEW expected, WebSubmit(expected) PROVE MeterSteps
  BY <1>9 DEF MeterSteps, WebSubmit, rowVars, flightVars
<1>10. ASSUME NEW o \in Operation, Capture(o) PROVE MeterSteps
  BY <1>10 DEF MeterSteps, Capture, flightVars
<1>11. QED
  BY <1>1, <1>2, <1>3, <1>4, <1>5, <1>6, <1>7, <1>8, <1>9, <1>10
  DEF Next, vars, rowVars, flightVars

ReadingsInv ==
  /\ \A j, k \in 1..Len(readings) :
       readings[j].operation = readings[k].operation /\ readings[j].operation # ByWeb => j = k
  /\ \A k \in 1..Len(readings) : readings[k].source = "offline" =>
       readings[k].operation \in Meter /\ status[readings[k].operation] = "applied"
  /\ \A o \in known : Recorded(o)
  /\ \A o \in Meter : status[o] = "applied" => Recorded(o)

LEMMA ReadingsStep == BaseInv /\ ReadingsInv /\ [Next]_vars => ReadingsInv'
<1> SUFFICES ASSUME BaseInv, ReadingsInv, [Next]_vars PROVE ReadingsInv'
  OBVIOUS
<1>a. MeterSteps /\ TypeOK
  BY MeterStepKinds DEF BaseInv
<1>b. /\ Len(readings) \in Nat /\ DOMAIN readings = 1..Len(readings)
      /\ \A k \in 1..Len(readings) : readings[k].operation \in Meter \cup {ByWeb}
  BY <1>a, Typed DEF Reading
\* Readings stay, and an answer stays what it was.
<1>1. \A o : Recorded(o) => Recorded(o)'
  <2>1. CASE readings' = readings
    BY <2>1 DEF Recorded
  <2>2. ASSUME NEW o \in Meter \cup {ByWeb}, NEW value \in Nat, NEW source \in {"offline", "web"},
               RecordMeter(o, value, source)
        PROVE  \A p : Recorded(p) => Recorded(p)'
    <3>1. /\ DOMAIN readings' = 1..(Len(readings) + 1)
          /\ \A k \in 1..Len(readings) : readings'[k] = readings[k]
      BY <2>2, <1>a, RecordStep
    <3>2. \A k \in 1..Len(readings) : k \in 1..(Len(readings) + 1)
      BY <1>b
    <3>3. QED BY <3>1, <3>2, <1>b DEF Recorded
  <2>3. QED BY <1>a, <2>1, <2>2 DEF MeterSteps
<1>2. \A o \in Meter : status[o] = "applied" => status'[o] = "applied"
  BY <1>a DEF MeterSteps, None
<1>3. ASSUME NEW o \in Meter, NEW value \in Nat, NEW source \in {"offline", "web"},
             RecordMeter(o, value, source)
      PROVE  Recorded(o)'
  <2>1. /\ DOMAIN readings' = 1..(Len(readings) + 1)
        /\ readings'[Len(readings) + 1].operation = o
    BY <1>3, <1>a, RecordStep
  <2>2. Len(readings) + 1 \in 1..(Len(readings) + 1)
    BY <1>b
  <2>3. QED BY <2>1, <2>2 DEF Recorded
<1>4. \A o \in known' : Recorded(o)'
  BY <1>a, <1>1 DEF MeterSteps, ReadingsInv
<1>5. ASSUME NEW o \in Meter, status'[o] = "applied" PROVE Recorded(o)'
  <2>1. CASE status[o] = "applied"
    BY <2>1, <1>1 DEF ReadingsInv
  <2>2. CASE status[o] # "applied"
    <3>1. o \in known \/ RecordMeter(o, ReadingOf[o], "offline")
      BY <1>5, <2>2, <1>a DEF MeterSteps
    <3>2. ReadingOf[o] \in Nat
      BY FieldSyncAssumption
    <3>3. QED BY <3>1, <3>2, <1>1, <1>3 DEF ReadingsInv
  <2>3. QED BY <2>1, <2>2
<1>6. CASE readings' = readings
  <2>1. \A k \in 1..Len(readings') : readings'[k].source = "offline" =>
          readings'[k].operation \in Meter /\ status'[readings'[k].operation] = "applied"
    BY <1>6, <1>2 DEF ReadingsInv
  <2>2. \A j, k \in 1..Len(readings') :
          readings'[j].operation = readings'[k].operation /\ readings'[j].operation # ByWeb => j = k
    BY <1>6 DEF ReadingsInv
  <2>3. QED BY <2>1, <2>2, <1>4, <1>5 DEF ReadingsInv
<1>7. ASSUME NEW o \in Meter \cup {ByWeb}, NEW value \in Nat, NEW source \in {"offline", "web"},
             RecordMeter(o, value, source),
             source = "offline" => o \in Meter /\ status'[o] = "applied"
      PROVE  ReadingsInv'
  <2>1. /\ Len(readings') = Len(readings) + 1
        /\ \A k \in 1..Len(readings) : readings'[k] = readings[k]
        /\ readings'[Len(readings) + 1].operation = o
        /\ readings'[Len(readings) + 1].source = source
        /\ o # ByWeb => \A k \in 1..Len(readings) : readings[k].operation # o
    BY <1>7, <1>a, RecordStep
  <2>2. \A k \in 1..Len(readings') : k \in 1..Len(readings) \/ k = Len(readings) + 1
    BY <2>1, <1>b
  <2>3. \A k \in 1..Len(readings') : readings'[k].source = "offline" =>
          readings'[k].operation \in Meter /\ status'[readings'[k].operation] = "applied"
    BY <2>1, <2>2, <1>2, <1>7 DEF ReadingsInv
  <2>4. ASSUME NEW j \in 1..Len(readings'), NEW k \in 1..Len(readings'),
               readings'[j].operation = readings'[k].operation, readings'[j].operation # ByWeb
        PROVE  j = k
    <3>1. CASE j \in 1..Len(readings) /\ k \in 1..Len(readings)
      BY <3>1, <2>1, <2>4 DEF ReadingsInv
    <3>2. CASE j = Len(readings) + 1 /\ k \in 1..Len(readings)
      BY <3>2, <2>1, <2>4
    <3>3. CASE k = Len(readings) + 1 /\ j \in 1..Len(readings)
      BY <3>3, <2>1, <2>4
    <3>4. QED BY <3>1, <3>2, <3>3, <2>2
  <2>5. QED BY <2>3, <2>4, <1>4, <1>5 DEF ReadingsInv
<1>8. QED BY <1>a, <1>6, <1>7 DEF MeterSteps

\* An operation that was answered "applied" has exactly one reading on the
\* meter, however the replays and the web calls that carry its id overlap.
THEOREM FieldSyncAppliedExactlyOnce == Spec => []AppliedExactlyOnce
<1>1. Init => ReadingsInv
  <2> SUFFICES ASSUME Init PROVE ReadingsInv
    OBVIOUS
  <2>1. Len(readings) = 0
    BY EmptySeq DEF Init
  <2>2. 1..Len(readings) = {}
    BY <2>1
  <2>3. known = {} /\ \A o \in Meter : status[o] # "applied"
    BY DEF Init, None, Operation
  <2>4. QED BY <2>2, <2>3 DEF ReadingsInv
<1>2. BaseInv /\ ReadingsInv => AppliedExactlyOnce
  <2> SUFFICES ASSUME BaseInv, ReadingsInv, NEW o \in Meter
               PROVE  /\ Cardinality(ReadingsOf(o)) <= 1
                      /\ status[o] = "applied" => ReadingsOf(o) # {}
                      /\ \A k \in ReadingsOf(o) : readings[k].source = "offline" => status[o] = "applied"
    BY DEF AppliedExactlyOnce
  <2>a. DOMAIN readings = 1..Len(readings)
    BY Typed DEF BaseInv
  <2>b. o # ByWeb
    BY FieldSyncAssumption DEF Operation
  <2>1. \A j, k \in ReadingsOf(o) : j = k
    BY <2>a, <2>b DEF ReadingsInv, ReadingsOf
  <2>2. Cardinality(ReadingsOf(o)) <= 1
    <3>1. CASE ReadingsOf(o) = {}
      BY <3>1, FS_EmptySet
    <3>2. CASE ReadingsOf(o) # {}
      <4>1. PICK k \in ReadingsOf(o) : TRUE
        BY <3>2
      <4>2. ReadingsOf(o) = {k}
        BY <4>1, <2>1
      <4>3. QED BY <4>2, FS_Singleton
    <3>3. QED BY <3>1, <3>2
  <2>3. status[o] = "applied" => ReadingsOf(o) # {}
    BY DEF ReadingsInv, Recorded, ReadingsOf
  <2>4. \A k \in ReadingsOf(o) : readings[k].source = "offline" => status[o] = "applied"
    BY <2>a DEF ReadingsInv, ReadingsOf
  <2>5. QED BY <2>2, <2>3, <2>4
<1>3. QED BY <1>1, <1>2, BaseInit, BaseStep, ReadingsStep, PTL DEF Spec

LEMMA MeterStep == BaseInv /\ MeterRunsForward /\ [Next]_vars => MeterRunsForward'
<1> SUFFICES ASSUME BaseInv, MeterRunsForward, [Next]_vars PROVE MeterRunsForward'
  OBVIOUS
<1>a. MeterSteps /\ TypeOK
  BY MeterStepKinds DEF BaseInv
<1>b. /\ Len(readings) \in Nat /\ DOMAIN readings = 1..Len(readings)
      /\ \A k \in 1..Len(readings) : readings[k].reading \in Nat
  BY <1>a, Typed DEF Reading
<1>1. CASE readings' = readings
  BY <1>1 DEF MeterRunsForward
<1>2. ASSUME NEW o \in Meter \cup {ByWeb}, NEW value \in Nat, NEW source \in {"offline", "web"},
             RecordMeter(o, value, source)
      PROVE  MeterRunsForward'
  <2>1. /\ DOMAIN readings' = 1..(Len(readings) + 1)
        /\ \A k \in 1..Len(readings) : readings'[k] = readings[k]
        /\ readings'[Len(readings) + 1].reading = value
        /\ Len(readings) > 0 => readings[Len(readings)].reading <= value
    BY <1>2, <1>a, RecordStep
  <2> SUFFICES ASSUME NEW k \in 1..(Len(readings) + 1), NEW j \in 1..k
               PROVE  readings'[j].reading <= readings'[k].reading
    BY <2>1 DEF MeterRunsForward
  <2>2. CASE k \in 1..Len(readings)
    <3>1. j \in 1..Len(readings)
      BY <2>2, <1>b
    <3>2. QED BY <2>1, <2>2, <3>1, <1>b DEF MeterRunsForward
  <2>3. CASE k = Len(readings) + 1 /\ j \in 1..Len(readings)
    <3>1. Len(readings) \in 1..Len(readings) /\ j \in 1..Len(readings)
      BY <2>3, <1>b
    <3>2. readings[j].reading <= readings[Len(readings)].reading
      BY <3>1, <1>b DEF MeterRunsForward
    <3>3. readings[Len(readings)].reading <= value
      BY <3>1, <2>1, <1>b
    <3>4. /\ readings[j].reading \in Nat /\ readings[Len(readings)].reading \in Nat
          /\ readings'[j] = readings[j]
      BY <3>1, <1>b, <2>1
    <3>5. QED BY <2>1, <2>3, <3>2, <3>3, <3>4
  <2>4. CASE k = Len(readings) + 1 /\ j = k
    BY <2>1, <2>4
  <2>5. QED BY <2>2, <2>3, <2>4, <1>b
<1>3. QED BY <1>a, <1>1, <1>2 DEF MeterSteps

\* The meter runs forward, whatever is replayed late or out of order.
THEOREM FieldSyncMeterRunsForward == Spec => []MeterRunsForward
<1>1. Init => MeterRunsForward
  BY DEF Init, MeterRunsForward
<1>2. QED BY <1>1, BaseInit, BaseStep, MeterStep, PTL DEF Spec

-----------------------------------------------------------------------------
(* The inspection.                                                         *)

\* What an operation was told about the inspection.
ToldOf(o) ==
  /\ status[o] = "applied" <=> inspection.result = o
  /\ status[o] \in {"conflict", "rejected"} => inspection.result \notin {None, o}
  /\ status[o] = "conflict" <=> o \in conflicts
  /\ status[o] \in {"conflict", "applied"} <=> status[o] # None /\ captured[o] < inspection.version

ToldInv == \A o \in Visit : ToldOf(o)

LEMMA ToldKept ==
  ASSUME NEW o \in Visit, ToldOf(o), BaseInv,
         UNCHANGED inspection, status'[o] = status[o],
         o \in conflicts' <=> o \in conflicts, status[o] # None => captured'[o] = captured[o]
  PROVE  ToldOf(o)'
BY DEF ToldOf

\* A submission was the first one, and nobody had been answered before it.
LEMMA ToldSubmitted ==
  ASSUME NEW o \in Visit, ToldOf(o), BaseInv, StageInv',
         inspection.result = None, inspection'.result \in Visit \cup {ByWeb}, inspection'.result # o,
         UNCHANGED captured, status'[o] = status[o], o \in conflicts' <=> o \in conflicts
  PROVE  ToldOf(o)'
<1>1. o \in Operation /\ o # None
  BY FieldSyncAssumption DEF Operation
<1>2. status[o] \in Outcome \cup {None}
  BY <1>1, Typed DEF BaseInv
<1>3. status[o] = None
  BY <1>1, <1>2 DEF ToldOf, Outcome
<1>4. QED BY <1>3 DEF ToldOf, None

LEMMA ToldStep == BaseInv /\ ToldInv /\ [Next]_vars => ToldInv'
<1> SUFFICES ASSUME BaseInv, BaseInv', ToldInv, [Next]_vars PROVE ToldInv'
  BY BaseStep
<1>a. /\ TypeOK /\ StageInv /\ StageInv' /\ \A o \in Operation : LifeOf(o)
      /\ \A o \in Visit : ToldOf(o)
  BY DEF BaseInv, ToldInv
<1>b. Visit \subseteq Operation /\ Meter \subseteq Operation /\ Meter \cap Visit = {}
      /\ \A o \in Visit : o # None /\ o # ByWeb
  BY FieldSyncAssumption DEF Operation
<1>1. CASE UNCHANGED <<captured, status, conflicts, inspection>>
  BY <1>1, <1>a, ToldKept DEF ToldInv
<1>2. ASSUME NEW o \in Operation, Capture(o) PROVE ToldInv'
  <2>1. /\ UNCHANGED <<status, conflicts, inspection>> /\ captured[o] = 0
        /\ \A p \in Operation \ {o} : captured'[p] = captured[p]
    BY <1>2, <1>a DEF Capture, TypeOK
  <2>2. \A p \in Visit : status[p] # None => captured'[p] = captured[p]
    BY <2>1, <1>a, <1>b DEF LifeOf
  <2>3. QED BY <2>1, <2>2, <1>a, ToldKept DEF ToldInv
<1>3. ASSUME NEW o \in Meter, FinishMeter(o) PROVE ToldInv'
  <2>1. PICK outcome \in Outcome :
          Settle(o, outcome) /\ inspection' = inspection
    BY <1>3, <1>a, FinishMeterKinds DEF Outcome
  <2>2. /\ captured' = captured /\ \A p \in Operation \ {o} : status'[p] = status[p]
        /\ conflicts' = IF outcome = "conflict" THEN conflicts \cup {o} ELSE conflicts
    BY <2>1, <1>a, <1>b, SettleStep
  <2>3. \A p \in Visit : status'[p] = status[p] /\ (p \in conflicts' <=> p \in conflicts)
    BY <2>2, <1>b
  <2>4. QED BY <2>1, <2>2, <2>3, <1>a, ToldKept DEF ToldInv
<1>4. ASSUME NEW o \in Visit, FinishVisit(o) PROVE ToldInv'
  <2>a. o \in syncing /\ o \in Operation /\ status[o] = None /\ captured[o] # 0
        /\ captured[o] <= inspection.version /\ captured[o] \in Nat /\ inspection.version \in Nat
    BY <1>4, <1>a, <1>b, FinishVisitKinds, Typed DEF LifeOf
  <2>b. inspection.result # o /\ o \notin conflicts
    BY <2>a, <1>a DEF ToldOf, None
  <2>c. ASSUME NEW outcome \in Outcome, Settle(o, outcome)
        PROVE  /\ captured' = captured /\ status'[o] = outcome
               /\ \A p \in Visit \ {o} : status'[p] = status[p]
               /\ \A p \in Visit \ {o} : p \in conflicts' <=> p \in conflicts
               /\ o \in conflicts' <=> outcome = "conflict"
    <3>1. /\ captured' = captured /\ status'[o] = outcome
          /\ \A p \in Operation \ {o} : status'[p] = status[p]
          /\ conflicts' = IF outcome = "conflict" THEN conflicts \cup {o} ELSE conflicts
      BY <2>a, <2>c, <1>a, SettleStep
    <3>2. QED BY <3>1, <2>b, <1>b
  <2>1. CASE /\ captured[o] # inspection.version
             /\ Settle(o, "conflict") /\ inspection' = inspection
    <3>1. /\ captured' = captured /\ status'[o] = "conflict" /\ o \in conflicts'
          /\ \A p \in Visit \ {o} : status'[p] = status[p] /\ (p \in conflicts' <=> p \in conflicts)
      BY <2>1, <2>c DEF Outcome
    <3>2. captured[o] < inspection.version /\ inspection.version # 1
      BY <2>1, <2>a
    <3>3. inspection.result # None
      BY <3>2, <1>a DEF StageInv
    <3>4. ToldOf(o)'
      BY <2>1, <2>b, <3>1, <3>2, <3>3 DEF ToldOf, None
    <3>5. \A p \in Visit \ {o} : ToldOf(p)'
      BY <2>1, <3>1, <1>a, ToldKept
    <3>6. QED BY <3>4, <3>5 DEF ToldInv
  <2>2. CASE /\ captured[o] = inspection.version /\ inspection.result # None
             /\ Settle(o, "rejected") /\ inspection' = inspection
    <3>1. /\ captured' = captured /\ status'[o] = "rejected" /\ o \notin conflicts'
          /\ \A p \in Visit \ {o} : status'[p] = status[p] /\ (p \in conflicts' <=> p \in conflicts)
      BY <2>2, <2>c DEF Outcome
    <3>2. ~(captured[o] < inspection.version)
      BY <2>2, <2>a
    <3>3. ToldOf(o)'
      BY <2>2, <2>b, <3>1, <3>2 DEF ToldOf, None
    <3>4. \A p \in Visit \ {o} : ToldOf(p)'
      BY <2>2, <3>1, <1>a, ToldKept
    <3>5. QED BY <3>3, <3>4 DEF ToldInv
  <2>3. CASE captured[o] = 1 /\ SubmitInspection(o, captured[o]) /\ Settle(o, "applied")
    <3>1. /\ captured' = captured /\ status'[o] = "applied" /\ o \notin conflicts'
          /\ \A p \in Visit \ {o} : status'[p] = status[p] /\ (p \in conflicts' <=> p \in conflicts)
      BY <2>3, <2>c DEF Outcome
    <3>2. inspection.result = None /\ inspection'.result = o /\ inspection'.version = 2
      BY <2>3, <1>a, SubmitStep
    <3>3. ToldOf(o)'
      BY <2>3, <3>1, <3>2, <1>b DEF ToldOf, None
    <3>4. \A p \in Visit \ {o} : ToldOf(p)'
      BY <3>1, <3>2, <1>a, ToldSubmitted
    <3>5. QED BY <3>3, <3>4 DEF ToldInv
  <2>4. QED BY <1>4, <2>1, <2>2, <2>3, FinishVisitKinds
<1>5. ASSUME NEW expected, WebSubmit(expected) PROVE ToldInv'
  <2>1. UNCHANGED <<captured, status, conflicts>> /\ SubmitInspection(ByWeb, expected)
    BY <1>5 DEF WebSubmit, rowVars
  <2>2. inspection.result = None /\ inspection'.result = ByWeb
    BY <2>1, <1>a, SubmitStep
  <2>3. QED BY <2>1, <2>2, <1>a, <1>b, ToldSubmitted DEF ToldInv
<1>6. QED
  BY <1>1, <1>2, <1>3, <1>4, <1>5
  DEF Next, vars, rowVars, BeginSync, RollbackSync, BeginCall, FinishCall, WebMeter

\* Of all submissions, replayed or by the web, one wins, and every device that
\* captured the inspection before it is told that it lost, with a conflict row.
THEOREM FieldSyncFirstSubmissionWins == Spec => []FirstSubmissionWins
<1>1. Init => ToldInv
  <2> SUFFICES ASSUME Init, NEW o \in Visit PROVE ToldOf(o)
    BY DEF ToldInv
  <2>1. o \in Operation /\ o # None
    BY FieldSyncAssumption DEF Operation
  <2>2. QED BY <2>1 DEF Init, ToldOf, None
<1>2. ToldInv => FirstSubmissionWins
  BY DEF ToldInv, ToldOf, FirstSubmissionWins
<1>3. QED BY <1>1, <1>2, BaseInit, BaseStep, ToldStep, PTL DEF Spec

-----------------------------------------------------------------------------
(* Checkpoints.                                                            *)

CheckpointOf(d) ==
  IF checkpoint[d] = 0
  THEN \A o \in Operation : DeviceOf[o] = d => status[o] = None
  ELSE \E o \in Operation : DeviceOf[o] = d /\ number[o] = checkpoint[d] /\ status[o] # None

\* A number that a checkpoint names is neither taken again nor given back.
LEMMA CheckpointKept ==
  ASSUME NEW d \in Device, CheckpointOf(d), checkpoint'[d] = checkpoint[d],
         \A o \in Operation : DeviceOf[o] = d => status'[o] = status[o],
         \A o \in Operation : status[o] # None => number'[o] = number[o]
  PROVE  CheckpointOf(d)'
BY DEF CheckpointOf

LEMMA CheckpointStep == BaseInv /\ CheckpointWasAnswered /\ [Next]_vars => CheckpointWasAnswered'
<1> SUFFICES ASSUME BaseInv, CheckpointWasAnswered, [Next]_vars PROVE CheckpointWasAnswered'
  OBVIOUS
<1>a. /\ TypeOK /\ \A o \in Operation : LifeOf(o)
      /\ \A d \in Device : CheckpointOf(d)
      /\ number \in [Operation -> Nat]
  BY Typed DEF BaseInv, CheckpointWasAnswered, CheckpointOf
<1>b. SUFFICES \A d \in Device : CheckpointOf(d)'
  BY DEF CheckpointWasAnswered, CheckpointOf
<1>1. CASE UNCHANGED <<status, number, checkpoint>>
  BY <1>1, <1>a, CheckpointKept
<1>2. ASSUME NEW o \in Operation, BeginSync(o) \/ RollbackSync(o)
      PROVE  \A d \in Device : CheckpointOf(d)'
  <2>1. /\ UNCHANGED <<status, checkpoint>> /\ status[o] = None
        /\ \A p \in Operation \ {o} : number'[p] = number[p]
    BY <1>2, <1>a DEF BeginSync, RollbackSync, LifeOf
  <2>2. \A p \in Operation : status[p] # None => number'[p] = number[p]
    BY <2>1
  <2>3. QED BY <2>1, <2>2, <1>a, CheckpointKept
<1>3. ASSUME NEW o \in Operation, o \in syncing, NEW outcome \in Outcome, Settle(o, outcome)
      PROVE  \A d \in Device : CheckpointOf(d)'
  <2>1. /\ number' = number /\ status'[o] = outcome /\ outcome # None
        /\ \A p \in Operation \ {o} : status'[p] = status[p]
        /\ checkpoint'[DeviceOf[o]] = number[o]
        /\ \A d \in Device \ {DeviceOf[o]} : checkpoint'[d] = checkpoint[d]
    BY <1>3, <1>a, SettleStep DEF Outcome, None
  <2>2. number[o] # 0
    BY <1>3, <1>a DEF LifeOf
  <2>3. CheckpointOf(DeviceOf[o])'
    BY <2>1, <2>2 DEF CheckpointOf
  <2>4. ASSUME NEW d \in Device \ {DeviceOf[o]} PROVE CheckpointOf(d)'
    <3>1. \A p \in Operation : DeviceOf[p] = d => status'[p] = status[p]
      BY <2>1
    <3>2. \A p \in Operation : status[p] # None => number'[p] = number[p]
      BY <2>1
    <3>3. CheckpointOf(d) /\ checkpoint'[d] = checkpoint[d]
      BY <2>1, <1>a
    <3>4. QED BY <3>1, <3>2, <3>3, CheckpointKept
  <2>5. QED BY <2>3, <2>4
<1>4. ASSUME NEW o \in Meter, FinishMeter(o) PROVE \A d \in Device : CheckpointOf(d)'
  <2>1. o \in Operation /\ o \in syncing /\ \E outcome \in Outcome : Settle(o, outcome)
    BY <1>4, <1>a, FinishMeterKinds DEF Operation, Outcome
  <2>2. QED BY <2>1, <1>3
<1>5. ASSUME NEW o \in Visit, FinishVisit(o) PROVE \A d \in Device : CheckpointOf(d)'
  <2>1. o \in Operation /\ o \in syncing /\ \E outcome \in Outcome : Settle(o, outcome)
    BY <1>5, FinishVisitKinds DEF Operation, Outcome
  <2>2. QED BY <2>1, <1>3
<1>6. QED
  BY <1>1, <1>2, <1>4, <1>5
  DEF Next, vars, rowVars, Capture, BeginCall, FinishCall, WebMeter, WebSubmit

\* The checkpoint a device is given always names one of its own operations
\* that was answered, although numbers are taken in one order and committed in
\* another, and rolled back numbers are never seen again.
THEOREM FieldSyncCheckpointWasAnswered == Spec => []CheckpointWasAnswered
<1>1. Init => CheckpointWasAnswered
  BY DEF Init, CheckpointWasAnswered
<1>2. QED BY <1>1, BaseInit, BaseStep, CheckpointStep, PTL DEF Spec

-----------------------------------------------------------------------------
(* Going live.                                                             *)

BatchLive(b) == In(batch, b, {"APPROVED", "IMPORTED"}) => Approved(batch, b) /\ batch[b].invalid = 0

WaveLive(w) ==
  /\ In(wave, w, {"APPROVED", "LIVE", "HYPERCARE", "CLOSED", "ROLLED_BACK"}) => Approved(wave, w)
  /\ In(wave, w, {"LIVE", "HYPERCARE", "CLOSED"}) => In(plan, PlanOf[w], {"EXECUTING"})

\* A transition of a wave holds it, so that its stage still leads where it leads.
WaveTxOK(t) ==
  /\ t.row \in Wave /\ t.by \in Actor /\ t.row \in t.locks
  /\ t.to \in Offers(WaveStages, wave, t.row)
  /\ t.to = "APPROVED" => wave[t.row].by # t.by

LiveInv ==
  /\ GoLiveTypeOK
  /\ \A b \in Batch : BatchLive(b)
  /\ \A w \in Wave : WaveLive(w)
  /\ \A t \in waveTx : WaveTxOK(t)
  /\ \A t, u \in waveTx : t.row = u.row => t = u

LEMMA LiveInit == GoLiveInit => LiveInv
<1> SUFFICES ASSUME GoLiveInit PROVE LiveInv
  OBVIOUS
<1>1. GoLiveTypeOK
  BY DEF GoLiveInit, GoLiveTypeOK, GateStatus, Absent
<1>2. QED BY <1>1 DEF GoLiveInit, LiveInv, BatchLive, WaveLive, WaveTxOK, In, Absent

\* What neither waves nor batches read.
LEMMA LiveKept ==
  ASSUME LiveInv, GoLiveTypeOK', UNCHANGED <<batch, wave, waveTx>>,
         \A p \in Plan : In(plan, p, {"EXECUTING"}) => In(plan, p, {"EXECUTING"})',
         GoLiveAssumption
  PROVE  LiveInv'
<1>1. \A w \in Wave : PlanOf[w] \in Plan
  BY DEF GoLiveAssumption
<1>2. \A w \in Wave : WaveLive(w)'
  BY <1>1 DEF LiveInv, WaveLive, Approved, In
<1>3. QED BY <1>2 DEF LiveInv, BatchLive, WaveTxOK, Approved, In

LEMMA BatchMoved ==
  ASSUME LiveInv, NEW b \in Batch, NEW row \in BatchRow, batch' = [batch EXCEPT ![b] = row],
         row.status \in {"APPROVED", "IMPORTED"} => row.approver \notin {Nobody, row.by} /\ row.invalid = 0,
         UNCHANGED <<issue, enrollment, plan, task, wave, hypercare, goLiveGate, waveTx>>
  PROVE  LiveInv'
<1>1. batch \in [Batch -> BatchRow \cup {Absent}]
  BY DEF LiveInv, GoLiveTypeOK
<1>2. /\ batch' \in [Batch -> BatchRow \cup {Absent}]
      /\ batch'[b] = row /\ \A c \in Batch : c # b => batch'[c] = batch[c]
  BY <1>1
<1>3. GoLiveTypeOK'
  BY <1>2 DEF LiveInv, GoLiveTypeOK
<1>4. ASSUME NEW c \in Batch PROVE BatchLive(c)'
  BY <1>2 DEF LiveInv, BatchLive, Approved, In
<1>5. QED BY <1>3, <1>4 DEF LiveInv, WaveLive, WaveTxOK, Approved, In

LEMMA BatchCreated ==
  ASSUME GoLiveAssumption, LiveInv, NEW b \in Batch, NEW a \in Actor, CreateMigrationBatch(b, a)
  PROVE  LiveInv'
<1> DEFINE row == [status |-> "DRAFT", total |-> 0, invalid |-> 0, by |-> a, approver |-> Nobody]
<1>1. row \in BatchRow /\ row.status = "DRAFT"
  BY DEF BatchRow, GoLiveAssumption, MigrationStages
<1>2. /\ batch' = [batch EXCEPT ![b] = row]
      /\ UNCHANGED <<issue, enrollment, plan, task, wave, hypercare, goLiveGate, waveTx>>
  BY DEF CreateMigrationBatch
<1> HIDE DEF row
<1>3. QED BY <1>1, <1>2, BatchMoved

LEMMA BatchTransitioned ==
  ASSUME GoLiveAssumption, LiveInv, NEW b \in Batch, NEW a \in Actor, TransitionMigrationBatch(b, a)
  PROVE  LiveInv'
<1>1. PICK target \in Offers(MigrationStages, batch, b), total \in Counts, invalid \in Counts :
       /\ invalid <= total /\ Clean(b, target, invalid)
       /\ target = "APPROVED" => batch[b].by # a
       /\ batch' = [batch EXCEPT ![b].status = target, ![b].total = total, ![b].invalid = invalid,
                      ![b].approver = IF target = "APPROVED" THEN a ELSE @]
  BY DEF TransitionMigrationBatch
<1> DEFINE row == [batch[b] EXCEPT !.status = target, !.total = total, !.invalid = invalid,
                     !.approver = IF target = "APPROVED" THEN a ELSE @]
<1>2. batch \in [Batch -> BatchRow \cup {Absent}]
  BY DEF LiveInv, GoLiveTypeOK
<1>3. batch[b].status \in DOMAIN MigrationStages /\ target \in MigrationStages[batch[b].status]
  BY <1>1 DEF Offers
<1>4. batch[b] \in BatchRow
  BY <1>2, <1>3 DEF MigrationStages, Absent
<1>5. target \in DOMAIN MigrationStages /\ (target = "IMPORTED" => batch[b].status = "APPROVED")
  BY <1>3 DEF MigrationStages
<1>6. row \in BatchRow
  BY <1>4, <1>5 DEF BatchRow
<1>7. /\ row.status = target /\ row.invalid = invalid /\ row.by = batch[b].by
      /\ row.approver = IF target = "APPROVED" THEN a ELSE batch[b].approver
  BY <1>4 DEF BatchRow
<1>8. batch' = [batch EXCEPT ![b] = row]
  BY <1>1, <1>2
<1>9. BatchLive(b)
  BY DEF LiveInv
<1> HIDE DEF row
<1>10. row.status \in {"APPROVED", "IMPORTED"} => row.approver \notin {Nobody, row.by} /\ row.invalid = 0
  BY <1>1, <1>5, <1>7, <1>9 DEF BatchLive, Approved, In, Clean, GoLiveAssumption
<1>11. UNCHANGED <<issue, enrollment, plan, task, wave, hypercare, goLiveGate, waveTx>>
  BY DEF TransitionMigrationBatch
<1>12. QED BY <1>6, <1>8, <1>10, <1>11, BatchMoved

\* Issues, training, plans, tasks, gates and hypercare.
LEMMA CutoverTyped ==
  ASSUME LiveInv, NEW i, NEW e, NEW p, NEW t, NEW g, NEW h,
         \/ i \in Issue /\ (CreateMigrationIssue(i) \/ ResolveMigrationIssue(i))
         \/ e \in Enrollment /\ (CreateTrainingEnrollment(e) \/ TransitionTrainingEnrollment(e))
         \/ p \in Plan /\ CreateCutoverPlan(p)
         \/ t \in Task /\ (CreateCutoverTask(t) \/ TransitionCutoverTask(t))
         \/ g \in GoLiveGate /\ GoLiveDecideGate(g)
         \/ h \in Hypercare /\ (CreateHypercareIssue(h) \/ TransitionHypercareIssue(h))
  PROVE  GoLiveTypeOK' /\ UNCHANGED <<batch, wave, waveTx>>
<1>0. GoLiveTypeOK
  BY DEF LiveInv
<1>1. CASE i \in Issue /\ CreateMigrationIssue(i)
  BY <1>0, <1>1 DEF GoLiveTypeOK, CreateMigrationIssue, IssueRow
<1>2. CASE i \in Issue /\ ResolveMigrationIssue(i)
  <2>1. issue[i] \in IssueRow
    BY <1>0, <1>2 DEF GoLiveTypeOK, ResolveMigrationIssue, Has, Absent
  <2>2. [issue[i] EXCEPT !.status = "RESOLVED"] \in IssueRow
    BY <2>1 DEF IssueRow
  <2>3. issue' \in [Issue -> IssueRow \cup {Absent}]
    BY <1>0, <1>2, <2>2 DEF GoLiveTypeOK, ResolveMigrationIssue, Moved
  <2>4. QED BY <1>0, <1>2, <2>3 DEF GoLiveTypeOK, ResolveMigrationIssue
<1>3. CASE e \in Enrollment /\ CreateTrainingEnrollment(e)
  BY <1>0, <1>3 DEF GoLiveTypeOK, CreateTrainingEnrollment, EnrollmentRow, GoLiveTrainingStatus
<1>4. CASE e \in Enrollment /\ TransitionTrainingEnrollment(e)
  <2>1. enrollment' \in [Enrollment -> EnrollmentRow \cup {Absent}]
    BY <1>0, <1>4 DEF GoLiveTypeOK, TransitionTrainingEnrollment, EnrollmentRow
  <2>2. QED BY <1>0, <1>4, <2>1 DEF GoLiveTypeOK, TransitionTrainingEnrollment
<1>5. CASE p \in Plan /\ CreateCutoverPlan(p)
  BY <1>0, <1>5 DEF GoLiveTypeOK, CreateCutoverPlan, PlanRow
<1>6. CASE t \in Task /\ CreateCutoverTask(t)
  BY <1>0, <1>6 DEF GoLiveTypeOK, CreateCutoverTask, TaskRow, TaskStatus
<1>7. CASE t \in Task /\ TransitionCutoverTask(t)
  <2>1. PICK to \in TaskStatus : task' = [task EXCEPT ![t].status = to]
    BY <1>7 DEF TransitionCutoverTask, Moved
  <2>2. task[t] \in TaskRow
    BY <1>0, <1>7 DEF GoLiveTypeOK, TransitionCutoverTask, Has, Absent
  <2>3. [task[t] EXCEPT !.status = to] \in TaskRow
    BY <2>2 DEF TaskRow
  <2>4. task' \in [Task -> TaskRow \cup {Absent}]
    BY <1>0, <1>7, <2>1, <2>3 DEF GoLiveTypeOK
  <2>5. QED BY <1>0, <1>7, <2>4 DEF GoLiveTypeOK, TransitionCutoverTask
<1>8. CASE g \in GoLiveGate /\ GoLiveDecideGate(g)
  <2>1. goLiveGate' \in [GoLiveGate -> GateStatus]
    BY <1>0, <1>8 DEF GoLiveTypeOK, GoLiveDecideGate
  <2>2. QED BY <1>0, <1>8, <2>1 DEF GoLiveTypeOK, GoLiveDecideGate
<1>9. CASE h \in Hypercare /\ CreateHypercareIssue(h)
  BY <1>0, <1>9 DEF GoLiveTypeOK, CreateHypercareIssue, HypercareRow, HypercareStages
<1>10. CASE h \in Hypercare /\ TransitionHypercareIssue(h)
  <2>1. PICK target \in Offers(HypercareStages, hypercare, h), given \in BOOLEAN :
          hypercare' = [hypercare EXCEPT ![h].status = target, ![h].summary = @ \/ given]
    BY <1>10 DEF TransitionHypercareIssue
  <2>2. hypercare[h].status \in DOMAIN HypercareStages /\ target \in DOMAIN HypercareStages
    BY <2>1 DEF Offers, HypercareStages
  <2>3. hypercare[h] \in HypercareRow
    BY <1>0, <1>10, <2>2 DEF GoLiveTypeOK, Absent, HypercareStages
  <2>4. hypercare[h].summary \in BOOLEAN /\ (hypercare[h].summary \/ given) \in BOOLEAN
    BY <2>3 DEF HypercareRow
  <2>5. [hypercare[h] EXCEPT !.status = target, !.summary = @ \/ given] \in HypercareRow
    BY <2>2, <2>3, <2>4 DEF HypercareRow
  <2>6. hypercare' \in [Hypercare -> HypercareRow \cup {Absent}]
    BY <1>0, <1>10, <2>1, <2>5 DEF GoLiveTypeOK
  <2>7. QED BY <1>0, <1>10, <2>6 DEF GoLiveTypeOK, TransitionHypercareIssue
<1>11. QED BY <1>1, <1>2, <1>3, <1>4, <1>5, <1>6, <1>7, <1>8, <1>9, <1>10

\* A plan that executes goes on.
LEMMA PlansGoOn ==
  ASSUME LiveInv, NEW p \in Plan, CreateCutoverPlan(p)
  PROVE  \A q \in Plan : In(plan, q, {"EXECUTING"}) => In(plan, q, {"EXECUTING"})'
<1>1. plan \in [Plan -> PlanRow \cup {Absent}]
  BY DEF LiveInv, GoLiveTypeOK
<1>2. QED BY <1>1 DEF CreateCutoverPlan, Has, In

LEMMA WaveCreated ==
  ASSUME LiveInv, NEW w \in Wave, NEW a \in Actor, CreateGoLiveWave(w, a)
  PROVE  LiveInv'
<1> DEFINE row == [status |-> "DRAFT", by |-> a, approver |-> Nobody]
<1>1. row \in WaveRow /\ row.status = "DRAFT"
  BY DEF WaveRow, WaveStages
<1>2. /\ wave' = [wave EXCEPT ![w] = row] /\ ~Has(wave, w)
      /\ UNCHANGED <<batch, issue, enrollment, plan, task, hypercare, goLiveGate, waveTx>>
  BY DEF CreateGoLiveWave
<1> HIDE DEF row
<1>3. wave \in [Wave -> WaveRow \cup {Absent}]
  BY DEF LiveInv, GoLiveTypeOK
<1>4. /\ wave' \in [Wave -> WaveRow \cup {Absent}]
      /\ wave'[w] = row /\ \A v \in Wave : v # w => wave'[v] = wave[v]
  BY <1>1, <1>2, <1>3
<1>5. GoLiveTypeOK'
  BY <1>2, <1>4 DEF LiveInv, GoLiveTypeOK
<1>6. ASSUME NEW v \in Wave PROVE WaveLive(v)'
  BY <1>1, <1>2, <1>4 DEF LiveInv, WaveLive, Approved, In
<1>7. ASSUME NEW t \in waveTx PROVE WaveTxOK(t)'
  <2>1. t.row # w
    BY <1>2 DEF LiveInv, WaveTxOK, Offers, WaveStages, Has
  <2>2. QED BY <1>4, <2>1 DEF LiveInv, WaveTxOK, Offers
<1>8. QED BY <1>2, <1>5, <1>6, <1>7 DEF LiveInv, BatchLive, Approved, In

LEMMA WaveChecked ==
  ASSUME LiveInv, NEW w \in Wave, NEW a \in Actor, CheckWave(w, a)
  PROVE  LiveInv'
<1>1. PICK target \in Offers(WaveStages, wave, w) :
       /\ target = "APPROVED" => MayApprove(w, a)
       /\ waveTx' = waveTx \cup {[row |-> w, to |-> target, by |-> a, locks |-> {w}]}
  BY DEF CheckWave
<1> DEFINE new == [row |-> w, to |-> target, by |-> a, locks |-> {w}]
<1>2. UNCHANGED <<batch, issue, enrollment, plan, task, wave, hypercare, goLiveGate>>
  BY DEF CheckWave
<1>3. WaveTxOK(new) /\ new.row = w
  BY <1>1 DEF WaveTxOK, MayApprove
<1>4. \A t \in waveTx : t.row # w
  BY DEF LiveInv, WaveTxOK, CheckWave, Unlocked
<1>5. waveTx' = waveTx \cup {new}
  BY <1>1
<1> HIDE DEF new
<1>6. \A t \in waveTx' : WaveTxOK(t)'
  BY <1>2, <1>3, <1>5 DEF LiveInv, WaveTxOK, Offers
<1>7. \A t, u \in waveTx' : t.row = u.row => t = u
  BY <1>3, <1>4, <1>5 DEF LiveInv
<1>8. QED BY <1>2, <1>6, <1>7 DEF LiveInv, GoLiveTypeOK, BatchLive, WaveLive, Approved, In

LEMMA WaveCommitted ==
  ASSUME GoLiveAssumption, LiveInv, NEW t \in waveTx, CommitWave(t)
  PROVE  LiveInv'
<1> DEFINE w == t.row
<1> DEFINE row == [wave[w] EXCEPT !.status = t.to, !.approver = IF t.to = "APPROVED" THEN t.by ELSE @]
<1>1. /\ w \in Wave /\ t.by \in Actor /\ t.to \in Offers(WaveStages, wave, w)
      /\ t.to = "APPROVED" => wave[w].by # t.by
  BY DEF LiveInv, WaveTxOK
<1>2. wave \in [Wave -> WaveRow \cup {Absent}] /\ plan \in [Plan -> PlanRow \cup {Absent}] /\ PlanOf[w] \in Plan
  BY <1>1 DEF LiveInv, GoLiveTypeOK, GoLiveAssumption
<1>3. wave[w].status \in DOMAIN WaveStages /\ t.to \in WaveStages[wave[w].status]
  BY <1>1 DEF Offers
<1>4. wave[w] \in WaveRow
  BY <1>1, <1>2, <1>3 DEF WaveStages, Absent
<1>5. /\ t.to \in DOMAIN WaveStages
      /\ t.to \in {"LIVE", "HYPERCARE", "CLOSED", "ROLLED_BACK"} =>
           wave[w].status \in {"APPROVED", "LIVE", "HYPERCARE"}
      /\ t.to \in {"HYPERCARE", "CLOSED"} => wave[w].status \in {"LIVE", "HYPERCARE"}
  BY <1>3 DEF WaveStages
<1>6. row \in WaveRow
  BY <1>1, <1>4, <1>5 DEF WaveRow
<1>7. /\ row.status = t.to /\ row.by = wave[w].by
      /\ row.approver = IF t.to = "APPROVED" THEN t.by ELSE wave[w].approver
  BY <1>4 DEF WaveRow
<1>8. wave' = [wave EXCEPT ![w] = row]
  BY <1>2 DEF CommitWave
<1> HIDE DEF row
<1>9. /\ wave' \in [Wave -> WaveRow \cup {Absent}]
      /\ wave'[w] = row /\ \A v \in Wave : v # w => wave'[v] = wave[v]
  BY <1>1, <1>2, <1>6, <1>8
<1>10. /\ plan' \in [Plan -> PlanRow \cup {Absent}]
       /\ t.to = "LIVE" => plan'[PlanOf[w]].status = "EXECUTING"
       /\ \A p \in Plan : plan[p].status = "EXECUTING" => plan'[p].status = "EXECUTING"
  <2>1. CASE t.to = "LIVE"
    <3> DEFINE new == [plan[PlanOf[w]] EXCEPT !.status = "EXECUTING"]
    <3>1. plan' = [plan EXCEPT ![PlanOf[w]] = new]
      BY <1>2, <2>1 DEF CommitWave, Moved
    <3>2. new \in PlanRow /\ new.status = "EXECUTING"
      <4>1. CASE plan[PlanOf[w]] \in PlanRow
        BY <4>1 DEF PlanRow
      <4>2. CASE plan[PlanOf[w]] = Absent
        BY <4>2 DEF PlanRow, Absent
      <4>3. QED BY <1>2, <4>1, <4>2
    <3> HIDE DEF new
    <3>3. QED BY <1>2, <3>1, <3>2
  <2>2. CASE t.to # "LIVE"
    BY <1>2, <2>2 DEF CommitWave
  <2>3. QED BY <2>1, <2>2
<1>11. UNCHANGED <<batch, issue, enrollment, task, hypercare, goLiveGate>> /\ waveTx' = waveTx \ {t}
  BY DEF CommitWave
<1>12. GoLiveTypeOK'
  BY <1>9, <1>10, <1>11 DEF LiveInv, GoLiveTypeOK
<1>13. WaveLive(w) /\ \A v \in Wave : PlanOf[v] \in Plan
  BY <1>1 DEF LiveInv, GoLiveAssumption
<1>14. /\ row.status \in {"APPROVED", "LIVE", "HYPERCARE", "CLOSED", "ROLLED_BACK"} => row.approver \notin {Nobody, row.by}
       /\ row.status \in {"LIVE", "HYPERCARE", "CLOSED"} => plan'[PlanOf[w]].status = "EXECUTING"
  BY <1>1, <1>2, <1>5, <1>7, <1>10, <1>13 DEF WaveLive, Approved, In, GoLiveAssumption
<1>15. ASSUME NEW v \in Wave PROVE WaveLive(v)'
  <2>1. CASE v = w
    BY <1>9, <1>14, <2>1 DEF WaveLive, Approved, In
  <2>2. CASE v # w
    BY <1>9, <1>10, <1>13, <2>2 DEF LiveInv, WaveLive, Approved, In
  <2>3. QED BY <2>1, <2>2
<1>16. ASSUME NEW u \in waveTx' PROVE WaveTxOK(u)'
  <2>1. u \in waveTx /\ u.row # w
    BY <1>11 DEF LiveInv
  <2>2. QED BY <1>9, <2>1 DEF LiveInv, WaveTxOK, Offers
<1>17. QED BY <1>11, <1>12, <1>15, <1>16 DEF LiveInv, BatchLive, Approved, In

LEMMA LiveStep ==
  ASSUME GoLiveAssumption, LiveInv, [GoLiveNext]_goLiveVars
  PROVE  LiveInv'
<1>1. CASE GoLiveNext
  <2>1. ASSUME NEW b \in Batch, NEW a \in Actor, CreateMigrationBatch(b, a) \/ TransitionMigrationBatch(b, a)
        PROVE  LiveInv'
    BY <2>1, BatchCreated, BatchTransitioned
  <2>2. ASSUME NEW w \in Wave, NEW a \in Actor, CreateGoLiveWave(w, a) \/ CheckWave(w, a)
        PROVE  LiveInv'
    BY <2>2, WaveCreated, WaveChecked
  <2>3. ASSUME NEW t \in waveTx, CommitWave(t) PROVE LiveInv'
    BY <2>3, WaveCommitted
  <2>4. ASSUME NEW p \in Plan, CreateCutoverPlan(p) PROVE LiveInv'
    BY <2>4, CutoverTyped, PlansGoOn, LiveKept
  <2>5. ASSUME NEW i \in Issue, CreateMigrationIssue(i) \/ ResolveMigrationIssue(i) PROVE LiveInv'
    <3>1. GoLiveTypeOK' /\ UNCHANGED <<batch, wave, waveTx>>
      BY <2>5, CutoverTyped
    <3>2. UNCHANGED plan
      BY <2>5 DEF CreateMigrationIssue, ResolveMigrationIssue
    <3>3. QED BY <3>1, <3>2, LiveKept DEF In
  <2>6. ASSUME NEW e \in Enrollment, CreateTrainingEnrollment(e) \/ TransitionTrainingEnrollment(e) PROVE LiveInv'
    <3>1. GoLiveTypeOK' /\ UNCHANGED <<batch, wave, waveTx>>
      BY <2>6, CutoverTyped
    <3>2. UNCHANGED plan
      BY <2>6 DEF CreateTrainingEnrollment, TransitionTrainingEnrollment
    <3>3. QED BY <3>1, <3>2, LiveKept DEF In
  <2>7. ASSUME NEW t \in Task, CreateCutoverTask(t) \/ TransitionCutoverTask(t) PROVE LiveInv'
    <3>1. GoLiveTypeOK' /\ UNCHANGED <<batch, wave, waveTx>>
      BY <2>7, CutoverTyped
    <3>2. UNCHANGED plan
      BY <2>7 DEF CreateCutoverTask, TransitionCutoverTask
    <3>3. QED BY <3>1, <3>2, LiveKept DEF In
  <2>8. ASSUME NEW g \in GoLiveGate, GoLiveDecideGate(g) PROVE LiveInv'
    <3>1. GoLiveTypeOK' /\ UNCHANGED <<batch, wave, waveTx>>
      BY <2>8, CutoverTyped
    <3>2. UNCHANGED plan
      BY <2>8 DEF GoLiveDecideGate
    <3>3. QED BY <3>1, <3>2, LiveKept DEF In
  <2>9. ASSUME NEW h \in Hypercare, CreateHypercareIssue(h) \/ TransitionHypercareIssue(h) PROVE LiveInv'
    <3>1. GoLiveTypeOK' /\ UNCHANGED <<batch, wave, waveTx>>
      BY <2>9, CutoverTyped
    <3>2. UNCHANGED plan
      BY <2>9 DEF CreateHypercareIssue, TransitionHypercareIssue
    <3>3. QED BY <3>1, <3>2, LiveKept DEF In
  <2>10. QED BY <1>1, <2>1, <2>2, <2>3, <2>4, <2>5, <2>6, <2>7, <2>8, <2>9 DEF GoLiveNext
<1>2. CASE UNCHANGED goLiveVars
  BY <1>2 DEF goLiveVars, LiveInv, GoLiveTypeOK, BatchLive, WaveLive, WaveTxOK, Approved, In, Offers
<1>3. QED BY <1>1, <1>2

LEMMA LiveInvariance == ASSUME GoLiveAssumption PROVE GoLiveSpec => []LiveInv
<1>1. QED BY LiveInit, LiveStep, PTL DEF GoLiveSpec

\* What is live was approved by another than its maker, and its plan executes,
\* although a transition of a wave locks neither gates nor tasks nor the plan.
THEOREM GoLiveWasApproved ==
  ASSUME GoLiveAssumption
  PROVE  GoLiveSpec => []WhatIsLiveWasApproved
<1>1. LiveInv => WhatIsLiveWasApproved
  BY DEF LiveInv, BatchLive, WaveLive, WhatIsLiveWasApproved
<1>2. QED BY <1>1, LiveInvariance, PTL

-----------------------------------------------------------------------------
(* Releases.                                                               *)

ReleaseReady(r) ==
  In(release, r, {"APPROVED", "PUBLISHED"}) =>
    release[r].approver \notin {Nobody, release[r].by} /\ r \in ready /\ r \in backup

ReadyInv ==
  /\ ReleaseTypeOK
  /\ \A t \in gateTx : t.row \in Candidate /\ t.gate \in ReleaseGate
  /\ \A r \in Candidate : ReleaseReady(r)
  /\ ready # {} => releaseTarget = "ACTIVE"

LEMMA ReadyInit == ReleaseInit => ReadyInv
BY DEF ReleaseInit, ReadyInv, ReleaseTypeOK, ReleaseReady, In, GateStatus, Absent

\* A release is made or moves.
LEMMA ReleaseMoved ==
  ASSUME ReadyInv, NEW r \in Candidate, NEW row \in CandidateRow, release' = [release EXCEPT ![r] = row],
         row.status \in {"APPROVED", "PUBLISHED"} =>
           row.approver \notin {Nobody, row.by} /\ r \in ready /\ r \in backup,
         UNCHANGED <<releaseTarget, decided, backup, ready, gateTx>>
  PROVE  ReadyInv'
<1>1. release \in [Candidate -> CandidateRow \cup {Absent}]
  BY DEF ReadyInv, ReleaseTypeOK
<1>2. /\ release' \in [Candidate -> CandidateRow \cup {Absent}]
      /\ release'[r] = row /\ \A q \in Candidate : q # r => release'[q] = release[q]
  BY <1>1
<1>3. ReleaseTypeOK'
  BY <1>2 DEF ReadyInv, ReleaseTypeOK
<1>4. ASSUME NEW q \in Candidate PROVE ReleaseReady(q)'
  BY <1>2 DEF ReadyInv, ReleaseReady, In
<1>5. QED BY <1>3, <1>4 DEF ReadyInv

LEMMA ReleaseApproved ==
  ASSUME ReleaseAssumption, ReadyInv, NEW r \in Candidate, NEW a \in Actor, ApproveRelease(r, a)
  PROVE  ReadyInv'
<1> DEFINE row == [release[r] EXCEPT !.status = "APPROVED", !.approver = a]
<1>1. release \in [Candidate -> CandidateRow \cup {Absent}]
  BY DEF ReadyInv, ReleaseTypeOK
<1>2. release[r] \in CandidateRow
  BY <1>1 DEF ApproveRelease, In, Absent
<1>3. row \in CandidateRow /\ row.approver = a /\ row.by = release[r].by
  BY <1>2 DEF CandidateRow
<1>4. /\ release' = [release EXCEPT ![r] = row]
      /\ release[r].by # a /\ r \in ready /\ r \in backup
      /\ UNCHANGED <<releaseTarget, decided, backup, ready, gateTx>>
  BY <1>1 DEF ApproveRelease, Validate
<1> HIDE DEF row
<1>5. QED BY <1>3, <1>4, ReleaseMoved DEF ReleaseAssumption

LEMMA ReleasePublished ==
  ASSUME ReadyInv, NEW r \in Candidate, PublishRelease(r)
  PROVE  ReadyInv'
<1> DEFINE row == [release[r] EXCEPT !.status = "PUBLISHED"]
<1>1. release \in [Candidate -> CandidateRow \cup {Absent}] /\ ReleaseReady(r)
  BY DEF ReadyInv, ReleaseTypeOK
<1>2. release[r] \in CandidateRow
  BY <1>1 DEF PublishRelease, In, Absent
<1>3. row \in CandidateRow /\ row.approver = release[r].approver /\ row.by = release[r].by
  BY <1>2 DEF CandidateRow
<1>4. release' = [release EXCEPT ![r] = row] /\ UNCHANGED <<releaseTarget, decided, backup, ready, gateTx>>
  BY DEF PublishRelease, Moved
<1>5. release[r].approver \notin {Nobody, release[r].by} /\ r \in ready /\ r \in backup
  BY <1>1 DEF PublishRelease, ReleaseReady, In
<1> HIDE DEF row
<1>6. QED BY <1>3, <1>4, <1>5, ReleaseMoved

LEMMA ReadyStep ==
  ASSUME ReleaseAssumption, ReadyInv, [ReleaseNext]_releaseVars
  PROVE  ReadyInv'
<1>1. CASE CreateTarget
  BY <1>1 DEF CreateTarget, ReadyInv, ReleaseTypeOK, ReleaseReady, In
<1>2. ASSUME NEW r \in Candidate, NEW a \in Actor, CreateRelease(r, a) PROVE ReadyInv'
  <2> DEFINE row == [status |-> "DRAFT", by |-> a, approver |-> Nobody]
  <2>1. row \in CandidateRow /\ row.status = "DRAFT"
    BY DEF CandidateRow
  <2>2. release' = [release EXCEPT ![r] = row] /\ UNCHANGED <<releaseTarget, decided, backup, ready, gateTx>>
    BY <1>2 DEF CreateRelease
  <2> HIDE DEF row
  <2>3. QED BY <2>1, <2>2, ReleaseMoved
<1>3. ASSUME NEW r \in Candidate, RegisterBackup(r) PROVE ReadyInv'
  BY <1>3 DEF RegisterBackup, ReadyInv, ReleaseTypeOK, ReleaseReady, In
<1>4. ASSUME NEW r \in Candidate, RunReadiness(r) PROVE ReadyInv'
  <2>1. /\ ready' \in {ready, ready \cup {r}} /\ (ready' # {} => releaseTarget = "ACTIVE")
        /\ UNCHANGED <<releaseTarget, release, decided, backup, gateTx>>
    BY <1>4 DEF RunReadiness, ReadyInv
  <2>2. QED BY <2>1 DEF ReadyInv, ReleaseTypeOK, ReleaseReady, In
<1>5. ASSUME NEW r \in Candidate, NEW g \in ReleaseGate, CheckDecision(r, g) PROVE ReadyInv'
  BY <1>5 DEF CheckDecision, ReadyInv, ReleaseTypeOK, ReleaseReady, In
<1>6. ASSUME NEW t \in gateTx, Decide(t) PROVE ReadyInv'
  <2>1. PICK to \in GateStatus : decided' = [decided EXCEPT ![t.row][t.gate] = to]
    BY <1>6 DEF Decide
  <2>2. decided' \in [Candidate -> [ReleaseGate -> GateStatus]]
    BY <2>1 DEF ReadyInv, ReleaseTypeOK
  <2>3. QED BY <1>6, <2>2 DEF Decide, ReadyInv, ReleaseTypeOK, ReleaseReady, In
<1>7. CASE UNCHANGED releaseVars
  BY <1>7 DEF releaseVars, ReadyInv, ReleaseTypeOK, ReleaseReady, In
<1>8. QED
  BY <1>1, <1>2, <1>3, <1>4, <1>5, <1>6, <1>7, ReleaseApproved, ReleasePublished DEF ReleaseNext

\* A release is published by what others than its maker approved, on a readiness run
\* that passed and a backup that was restored, for any candidates and gates.
THEOREM ReleasePublishedWasReady ==
  ASSUME ReleaseAssumption
  PROVE  ReleaseSpec => []PublishedWasReady
<1>1. ReleaseSpec => []ReadyInv
  BY ReadyInit, ReadyStep, PTL DEF ReleaseSpec
<1>2. ReadyInv => PublishedWasReady
  BY DEF ReadyInv, ReleaseReady, PublishedWasReady
<1>3. QED BY <1>1, <1>2, PTL

-----------------------------------------------------------------------------
(* Pilots.                                                                 *)

\* An approval under way holds the plan, which is still in review.
PilotTxOK(t) ==
  t.do = "approve" => t.by \in Actor \ {Owner} /\ "plan" \in t.locks /\ goLive.status = "in_review"

PilotInv ==
  /\ PilotTypeOK /\ LiveWasIndependent
  /\ \A t \in pilotTx : PilotTxOK(t)
  /\ \A t, u \in pilotTx : t.do = "approve" /\ u.do = "approve" => t = u

LEMMA PilotInitially == PilotInit => PilotInv
BY DEF PilotInit, PilotInv, PilotTypeOK, PilotTxOK, LiveWasIndependent, ProgramStatus, GoLivePlan, GoLiveStages,
       ChecklistStages, PilotTrainingStatus, SignoffStatus

\* What readiness counts moves without the plan.
LEMMA ReadinessMoved ==
  ASSUME PilotInv, NEW c, NEW s, NEW u, NEW a,
         \/ c \in Checklist /\ TransitionChecklistItem(c)
         \/ ValidateMasterData
         \/ u \in Training /\ UpdateTrainingCompletion(u, a)
         \/ s \in Signoff /\ SignoffGoLive(s, a)
  PROVE  PilotInv'
<1>1. PilotTypeOK
  BY DEF PilotInv
<1>2. UNCHANGED <<program, goLive, pilotTx>>
  BY DEF TransitionChecklistItem, ValidateMasterData, UpdateTrainingCompletion, SignoffGoLive
<1>3. CASE c \in Checklist /\ TransitionChecklistItem(c)
  <2>1. PICK to \in ChecklistStages[checklist[c]] : checklist' = [checklist EXCEPT ![c] = to]
    BY <1>3 DEF TransitionChecklistItem
  <2>2. checklist[c] \in DOMAIN ChecklistStages
    BY <1>1, <1>3 DEF PilotTypeOK
  <2>3. to \in DOMAIN ChecklistStages
    BY <2>1, <2>2 DEF ChecklistStages
  <2>4. checklist' \in [Checklist -> DOMAIN ChecklistStages]
    BY <1>1, <2>1, <2>3 DEF PilotTypeOK
  <2>5. QED BY <1>2, <1>3, <2>4 DEF PilotInv, PilotTypeOK, LiveWasIndependent, PilotTxOK, TransitionChecklistItem
<1>4. CASE ValidateMasterData
  BY <1>2, <1>4 DEF PilotInv, PilotTypeOK, LiveWasIndependent, PilotTxOK, ValidateMasterData
<1>5. CASE u \in Training /\ UpdateTrainingCompletion(u, a)
  <2>1. training' \in [Training -> PilotTrainingStatus]
    BY <1>1, <1>5 DEF PilotTypeOK, UpdateTrainingCompletion
  <2>2. QED BY <1>2, <1>5, <2>1 DEF PilotInv, PilotTypeOK, LiveWasIndependent, PilotTxOK, UpdateTrainingCompletion
<1>6. CASE s \in Signoff /\ SignoffGoLive(s, a)
  <2>1. signoff' \in [Signoff -> SignoffStatus]
    BY <1>1, <1>6 DEF PilotTypeOK, SignoffGoLive
  <2>2. QED BY <1>2, <1>6, <2>1 DEF PilotInv, PilotTypeOK, LiveWasIndependent, PilotTxOK, SignoffGoLive
<1>7. QED BY <1>3, <1>4, <1>5, <1>6

LEMMA AssessmentRead ==
  ASSUME PilotInv, ReadForAssessment
  PROVE  PilotInv'
<1> DEFINE new == [do |-> "assess", locks |-> {}]
<1>1. pilotTx' = pilotTx \cup {new} /\ new.do # "approve"
  BY DEF ReadForAssessment
<1>2. UNCHANGED <<program, goLive, checklist, domain, training, signoff>>
  BY DEF ReadForAssessment
<1> HIDE DEF new
<1>3. QED BY <1>1, <1>2 DEF PilotInv, PilotTypeOK, LiveWasIndependent, PilotTxOK

LEMMA ReadinessAssessed ==
  ASSUME PilotInv, NEW t \in pilotTx, AssessReadiness(t)
  PROVE  PilotInv'
BY DEF PilotInv, PilotTypeOK, LiveWasIndependent, PilotTxOK, AssessReadiness, ProgramStatus

LEMMA ApprovalChecked ==
  ASSUME PilotInv, NEW a \in Actor, CheckApproval(a)
  PROVE  PilotInv'
<1> DEFINE new == [do |-> "approve", by |-> a, locks |-> {"plan"}]
<1>1. PilotTxOK(new)
  BY DEF PilotTxOK, CheckApproval, PilotIndependent
<1>2. pilotTx' = pilotTx \cup {new} /\ UNCHANGED <<program, goLive, checklist, domain, training, signoff>>
  BY DEF CheckApproval
<1>3. \A t \in pilotTx : t.do # "approve"
  BY DEF PilotInv, PilotTxOK, CheckApproval, Unlocked
<1> HIDE DEF new
<1>4. QED BY <1>1, <1>2, <1>3 DEF PilotInv, PilotTypeOK, LiveWasIndependent, PilotTxOK

LEMMA ApprovalCommitted ==
  ASSUME PilotAssumption, PilotInv, NEW t \in pilotTx, CommitApproval(t)
  PROVE  PilotInv'
<1>1. t.by \in Actor \ {Owner} /\ goLive.status = "in_review" /\ t.do = "approve"
  BY DEF PilotInv, PilotTxOK, CommitApproval
<1>2. goLive' = [status |-> "approved", approver |-> t.by] /\ goLive' \in GoLivePlan
  BY <1>1 DEF CommitApproval, GoLivePlan, GoLiveStages
<1>3. pilotTx' = pilotTx \ {t} /\ UNCHANGED <<program, checklist, domain, training, signoff>>
  BY DEF CommitApproval
<1>4. PilotTypeOK' /\ program # "live"
  BY <1>1, <1>2, <1>3 DEF PilotInv, PilotTypeOK, LiveWasIndependent
<1>5. LiveWasIndependent'
  BY <1>1, <1>2, <1>3, <1>4 DEF LiveWasIndependent, PilotAssumption
<1>6. \A u \in pilotTx' : PilotTxOK(u)'
  BY <1>1, <1>3 DEF PilotInv, PilotTxOK
<1>7. QED BY <1>3, <1>4, <1>5, <1>6 DEF PilotInv

LEMMA PlanTransitioned ==
  ASSUME PilotInv, TransitionGoLive
  PROVE  PilotInv'
<1>1. PICK to \in GoLiveStages[goLive.status] \ {"approved"} :
       /\ goLive' = [goLive EXCEPT !.status = to]
       /\ program' = CASE to = "live" -> "live" [] to = "rolled_back" -> "paused"
                       [] OTHER -> program
  BY DEF TransitionGoLive
<1>2. goLive \in GoLivePlan /\ goLive.status \in DOMAIN GoLiveStages
  BY DEF PilotInv, PilotTypeOK, GoLivePlan
<1>3. /\ to \in DOMAIN GoLiveStages
      /\ to \in {"approved", "in_progress", "live", "rolled_back"} =>
           goLive.status \in {"approved", "in_progress", "live"}
      /\ goLive.status = "live" => to = "rolled_back"
  BY <1>1, <1>2 DEF GoLiveStages
<1>4. /\ goLive' \in GoLivePlan
      /\ goLive'.status = to /\ goLive'.approver = goLive.approver
  BY <1>1, <1>2, <1>3 DEF GoLivePlan
<1>5. program' = IF to = "live" THEN "live" ELSE IF to = "rolled_back" THEN "paused" ELSE program
  BY <1>1
<1>6. UNCHANGED <<checklist, domain, training, signoff, pilotTx>> /\ \A t \in pilotTx : t.do # "approve"
  BY DEF TransitionGoLive, PilotInv, PilotTxOK, Unlocked
<1>7. PilotTypeOK'
  BY <1>4, <1>5, <1>6 DEF PilotInv, PilotTypeOK, ProgramStatus
<1>8. LiveWasIndependent'
  BY <1>3, <1>4, <1>5 DEF PilotInv, LiveWasIndependent
<1>9. QED BY <1>6, <1>7, <1>8 DEF PilotInv, PilotTxOK

LEMMA PilotStep ==
  ASSUME PilotAssumption, PilotInv, [PilotNext]_pilotVars
  PROVE  PilotInv'
<1>1. CASE PilotNext
  BY <1>1, ReadinessMoved, AssessmentRead, ReadinessAssessed, ApprovalChecked, ApprovalCommitted, PlanTransitioned
     DEF PilotNext
<1>2. CASE UNCHANGED pilotVars
  BY <1>2 DEF pilotVars, PilotInv, PilotTypeOK, LiveWasIndependent, PilotTxOK
<1>3. QED BY <1>1, <1>2

\* A plan that passed its review was approved by another than the owner, and a program
\* is live only with its plan, although assess_readiness writes over a program that it
\* has not locked.
THEOREM PilotLiveWasIndependent ==
  ASSUME PilotAssumption
  PROVE  PilotSpec => []LiveWasIndependent
<1>1. PilotSpec => []PilotInv
  BY PilotInitially, PilotStep, PTL DEF PilotSpec
<1>2. PilotInv => LiveWasIndependent
  BY DEF PilotInv
<1>3. QED BY <1>1, <1>2, PTL
=============================================================================
