---------------------------- MODULE NetworkProofs ----------------------------
(***************************************************************************)
(* Proofs about Network, for any number of nodes, requests, submits,       *)
(* crashes and faults: whatever leads to a vote goes back to a code that   *)
(* was sent and came back.                                                 *)
(***************************************************************************)
EXTENDS NetworkRefinement, StorageProofs, TLAPS

\* A table that node n may hold.
GoodTable(n, table) ==
  /\ table \in Tables
  /\ \A id \in RequestIds : table[id] # Absent => RowProven(n, id, table[id])

LEMMA Holds ==
  ASSUME TypeOK, RowsProven, NEW n \in Validators
  PROVE  GoodTable(n, validation[n])
BY DEF TypeOK, RowsProven, GoodTable

-----------------------------------------------------------------------------
(* What the handlers and the job make of a table.                          *)

LEMMA CreateTable ==
  ASSUME NEW n \in Validators, NEW id \in RequestIds, NEW table, GoodTable(n, table),
         NEW step \in {"RECEIVED_REGISTER", "RECEIVED_BROADCAST"}
  PROVE  GoodTable(n, createValidation(table, id, toValidationData(step)))
<1> DEFINE row == toValidationData(step)
<1>1. step \in ProcessStep
  BY DEF ProcessStep
<1>2. /\ row \in ValidationData
      /\ row.validationStatus = "NONE"
      /\ row.sendCode = NoCode
      /\ row.processStep = step
  BY <1>1, NewRow
<1> HIDE DEF row
<1>3. RowProven(n, id, row)
  BY <1>2 DEF RowProven
<1> QED
  BY <1>2, <1>3 DEF GoodTable, Tables, createValidation, row

LEMMA StatusTable ==
  ASSUME NEW n \in Validators, NEW id \in RequestIds, NEW table, GoodTable(n, table),
         NEW status \in {"CONFIRMED", "EXPIRED"}
  PROVE  GoodTable(n, updateValidationStatus(table, id, status))
<1>1. status \in PhoneValidationStatus /\ status \notin {"NONE", "SENT"}
  BY DEF PhoneValidationStatus
<1>2. table \in Tables
  BY DEF GoodTable
<1> DEFINE new == updateValidationStatus(table, id, status)
<1>3. /\ new \in Tables
      /\ \A i \in RequestIds : (new[i] = Absent) <=> (table[i] = Absent)
      /\ \A i \in RequestIds \ {id} : new[i] = table[i]
      /\ table[id] # Absent =>
           /\ new[id].validationStatus = status
           /\ new[id].sendCode = table[id].sendCode
           /\ new[id].expire = table[id].expire
           /\ new[id].processStep = table[id].processStep
  BY <1>1, <1>2, UpdateStatus
<1> HIDE DEF new
<1>4. ASSUME NEW i \in RequestIds, new[i] # Absent
      PROVE  RowProven(n, i, new[i])
  BY <1>1, <1>3, <1>4 DEF GoodTable, RowProven, Text
<1> QED
  BY <1>3, <1>4 DEF GoodTable, new

LEMMA StepTable ==
  ASSUME NEW n \in Validators, NEW id \in RequestIds, NEW table, GoodTable(n, table),
         NEW step \in ProcessStep,
         table[id] # Absent /\ step \in {"RECEIVED_CODE", "VOTED", "FINISHED"} =>
           table[id].sendCode # NoCode /\ InTime(n, id, table[id].sendCode)
  PROVE  GoodTable(n, updateProcessStep(table, id, step))
<1>1. table \in Tables
  BY DEF GoodTable
<1> QED
  BY <1>1, UpdateStep DEF GoodTable, RowProven, Text

LEMMA CodeTable ==
  ASSUME NEW n \in Validators, NEW id \in RequestIds, NEW table, GoodTable(n, table),
         NEW data \in ValidationData, data.validationStatus = "SENT",
         data.sendCode \in Codes, Text(n, id, data) \in texted,
         table[id] # Absent => table[id].sendCode = NoCode
  PROVE  GoodTable(n, updateSendCode(table, id, data))
<1>1. table \in Tables
  BY DEF GoodTable
<1>2. data.sendCode # NoCode
  BY StorageAssumption DEF Codes, NoCode
<1> DEFINE new == updateSendCode(table, id, data)
<1>3. /\ new \in Tables
      /\ \A i \in RequestIds : (new[i] = Absent) <=> (table[i] = Absent)
      /\ \A i \in RequestIds \ {id} : new[i] = table[i]
      /\ table[id] # Absent =>
           /\ new[id].validationStatus = data.validationStatus
           /\ new[id].sendCode = data.sendCode
           /\ new[id].expire = data.expire
           /\ new[id].processStep = table[id].processStep
  BY <1>1, UpdateCode
<1> HIDE DEF new
<1>4. ASSUME NEW i \in RequestIds, new[i] # Absent
      PROVE  RowProven(n, i, new[i])
  BY <1>2, <1>3, <1>4 DEF GoodTable, RowProven, Text
<1> QED
  BY <1>3, <1>4 DEF GoodTable, new

LEMMA RemoveTable ==
  ASSUME NEW n \in Validators, NEW table, GoodTable(n, table), NEW now
  PROVE  GoodTable(n, removeExpiredValidation(table, now))
<1> DEFINE new == removeExpiredValidation(table, now)
<1>1. /\ new \in Tables
      /\ \A id \in RequestIds : new[id] \in {Absent, table[id]}
  BY DEF GoodTable, removeExpiredValidation, Tables
<1> QED
  BY <1>1 DEF GoodTable

\* A row past its code: the client brought it in time.
LEMMA RowIsProven ==
  ASSUME TypeOK, RowsProven, NEW n \in Validators, NEW id \in RequestIds,
         validation[n][id] # Absent,
         validation[n][id].processStep \in {"RECEIVED_CODE", "VOTED", "FINISHED"}
  PROVE  /\ validation[n][id].sendCode \in Codes
         /\ InTime(n, id, validation[n][id].sendCode)
         /\ n \in Proven(id)
<1>1. /\ validation[n][id].sendCode # NoCode
      /\ InTime(n, id, validation[n][id].sendCode)
  BY DEF RowsProven, RowProven
<1>2. validation[n][id].sendCode \in Codes
  BY <1>1 DEF TypeOK, Tables, ValidationData
<1> QED
  BY <1>1, <1>2 DEF Proven

\* A code that processSubmit() takes has been sent and presented.
LEMMA SubmitTable ==
  ASSUME TypeOK, RowsProven, NEW n \in Validators, NEW id \in RequestIds,
         NEW code \in CodeStrings, Brought(n, id, code[n])
  PROVE  GoodTable(n, processSubmit(n, id, code).table)
<1> DEFINE row == validation[n][id]
<1>1. GoodTable(n, validation[n])
  BY Holds
<1>2. CASE row = Absent \/ row.validationStatus # "SENT"
  BY <1>1, <1>2 DEF processSubmit
<1>3. CASE row # Absent /\ row.validationStatus = "SENT" /\ row.expire <= clock
  BY <1>1, <1>3, StatusTable DEF processSubmit
<1>4. CASE /\ row # Absent /\ row.validationStatus = "SENT" /\ ~(row.expire <= clock)
           /\ n \in known /\ row.sendCode = code[n]
  <2>1. row \in ValidationData /\ RowProven(n, id, row)
    BY <1>1, <1>4 DEF GoodTable, Tables
  <2>2. row.sendCode # NoCode /\ row.expire \in Nat /\ Text(n, id, row) \in texted
    BY <2>1, <1>4 DEF RowProven, ValidationData
  <2>3. PICK a \in presented : a.to = n /\ a.id = id /\ a.code = code[n] /\ a.time <= clock
    BY DEF Brought
  <2>5. a.time < row.expire
    <3>1. a.time \in Nat /\ clock \in Nat
      BY DEF TypeOK, Answers
    <3> QED
      BY <1>4, <2>2, <2>3, <3>1
  <2>6. InTime(n, id, row.sendCode)
    BY <1>4, <2>2, <2>3, <2>5 DEF InTime, Text
  <2>4. GoodTable(n, updateProcessStep(validation[n], id, "RECEIVED_CODE"))
    BY <1>1, <2>2, <2>6, StepTable DEF ProcessStep
  <2> QED
    BY <2>4, <1>4 DEF processSubmit
<1>5. CASE /\ row # Absent /\ row.validationStatus = "SENT" /\ ~(row.expire <= clock)
           /\ ~(n \in known /\ row.sendCode = code[n])
  BY <1>1, <1>5 DEF processSubmit
<1> QED
  BY <1>2, <1>3, <1>4, <1>5

LEMMA CallParts ==
  ASSUME TypeOK, NEW m \in wire
  PROVE  /\ m \in Messages
         /\ m.from \in Validators /\ m.to \in Validators /\ m.id \in RequestIds
         /\ m.op \in {"broadcast", "broadcastSubmit"}
         /\ m.op = "broadcastSubmit" => m.code \in CodeStrings
BY DEF TypeOK, Messages

LEMMA HandleTable ==
  ASSUME TypeOK, RowsProven, SubmitsPresented, NEW m \in wire
  PROVE  GoodTable(m.to, Handle(m).table)
<1>1. GoodTable(m.to, validation[m.to])
  BY Holds, CallParts
<1>2. CASE m.op = "broadcast"
  BY <1>1, <1>2, CreateTable, CallParts DEF Handle, postBroadcast
<1>3. CASE m.op # "broadcast"
  <2>1. GoodTable(m.to, processSubmit(m.to, m.id, m.code).table)
    BY <1>3, SubmitTable, CallParts DEF SubmitsPresented
  <2> QED
    BY <1>1, <1>3, <2>1 DEF Handle, postBroadcastSubmit
<1> QED
  BY <1>2, <1>3

-----------------------------------------------------------------------------
(* The history only grows.                                                 *)

LEMMA Growth ==
  ASSUME TypeOK, [Next]_vars
  PROVE  /\ texted \subseteq texted' /\ presented \subseteq presented'
         /\ posted \subseteq posted'
         /\ clock' \in Nat /\ clock <= clock'
<1> DEFINE Grown == /\ texted \subseteq texted' /\ presented \subseteq presented'
                    /\ posted \subseteq posted'
                    /\ clock' \in Nat /\ clock <= clock'
<1> USE DEF history
<1>5. clock \in Nat
  BY DEF TypeOK
<1>1. CASE UNCHANGED vars
  BY <1>1, <1>5 DEF vars
<1>2. CASE Clients
  BY <1>2, <1>5 DEF Clients, PostRequest, PostSubmit
<1>6. ASSUME clock' = clock \/ clock' = clock + 1
      PROVE  clock' \in Nat /\ clock <= clock'
  BY <1>5, <1>6
<1>3. CASE Environment
  <2>1. /\ texted \subseteq texted' /\ presented \subseteq presented' /\ posted \subseteq posted'
        /\ clock' = clock \/ clock' = clock + 1
    BY <1>3 DEF Environment, Deliver, Lose, Mine, Drop, Tick, Crash
  <2> QED
    BY <1>6, <2>1
<1>4. ASSUME NEW n \in Validators, Node(n)
      PROVE  Grown
  <2>1. /\ texted \subseteq texted' /\ presented \subseteq presented' /\ posted \subseteq posted'
        /\ clock' = clock
    BY <1>4 DEF Node, JobStep, Register, TakeBroadcast, SendBroadcast, EndBroadcast,
       SendPhone, WriteSendCode, MarkSent, Vote, Count, StartUp, EndPeriod, SendSubmit,
       EndSubmit
  <2> QED
    BY <1>6, <2>1
<1> QED
  BY <1>1, <1>2, <1>3, <1>4 DEF Next

LEMMA ProvenGrows ==
  ASSUME texted \subseteq texted', presented \subseteq presented'
  PROVE  /\ \A v, id, code : InTime(v, id, code) => InTime(v, id, code)'
         /\ \A id : Proven(id) \subseteq Proven(id)'
<1>1. \A v, id, code : InTime(v, id, code) => InTime(v, id, code)'
  BY DEF InTime
<1> QED
  BY <1>1 DEF Proven

\* What a client has brought stays so.
LEMMA BroughtGrows ==
  ASSUME TypeOK, presented \subseteq presented', clock' \in Nat, clock <= clock'
  PROVE  \A v, id, code : Brought(v, id, code) => Brought(v, id, code)'
<1>1. \A a \in presented : a.time \in Nat
  BY DEF TypeOK, Answers
<1>2. clock \in Nat
  BY DEF TypeOK
<1>3. \A a \in presented : a.time <= clock => a.time <= clock'
  BY <1>1, <1>2
<1> QED
  BY <1>3 DEF Brought

-----------------------------------------------------------------------------
(* The tables.                                                             *)

LEMMA TableStep ==
  ASSUME TypeOK, RowsProven, texted \subseteq texted', presented \subseteq presented',
         NEW n \in Validators, NEW table, GoodTable(n, table),
         validation' = [validation EXCEPT ![n] = table]
  PROVE  validation' \in [Validators -> Tables] /\ RowsProven'
<1>1. validation' \in [Validators -> Tables]
  BY DEF TypeOK, GoodTable
<1>2. ASSUME NEW v \in Validators, NEW id \in RequestIds, validation'[v][id] # Absent
      PROVE  RowProven(v, id, validation[v][id])'
  <2>1. GoodTable(v, validation'[v])
    <3>1. validation'[v] = IF v = n THEN table ELSE validation[v]
      BY DEF TypeOK
    <3>2. GoodTable(v, validation[v])
      BY Holds
    <3> QED
      BY <3>1, <3>2
  <2>2. RowProven(v, id, validation'[v][id])
    BY <1>2, <2>1 DEF GoodTable
  <2> QED
    BY <2>2, ProvenGrows DEF RowProven, Text
<1> QED
  BY <1>1, <1>2 DEF RowsProven

LEMMA TablesKept ==
  ASSUME TypeOK, RowsProven, SubmitsPresented, WorkTexted, SnapshotHolds, [Next]_vars
  PROVE  validation' \in [Validators -> Tables] /\ RowsProven'
<1>1. texted \subseteq texted' /\ presented \subseteq presented'
  BY Growth
<1>2. ASSUME UNCHANGED validation
      PROVE  validation' \in [Validators -> Tables] /\ RowsProven'
  BY <1>1, <1>2, ProvenGrows DEF RowsProven, RowProven, Text, TypeOK
<1>3. ASSUME NEW n \in Validators, NEW table, GoodTable(n, table),
             validation' = [validation EXCEPT ![n] = table]
      PROVE  validation' \in [Validators -> Tables] /\ RowsProven'
  BY <1>1, <1>3, TableStep
<1>4. \A n \in Validators : GoodTable(n, validation[n])
  BY Holds
<1>5. CASE UNCHANGED vars
  BY <1>2, <1>5 DEF vars, stored
<1>6. CASE Clients
  <2>1. ASSUME NEW n \in Validators, NEW id \in RequestIds, PostRequest(n, id)
        PROVE  validation' \in [Validators -> Tables] /\ RowsProven'
    <3>1. GoodTable(n, createValidation(validation[n], id,
                                        toValidationData("RECEIVED_REGISTER")))
      BY <1>4, CreateTable
    <3>2. validation' = [validation EXCEPT ![n] =
            createValidation(validation[n], id, toValidationData("RECEIVED_REGISTER"))]
      BY <2>1 DEF PostRequest
    <3> QED
      BY <1>3, <3>1, <3>2
  <2>2. ASSUME NEW n \in Validators, NEW id \in RequestIds, NEW code \in CodeStrings,
               PostSubmit(n, id, code)
        PROVE  UNCHANGED validation
    BY <2>2 DEF PostSubmit, stored
  <2> QED
    BY <1>2, <1>6, <2>1, <2>2 DEF Clients
<1>7. CASE Environment
  <2>1. ASSUME NEW m \in wire, Deliver(m)
        PROVE  validation' \in [Validators -> Tables] /\ RowsProven'
    <3>1. GoodTable(m.to, Handle(m).table) /\ m.to \in Validators
      BY HandleTable, CallParts
    <3>2. validation' = [validation EXCEPT ![m.to] = Handle(m).table]
      BY <2>1 DEF Deliver
    <3> QED
      BY <1>3, <3>1, <3>2
  <2>2. (\A m \in wire : ~Deliver(m)) => UNCHANGED validation
    BY <1>7 DEF Environment, Lose, Mine, Drop, Tick, Crash, stored
  <2> QED
    BY <1>2, <2>1, <2>2
<1>8. ASSUME NEW n \in Validators, Node(n)
      PROVE  validation' \in [Validators -> Tables] /\ RowsProven'
  <2>1. CASE WriteSendCode(n)
    <3>1. /\ work[n].id \in RequestIds
          /\ work[n].data \in ValidationData
          /\ work[n].data.validationStatus = "SENT"
          /\ work[n].data.sendCode \in Codes
          /\ Text(n, work[n].id, work[n].data) \in texted
          /\ validation[n][work[n].id] # Absent => validation[n][work[n].id].sendCode = NoCode
      BY <2>1 DEF WriteSendCode, WorkTexted, SnapshotHolds, Texting
    <3>2. GoodTable(n, updateSendCode(validation[n], work[n].id, work[n].data))
      BY <1>4, <3>1, CodeTable
    <3>3. validation' = [validation EXCEPT ![n] =
            updateSendCode(validation[n], work[n].id, work[n].data)]
      BY <2>1 DEF WriteSendCode
    <3> QED
      BY <1>3, <3>2, <3>3
  <2>2. CASE MarkSent(n)
    <3>1. work[n].id \in RequestIds
      BY <2>2 DEF MarkSent, WorkTexted
    <3>2. GoodTable(n, updateProcessStep(validation[n], work[n].id, "SENT_SMS"))
      BY <1>4, <3>1, StepTable DEF ProcessStep
    <3>3. validation' = [validation EXCEPT ![n] =
            updateProcessStep(validation[n], work[n].id, "SENT_SMS")]
      BY <2>2 DEF MarkSent
    <3> QED
      BY <1>3, <3>2, <3>3
  <2>3. ASSUME NEW id \in RequestIds, Vote(n, id)
        PROVE  validation' \in [Validators -> Tables] /\ RowsProven'
    <3>1. /\ validation[n][id].sendCode # NoCode
          /\ InTime(n, id, validation[n][id].sendCode)
      BY <2>3 DEF Vote, Takes, RowsProven, RowProven
    <3>2. GoodTable(n, updateProcessStep(validation[n], id, "VOTED"))
      BY <1>4, <3>1, StepTable DEF ProcessStep
    <3>3. validation' = [validation EXCEPT ![n] =
            updateProcessStep(validation[n], id, "VOTED")]
      BY <2>3 DEF Vote
    <3> QED
      BY <1>3, <3>2, <3>3
  <2>4. ASSUME NEW id \in RequestIds, Count(n, id)
        PROVE  validation' \in [Validators -> Tables] /\ RowsProven'
    <3> DEFINE confirmed == updateValidationStatus(validation[n], id, "CONFIRMED")
    <3>1. /\ validation[n][id] # Absent
          /\ validation[n][id].sendCode # NoCode
          /\ InTime(n, id, validation[n][id].sendCode)
      BY <2>4 DEF Count, Takes, RowsProven, RowProven
    <3>2. GoodTable(n, confirmed) /\ confirmed[id].sendCode = validation[n][id].sendCode
      BY <1>4, <3>1, StatusTable, UpdateStatus DEF GoodTable, PhoneValidationStatus
    <3>3. validation' = [validation EXCEPT ![n] =
            updateProcessStep(confirmed, id, "FINISHED")]
      BY <2>4 DEF Count
    <3> HIDE DEF confirmed
    <3>4. GoodTable(n, updateProcessStep(confirmed, id, "FINISHED"))
      BY <3>1, <3>2, StepTable DEF ProcessStep
    <3> QED
      BY <1>3, <3>3, <3>4
  <2>5. CASE EndPeriod(n)
    <3>1. GoodTable(n, removeExpiredValidation(validation[n], clock))
      BY <1>4, RemoveTable
    <3>2. validation' = [validation EXCEPT ![n] =
            removeExpiredValidation(validation[n], clock)]
      BY <2>5 DEF EndPeriod
    <3> QED
      BY <1>3, <3>1, <3>2
  <2>6. CASE EndSubmit(n)
    <3>1. submits[n] \in SubmitCalls
      BY <2>6 DEF EndSubmit, TypeOK
    <3>2. submits[n].id \in RequestIds /\ submits[n].code \in CodeStrings
      BY <3>1 DEF SubmitCalls
    <3>3. Brought(n, submits[n].id, submits[n].code[n])
      BY <2>6 DEF EndSubmit, SubmitsPresented
    <3>4. GoodTable(n, processSubmit(n, submits[n].id, submits[n].code).table)
      BY <3>2, <3>3, SubmitTable
    <3>5. validation' = [validation EXCEPT ![n] =
            processSubmit(n, submits[n].id, submits[n].code).table]
      BY <2>6 DEF EndSubmit
    <3> QED
      BY <1>3, <3>4, <3>5
  <2>7. CASE \/ \E id \in RequestIds : Register(n, id) \/ TakeBroadcast(n, id)
             \/ SendBroadcast(n) \/ EndBroadcast(n) \/ SendPhone(n)
             \/ StartUp(n) \/ SendSubmit(n)
    BY <1>2, <2>7 DEF Register, TakeBroadcast, SendBroadcast, EndBroadcast, SendPhone,
         StartUp, SendSubmit, stored
  <2> QED
    BY <1>8, <2>1, <2>2, <2>3, <2>4, <2>5, <2>6, <2>7 DEF Node, JobStep
<1> QED
  BY <1>5, <1>6, <1>7, <1>8 DEF Next

-----------------------------------------------------------------------------
(* The jobs.                                                               *)

\* A job in progress, once its place is known.
GoodWork(n, w, sent) ==
  /\ w \in Works
  /\ w.pc # "idle" =>
       /\ w.id \in RequestIds
       /\ w.data \in ValidationData
       /\ w.pc = "updateSendCode" =>
            /\ w.data.validationStatus = "SENT"
            /\ w.data.sendCode \in Codes
            /\ Text(n, w.id, w.data) \in sent

LEMMA WorkHolds ==
  ASSUME TypeOK, WorkTexted, NEW n \in Validators
  PROVE  GoodWork(n, work[n], texted)
BY DEF TypeOK, WorkTexted, GoodWork

LEMMA GoodIdle == \A v, sent : GoodWork(v, Idle, sent)
BY DEF GoodWork, Idle, Works

\* A call that returns leaves all of a job but its callee.
LEMMA BackWork ==
  ASSUME NEW v, NEW w, NEW sent, GoodWork(v, w, sent)
  PROVE  GoodWork(v, [w EXCEPT !.to = Nobody], sent)
BY DEF GoodWork, Works

LEMMA MoreSent ==
  ASSUME texted \subseteq texted', NEW v, NEW w, GoodWork(v, w, texted)
  PROVE  GoodWork(v, w, texted')
BY DEF GoodWork

LEMMA WorkKept ==
  ASSUME TypeOK, WorkTexted, Next
  PROVE  work' \in [Validators -> Works] /\ WorkTexted'
<1>1. texted \subseteq texted'
  BY Growth
<1>2. \A v \in Validators : GoodWork(v, work[v], texted')
  BY <1>1, WorkHolds, MoreSent
<1>3. ASSUME UNCHANGED work
      PROVE  work' \in [Validators -> Works] /\ WorkTexted'
  BY <1>1, <1>3 DEF WorkTexted, TypeOK
<1>4. ASSUME NEW n \in Validators, NEW w, GoodWork(n, w, texted'),
             work' = [work EXCEPT ![n] = w]
      PROVE  work' \in [Validators -> Works] /\ WorkTexted'
  <2>1. w \in Works
    BY <1>4 DEF GoodWork
  <2>2. [work EXCEPT ![n] = w] \in [Validators -> Works]
    BY <2>1 DEF TypeOK
  <2>3. WorkTexted'
    BY <1>1, <1>2, <1>4, <2>2 DEF GoodWork, WorkTexted, TypeOK
  <2> QED
    BY <1>4, <2>2, <2>3
<1>5. CASE Clients
  BY <1>3, <1>5 DEF Clients, PostRequest, PostSubmit
<1>6. CASE Environment
  <2>1. ASSUME NEW m \in wire, NEW ok, Return(m, ok)
        PROVE  work' \in [Validators -> Works] /\ WorkTexted'
    <3>1. m.from \in Validators
      BY CallParts
    <3>2. UNCHANGED work \/ work' = [work EXCEPT ![m.from] = [work[m.from] EXCEPT !.to = Nobody]]
      BY <2>1, <3>1 DEF Return, TypeOK
    <3>3. GoodWork(m.from, [work[m.from] EXCEPT !.to = Nobody], texted')
      BY <1>2, <3>1, BackWork
    <3> QED
      BY <1>3, <1>4, <3>1, <3>2, <3>3
  <2>2. ASSUME NEW m \in wire, Deliver(m) \/ Lose(m)
        PROVE  work' \in [Validators -> Works] /\ WorkTexted'
    BY <2>1, <2>2 DEF Deliver, Lose
  <2>3. ASSUME NEW n \in Validators, Crash(n)
        PROVE  work' \in [Validators -> Works] /\ WorkTexted'
    <3>1. \A v \in Validators : work'[v] \in {Idle, work[v], [work[v] EXCEPT !.to = Nobody]}
      BY <2>3 DEF Crash
    <3>2. \A v \in Validators : GoodWork(v, work'[v], texted')
      <4>1. \A v \in Validators : GoodWork(v, [work[v] EXCEPT !.to = Nobody], texted')
        BY <1>2, BackWork
      <4> QED
        BY <1>2, <3>1, <4>1, GoodIdle
    <3>3. work' = [v \in Validators |-> work'[v]]
      BY <2>3 DEF Crash
    <3>4. work' \in [Validators -> Works]
      BY <3>2, <3>3 DEF GoodWork
    <3>5. WorkTexted'
      BY <1>1, <3>2 DEF GoodWork, WorkTexted
    <3> QED
      BY <3>4, <3>5
  <2> QED
    BY <1>3, <1>6, <2>2, <2>3 DEF Environment, Mine, Drop, Tick
<1>7. ASSUME NEW n \in Validators, Node(n)
      PROVE  work' \in [Validators -> Works] /\ WorkTexted'
  <2>1. work[n] \in Works /\ GoodWork(n, work[n], texted')
    BY <1>2 DEF TypeOK
  <2>2. ASSUME NEW id \in RequestIds, Register(n, id) \/ TakeBroadcast(n, id)
        PROVE  work' \in [Validators -> Works] /\ WorkTexted'
    <3>1. PICK pc \in {"broadcast", "sendPhone"}, todo \in {active[n], {}} :
            work' = [work EXCEPT ![n] = [pc |-> pc, id |-> id, data |-> validation[n][id],
                                         todo |-> todo, to |-> Nobody]]
      BY <2>2 DEF Register, TakeBroadcast
    <3>2. validation[n][id] \in ValidationData
      BY <2>2 DEF Register, TakeBroadcast, Takes, TypeOK, Tables
    <3>3. GoodWork(n, [pc |-> pc, id |-> id, data |-> validation[n][id], todo |-> todo,
                       to |-> Nobody], texted')
      BY <3>2 DEF GoodWork, Works, TypeOK
    <3> QED
      BY <1>4, <3>1, <3>3
  <2>3. CASE SendBroadcast(n)
    <3>1. PICK v \in work[n].todo : work' = [work EXCEPT ![n].todo = @ \ {v}, ![n].to = v]
      BY <2>3 DEF SendBroadcast
    <3>2. v \in Validators /\ work[n].todo \ {v} \in SUBSET Validators
      BY <2>1 DEF Works
    <3>3. work' = [work EXCEPT ![n] = [work[n] EXCEPT !.todo = work[n].todo \ {v}, !.to = v]]
      BY <2>1, <3>1 DEF Works, TypeOK
    <3> QED
      BY <1>4, <2>1, <3>2, <3>3 DEF GoodWork, Works
  <2>4. CASE EndBroadcast(n)
    <3>1. work' = [work EXCEPT ![n] = [work[n] EXCEPT !.pc = "sendPhone"]]
      BY <2>4 DEF EndBroadcast, TypeOK
    <3>2. GoodWork(n, [work[n] EXCEPT !.pc = "sendPhone"], texted')
      BY <2>1, <2>4 DEF EndBroadcast, GoodWork, Works
    <3> QED
      BY <1>4, <3>1, <3>2
  <2>5. CASE SendPhone(n)
    <3>1. work[n].id \in RequestIds /\ work[n].data \in ValidationData
      BY <2>1, <2>5 DEF SendPhone, GoodWork
    <3>2. CASE work[n].data.validationStatus = "NONE"
      <4>1. PICK code \in Codes :
              /\ texted' = texted \union {[from |-> n, id |-> work[n].id, code |-> code,
                                           expire |-> clock + CodeLifetime]}
              /\ work' = [work EXCEPT ![n].pc = "updateSendCode",
                                      ![n].data.validationStatus = "SENT",
                                      ![n].data.sendCode = code,
                                      ![n].data.expire = clock + CodeLifetime]
        BY <2>5, <3>2 DEF SendPhone
      <4> DEFINE data == [work[n].data EXCEPT !.validationStatus = "SENT", !.sendCode = code,
                                              !.expire = clock + CodeLifetime]
                 w == [work[n] EXCEPT !.pc = "updateSendCode", !.data = data]
      <4>2. clock + CodeLifetime \in Nat
        BY NetworkAssumption DEF TypeOK
      <4>3. /\ data \in ValidationData
            /\ data.validationStatus = "SENT"
            /\ data.sendCode = code
            /\ data.expire = clock + CodeLifetime
        BY <3>1, <4>2 DEF ValidationData, PhoneValidationStatus
      <4>4. work' = [work EXCEPT ![n] = w]
        BY <2>1, <3>1, <4>1 DEF Works, TypeOK, ValidationData
      <4> HIDE DEF data
      <4>5. /\ w \in Works
            /\ w.pc = "updateSendCode"
            /\ w.id = work[n].id
            /\ w.data = data
        BY <2>1, <4>3 DEF Works
      <4> HIDE DEF w
      <4>6. GoodWork(n, w, texted')
        BY <3>1, <4>1, <4>3, <4>5 DEF GoodWork, Works, Text
      <4> QED
        BY <1>4, <4>4, <4>6
    <3>3. CASE work[n].data.validationStatus # "NONE"
      <4>1. work' = [work EXCEPT ![n] = [work[n] EXCEPT !.pc = "markSent"]]
        BY <2>5, <3>3 DEF SendPhone, TypeOK
      <4>2. GoodWork(n, [work[n] EXCEPT !.pc = "markSent"], texted')
        BY <2>1, <3>1 DEF GoodWork, Works
      <4> QED
        BY <1>4, <4>1, <4>2
    <3> QED
      BY <3>2, <3>3
  <2>6. CASE WriteSendCode(n)
    <3>1. work' = [work EXCEPT ![n] = [work[n] EXCEPT !.pc = "markSent"]]
      BY <2>6 DEF WriteSendCode, TypeOK
    <3>2. GoodWork(n, [work[n] EXCEPT !.pc = "markSent"], texted')
      BY <2>1, <2>6 DEF WriteSendCode, GoodWork, Works
    <3> QED
      BY <1>4, <3>1, <3>2
  <2>7. CASE MarkSent(n)
    BY <1>4, <2>7, GoodIdle DEF MarkSent
  <2>8. CASE \/ \E id \in RequestIds : Vote(n, id) \/ Count(n, id)
             \/ StartUp(n) \/ EndPeriod(n) \/ SendSubmit(n) \/ EndSubmit(n)
    BY <1>3, <2>8 DEF Vote, Count, StartUp, EndPeriod, SendSubmit, EndSubmit
  <2> QED
    BY <1>7, <2>2, <2>3, <2>4, <2>5, <2>6, <2>7, <2>8 DEF Node, JobStep
<1> QED
  BY <1>5, <1>6, <1>7 DEF Next

-----------------------------------------------------------------------------
(* Codes that are written, and the snapshots of the jobs.                  *)

\* A statement that adds and removes no row, and leaves each its code.
SameCodes(old, new) ==
  \A i \in RequestIds :
    /\ (new[i] = Absent) <=> (old[i] = Absent)
    /\ old[i] # Absent => new[i].sendCode = old[i].sendCode /\ new[i].expire = old[i].expire

LEMMA StatusCodes ==
  ASSUME NEW table \in Tables, NEW id \in RequestIds, NEW status \in PhoneValidationStatus
  PROVE  LET new == updateValidationStatus(table, id, status) IN
         /\ new \in Tables
         /\ SameCodes(table, new)
         /\ \A i \in RequestIds : table[i] # Absent => new[i].processStep = table[i].processStep
BY UpdateStatus DEF SameCodes

LEMMA StepCodes ==
  ASSUME NEW table \in Tables, NEW id \in RequestIds, NEW step \in ProcessStep
  PROVE  LET new == updateProcessStep(table, id, step) IN
         /\ new \in Tables
         /\ SameCodes(table, new)
         /\ \A i \in RequestIds : i # id => new[i] = table[i]
         /\ table[id] # Absent => new[id].processStep = step
BY UpdateStep DEF SameCodes

LEMMA SubmitCodes ==
  ASSUME TypeOK, NEW n \in Validators, NEW id \in RequestIds, NEW code
  PROVE  LET new == processSubmit(n, id, code).table IN
         /\ SameCodes(validation[n], new)
         /\ \A i \in RequestIds :
              validation[n][i] # Absent =>
                \/ new[i].processStep = validation[n][i].processStep
                \/ i = id /\ new[i].processStep = "RECEIVED_CODE"
<1>1. validation[n] \in Tables
  BY DEF TypeOK
<1>2. "EXPIRED" \in PhoneValidationStatus /\ "RECEIVED_CODE" \in ProcessStep
  BY DEF PhoneValidationStatus, ProcessStep
<1>3. SameCodes(validation[n], validation[n])
  BY DEF SameCodes
<1>4. PICK new \in {validation[n], updateValidationStatus(validation[n], id, "EXPIRED"),
                    updateProcessStep(validation[n], id, "RECEIVED_CODE")} :
        new = processSubmit(n, id, code).table
  BY DEF processSubmit
<1>5. CASE new = validation[n]
  BY <1>3, <1>4, <1>5
<1>6. CASE new = updateValidationStatus(validation[n], id, "EXPIRED")
  BY <1>1, <1>2, <1>4, <1>6, StatusCodes
<1>7. CASE new = updateProcessStep(validation[n], id, "RECEIVED_CODE")
  BY <1>1, <1>2, <1>4, <1>7, StepCodes
<1> QED
  BY <1>4, <1>5, <1>6, <1>7

\* The two statements of Count.
LEMMA CountCodes ==
  ASSUME NEW table \in Tables, NEW id \in RequestIds
  PROVE  LET new == updateProcessStep(updateValidationStatus(table, id, "CONFIRMED"), id,
                                      "FINISHED") IN
         /\ SameCodes(table, new)
         /\ \A i \in RequestIds :
              table[i] # Absent =>
                new[i].processStep = IF i = id THEN "FINISHED" ELSE table[i].processStep
<1> DEFINE confirmed == updateValidationStatus(table, id, "CONFIRMED")
           new == updateProcessStep(confirmed, id, "FINISHED")
<1>1. "CONFIRMED" \in PhoneValidationStatus /\ "FINISHED" \in ProcessStep
  BY DEF PhoneValidationStatus, ProcessStep
<1>2. /\ confirmed \in Tables
      /\ SameCodes(table, confirmed)
      /\ \A i \in RequestIds :
           table[i] # Absent => confirmed[i].processStep = table[i].processStep
  BY <1>1, StatusCodes
<1> HIDE DEF confirmed
<1>3. /\ SameCodes(confirmed, new)
      /\ \A i \in RequestIds : i # id => new[i] = confirmed[i]
      /\ confirmed[id] # Absent => new[id].processStep = "FINISHED"
  BY <1>1, <1>2, StepCodes
<1> HIDE DEF new
<1>4. SameCodes(table, new)
  BY <1>2, <1>3 DEF SameCodes
<1>5. \A i \in RequestIds :
        table[i] # Absent =>
          new[i].processStep = IF i = id THEN "FINISHED" ELSE table[i].processStep
  BY <1>2, <1>3 DEF SameCodes
<1> QED
  BY <1>4, <1>5 DEF new, confirmed

\* What a step makes of the code of a row: it stays, the row is new, or the job
\* writes the code it has texted.
KeepsCode(n, id) ==
  /\ validation[n][id] # Absent
  /\ validation'[n][id].sendCode = validation[n][id].sendCode
  /\ validation'[n][id].expire = validation[n][id].expire

IsNew(n, id) ==
  /\ validation'[n][id].sendCode = NoCode
  /\ id \in posted' \/ \E m \in wire : m.id = id

WritesCode(n, id) ==
  /\ work[n].pc = "updateSendCode"
  /\ work[n].id = id
  /\ validation[n][id] # Absent
  /\ validation'[n][id].sendCode = work[n].data.sendCode
  /\ validation'[n][id].expire = work[n].data.expire
  /\ work'[n].pc = "markSent"

LEMMA RowStep ==
  ASSUME TypeOK, WorkTexted, Next, NEW n \in Validators, NEW id \in RequestIds,
         validation'[n][id] # Absent
  PROVE  \/ KeepsCode(n, id)
         \/ IsNew(n, id)
         \/ WritesCode(n, id)
<1> DEFINE Goal == \/ KeepsCode(n, id)
                   \/ IsNew(n, id)
                   \/ WritesCode(n, id)
<1>1. ASSUME UNCHANGED validation
      PROVE  Goal
  BY <1>1 DEF KeepsCode
<1>2. ASSUME NEW v \in Validators, NEW table, validation' = [validation EXCEPT ![v] = table],
             SameCodes(validation[v], table)
      PROVE  Goal
  BY <1>2 DEF TypeOK, SameCodes, KeepsCode
<1>3. ASSUME NEW v \in Validators, NEW i \in RequestIds,
             NEW step \in {"RECEIVED_REGISTER", "RECEIVED_BROADCAST"},
             validation' = [validation EXCEPT ![v] =
               createValidation(validation[v], i, toValidationData(step))],
             i \in posted' \/ \E m \in wire : m.id = i
      PROVE  Goal
  <2>1. toValidationData(step).sendCode = NoCode
    BY NewRow DEF ProcessStep
  <2> QED
    BY <1>3, <2>1 DEF createValidation, TypeOK, Tables, KeepsCode, IsNew
<1>4. \A v \in Validators : validation[v] \in Tables
  BY DEF TypeOK
<1> HIDE DEF Goal
<1> USE DEF stored
<1>5. CASE Clients
  <2>1. ASSUME NEW v \in Validators, NEW i \in RequestIds, PostRequest(v, i)
        PROVE  Goal
    <3>1. /\ validation' = [validation EXCEPT ![v] =
               createValidation(validation[v], i, toValidationData("RECEIVED_REGISTER"))]
          /\ i \in posted'
      BY <2>1 DEF PostRequest
    <3> QED
      BY <1>3, <3>1
  <2>2. ASSUME NEW v \in Validators, NEW i \in RequestIds, NEW code \in CodeStrings,
               PostSubmit(v, i, code)
        PROVE  Goal
    BY <1>1, <2>2 DEF PostSubmit
  <2> QED
    BY <1>5, <2>1, <2>2 DEF Clients, Goal
<1>6. CASE Environment
  <2>1. ASSUME NEW m \in wire, Deliver(m)
        PROVE  Goal
    <3>1. m.to \in Validators /\ m.id \in RequestIds /\ \E c \in wire : c.id = m.id
      BY CallParts
    <3>2. validation' = [validation EXCEPT ![m.to] = Handle(m).table]
      BY <2>1 DEF Deliver
    <3>3. \/ Handle(m).table = validation[m.to]
          \/ Handle(m).table = createValidation(validation[m.to], m.id,
                                                toValidationData("RECEIVED_BROADCAST"))
          \/ Handle(m).table = processSubmit(m.to, m.id, m.code).table
      BY DEF Handle, postBroadcast, postBroadcastSubmit
    <3>4. SameCodes(validation[m.to], validation[m.to])
      BY DEF SameCodes
    <3>5. SameCodes(validation[m.to], processSubmit(m.to, m.id, m.code).table)
      BY <3>1, SubmitCodes
    <3> QED
      BY <1>2, <1>3, <3>1, <3>2, <3>3, <3>4, <3>5
  <2>2. (\A m \in wire : ~Deliver(m)) => UNCHANGED validation
    BY <1>6 DEF Environment, Lose, Mine, Drop, Tick, Crash
  <2> QED
    BY <1>1, <2>1, <2>2 DEF Goal
<1>7. ASSUME NEW v \in Validators, Node(v)
      PROVE  Goal
  <2>1. CASE WriteSendCode(v)
    <3> DEFINE data == work[v].data
               table == updateSendCode(validation[v], work[v].id, data)
    <3>1. work[v].id \in RequestIds /\ data \in ValidationData /\ work[v].pc = "updateSendCode"
      BY <2>1 DEF WriteSendCode, WorkTexted
    <3>2. /\ table \in Tables
          /\ \A i \in RequestIds : (table[i] = Absent) <=> (validation[v][i] = Absent)
          /\ \A i \in RequestIds \ {work[v].id} : table[i] = validation[v][i]
          /\ validation[v][work[v].id] # Absent =>
               /\ table[work[v].id].sendCode = data.sendCode
               /\ table[work[v].id].expire = data.expire
      BY <1>4, <3>1, UpdateCode
    <3>3. validation' = [validation EXCEPT ![v] = table]
      BY <2>1 DEF WriteSendCode
    <3>4. work'[v].pc = "markSent"
      BY <2>1 DEF WriteSendCode, TypeOK, Works
    <3> HIDE DEF table
    <3>5. validation'[v] = table /\ (n # v => validation'[n] = validation[n])
      BY <3>3 DEF TypeOK
    <3>6. CASE n = v /\ id = work[v].id
      BY <3>1, <3>2, <3>4, <3>5, <3>6 DEF WritesCode, Goal
    <3>7. CASE ~(n = v /\ id = work[v].id)
      BY <3>2, <3>5, <3>7 DEF KeepsCode, Goal
    <3> QED
      BY <3>6, <3>7
  <2>2. CASE MarkSent(v)
    <3>1. work[v].id \in RequestIds
      BY <2>2 DEF MarkSent, WorkTexted
    <3>2. SameCodes(validation[v], updateProcessStep(validation[v], work[v].id, "SENT_SMS"))
      BY <1>4, <3>1, StepCodes DEF ProcessStep
    <3>3. validation' = [validation EXCEPT ![v] =
            updateProcessStep(validation[v], work[v].id, "SENT_SMS")]
      BY <2>2 DEF MarkSent
    <3> QED
      BY <1>2, <3>2, <3>3
  <2>3. ASSUME NEW i \in RequestIds, Vote(v, i)
        PROVE  Goal
    <3>1. SameCodes(validation[v], updateProcessStep(validation[v], i, "VOTED"))
      BY <1>4, StepCodes DEF ProcessStep
    <3>2. validation' = [validation EXCEPT ![v] = updateProcessStep(validation[v], i, "VOTED")]
      BY <2>3 DEF Vote
    <3> QED
      BY <1>2, <3>1, <3>2
  <2>4. ASSUME NEW i \in RequestIds, Count(v, i)
        PROVE  Goal
    <3>1. validation' = [validation EXCEPT ![v] = updateProcessStep(
            updateValidationStatus(validation[v], i, "CONFIRMED"), i, "FINISHED")]
      BY <2>4 DEF Count
    <3> QED
      BY <1>2, <1>4, <3>1, CountCodes
  <2>5. CASE EndPeriod(v)
    <3>1. validation' = [validation EXCEPT ![v] =
            removeExpiredValidation(validation[v], clock)]
      BY <2>5 DEF EndPeriod
    <3>2. validation'[n][id] = validation[n][id]
      BY <3>1 DEF TypeOK, removeExpiredValidation
    <3> QED
      BY <3>2 DEF KeepsCode, Goal
  <2>6. CASE EndSubmit(v)
    <3>1. submits[v].id \in RequestIds
      BY <2>6 DEF EndSubmit, TypeOK, SubmitCalls
    <3>2. SameCodes(validation[v], processSubmit(v, submits[v].id, submits[v].code).table)
      BY <3>1, SubmitCodes
    <3>3. validation' = [validation EXCEPT ![v] =
            processSubmit(v, submits[v].id, submits[v].code).table]
      BY <2>6 DEF EndSubmit
    <3> QED
      BY <1>2, <3>2, <3>3
  <2>7. CASE \/ \E i \in RequestIds : Register(v, i) \/ TakeBroadcast(v, i)
             \/ SendBroadcast(v) \/ EndBroadcast(v) \/ SendPhone(v)
             \/ StartUp(v) \/ SendSubmit(v)
    BY <1>1, <2>7 DEF Register, TakeBroadcast, SendBroadcast, EndBroadcast, SendPhone,
         StartUp, SendSubmit
  <2> QED
    BY <1>7, <2>1, <2>2, <2>3, <2>4, <2>5, <2>6, <2>7 DEF Node, JobStep
<1> QED
  BY <1>5, <1>6, <1>7 DEF Next, Goal

\* What a step makes of the job of n: it ends, or stops; it goes on with what it
\* has; it begins, with a snapshot; or a code is texted.
Begins(n) ==
  \E id \in RequestIds :
    /\ validation[n][id] # Absent
    /\ UNCHANGED <<clock, validation, posted, texted>>
    /\ work'[n].pc \in {"broadcast", "sendPhone"}
    /\ work'[n].id = id
    /\ work'[n].data = validation[n][id]

GoesOn(n) ==
  /\ work'[n].id = work[n].id
  /\ work'[n].data = work[n].data
  /\ \/ work'[n].pc = work[n].pc
     \/ work'[n].pc = "markSent" /\ work[n].pc # "idle"
     \/ work'[n].pc = "sendPhone" /\ work[n].pc = "broadcast"

TextsCode(n) ==
  /\ work[n].pc = "sendPhone"
  /\ work[n].data.validationStatus = "NONE"
  /\ work'[n].pc = "updateSendCode"
  /\ work'[n].id = work[n].id
  /\ work'[n].data.expire = clock + CodeLifetime
  /\ texted' = texted \union {Text(n, work[n].id, work'[n].data)}
  /\ UNCHANGED <<clock, validation, mempool, requests, posted, presented>>

\* A code is texted.
LEMMA PhoneStep ==
  ASSUME TypeOK, WorkTexted, NEW n \in Validators, SendPhone(n),
         work[n].data.validationStatus = "NONE"
  PROVE  TextsCode(n)
<1>1. /\ work[n].pc = "sendPhone" /\ work[n].data \in ValidationData
      /\ work[n] \in Works
  BY DEF SendPhone, WorkTexted, TypeOK
<1>2. PICK code \in Codes :
        /\ texted' = texted \union {[from |-> n, id |-> work[n].id, code |-> code,
                                     expire |-> clock + CodeLifetime]}
        /\ work' = [work EXCEPT ![n].pc = "updateSendCode",
                                ![n].data.validationStatus = "SENT",
                                ![n].data.sendCode = code,
                                ![n].data.expire = clock + CodeLifetime]
  BY DEF SendPhone
<1>3. /\ work'[n].pc = "updateSendCode"
      /\ work'[n].id = work[n].id
      /\ work'[n].data.sendCode = code
      /\ work'[n].data.expire = clock + CodeLifetime
  BY <1>1, <1>2 DEF TypeOK, Works, ValidationData
<1>4. UNCHANGED <<clock, validation, mempool, requests, posted, presented>>
  BY DEF SendPhone, stored
<1> QED
  BY <1>1, <1>2, <1>3, <1>4 DEF TextsCode, Text

LEMMA WorkStep ==
  ASSUME TypeOK, WorkTexted, Next, NEW n \in Validators
  PROVE  \/ work'[n].pc = "idle"
         \/ Begins(n)
         \/ GoesOn(n)
         \/ TextsCode(n)
<1> DEFINE Goal == \/ work'[n].pc = "idle"
                   \/ Begins(n)
                   \/ GoesOn(n)
                   \/ TextsCode(n)
<1>1. ASSUME work'[n] = work[n]
      PROVE  Goal
  BY <1>1 DEF GoesOn
<1>2. work[n] \in Works /\ Idle.pc = "idle"
  BY DEF TypeOK, Idle
<1>3. ASSUME work'[n] = [work[n] EXCEPT !.to = Nobody]
      PROVE  Goal
  BY <1>2, <1>3 DEF Works, GoesOn
<1> HIDE DEF Goal
<1>4. CASE Clients
  <2>1. UNCHANGED work
    BY <1>4 DEF Clients, PostRequest, PostSubmit
  <2> QED
    BY <1>1, <2>1 DEF Goal
<1>5. CASE Environment
  <2>1. ASSUME NEW m \in wire, NEW ok, Return(m, ok)
        PROVE  work'[n] \in {work[n], [work[n] EXCEPT !.to = Nobody]}
    BY <2>1, CallParts DEF Return, TypeOK
  <2>2. ASSUME NEW m \in wire, Deliver(m) \/ Lose(m)
        PROVE  work'[n] \in {work[n], [work[n] EXCEPT !.to = Nobody]}
    BY <2>1, <2>2 DEF Deliver, Lose
  <2>3. ASSUME NEW v \in Validators, Crash(v)
        PROVE  work'[n] \in {Idle, work[n], [work[n] EXCEPT !.to = Nobody]}
    BY <2>3 DEF Crash
  <2>4. work'[n] \in {Idle, work[n], [work[n] EXCEPT !.to = Nobody]}
    BY <1>5, <2>2, <2>3 DEF Environment, Mine, Drop, Tick
  <2>5. CASE work'[n] = Idle
    BY <1>2, <2>5
  <2> QED
    BY <1>1, <1>3, <2>4, <2>5 DEF Goal
<1>6. ASSUME NEW v \in Validators, Node(v)
      PROVE  Goal
  <2>1. ASSUME v # n
        PROVE  work'[n] = work[n]
    BY <1>6, <2>1 DEF TypeOK, Node, JobStep, Register, TakeBroadcast, SendBroadcast,
       EndBroadcast, SendPhone, WriteSendCode, MarkSent, Vote, Count, StartUp, EndPeriod,
       SendSubmit, EndSubmit
  <2>2. ASSUME NEW id \in RequestIds, Register(n, id) \/ TakeBroadcast(n, id)
        PROVE  Begins(n)
    <3>1. /\ validation[n][id] # Absent
          /\ UNCHANGED <<clock, validation, posted, texted>>
      BY <2>2 DEF Register, TakeBroadcast, Takes, stored, history
    <3>2. /\ work'[n].pc \in {"broadcast", "sendPhone"}
          /\ work'[n].id = id
          /\ work'[n].data = validation[n][id]
      BY <2>2 DEF Register, TakeBroadcast, TypeOK
    <3> QED
      BY <3>1, <3>2 DEF Begins
  <2>3. CASE SendBroadcast(n)
    BY <1>2, <2>3 DEF SendBroadcast, TypeOK, Works, GoesOn, Goal
  <2>4. CASE EndBroadcast(n)
    BY <1>2, <2>4 DEF EndBroadcast, TypeOK, Works, GoesOn, Goal
  <2>5. CASE SendPhone(n)
    <3>1. CASE work[n].data.validationStatus # "NONE"
      BY <1>2, <2>5, <3>1 DEF SendPhone, TypeOK, Works, GoesOn, Goal
    <3>2. CASE work[n].data.validationStatus = "NONE"
      BY <2>5, <3>2, PhoneStep DEF Goal
    <3> QED
      BY <3>1, <3>2
  <2>6. CASE WriteSendCode(n)
    BY <1>2, <2>6 DEF WriteSendCode, TypeOK, Works, GoesOn, Goal
  <2>7. CASE MarkSent(n)
    BY <1>2, <2>7 DEF MarkSent, TypeOK, Goal
  <2>8. CASE \/ \E id \in RequestIds : Vote(n, id) \/ Count(n, id)
             \/ StartUp(n) \/ EndPeriod(n) \/ SendSubmit(n) \/ EndSubmit(n)
    BY <1>1, <2>8 DEF Vote, Count, StartUp, EndPeriod, SendSubmit, EndSubmit, Goal
  <2>9. CASE v = n
    BY <1>6, <2>2, <2>3, <2>4, <2>5, <2>6, <2>7, <2>8, <2>9 DEF Node, JobStep, Goal
  <2> QED
    BY <1>1, <2>1, <2>9
<1> QED
  BY <1>4, <1>5, <1>6 DEF Next, Goal

\* While a job is about to text or to note a code, its row has none.
LEMMA SnapshotKept ==
  ASSUME TypeOK, RowsProven, WorkTexted, SnapshotHolds, Next
  PROVE  SnapshotHolds'
<1> SUFFICES ASSUME NEW n \in Validators, Texting(n)', validation'[n][work'[n].id] # Absent
             PROVE  validation'[n][work'[n].id].sendCode = NoCode
  BY DEF SnapshotHolds
<1>1. work'[n].pc # "idle"
  BY DEF Texting
<1>2. CASE Begins(n)
  <2>1. PICK id \in RequestIds :
          /\ validation[n][id] # Absent /\ validation' = validation
          /\ work'[n].pc \in {"broadcast", "sendPhone"}
          /\ work'[n].id = id /\ work'[n].data = validation[n][id]
    BY <1>2 DEF Begins
  <2>2. validation[n][id].validationStatus = "NONE"
    BY <2>1 DEF Texting
  <2> QED
    BY <2>1, <2>2 DEF RowsProven, RowProven
<1>4. ASSUME NEW id \in RequestIds, IsNew(n, id)
      PROVE  validation'[n][id].sendCode = NoCode
  BY <1>4 DEF IsNew
<1>3. CASE GoesOn(n) \/ TextsCode(n)
  <2>1. /\ Texting(n) /\ work[n].pc # "idle" /\ work'[n].id = work[n].id
    BY <1>1, <1>3 DEF GoesOn, TextsCode, Texting
  <2>2. work[n].id \in RequestIds
    BY <2>1 DEF WorkTexted
  <2>3. CASE KeepsCode(n, work[n].id)
    BY <2>1, <2>3 DEF SnapshotHolds, KeepsCode
  <2>4. ~WritesCode(n, work[n].id)
    BY DEF WritesCode, Texting
  <2> QED
    BY <1>4, <2>1, <2>2, <2>3, <2>4, RowStep
<1> QED
  BY <1>1, <1>2, <1>3, WorkStep

-----------------------------------------------------------------------------
(* Submits and calls.                                                      *)

LEMMA SubmitParts ==
  ASSUME TypeOK, NEW n \in Validators, submits[n] # Absent
  PROVE  /\ submits[n] \in SubmitCalls
         /\ submits[n].id \in RequestIds
         /\ submits[n].code \in CodeStrings
         /\ submits[n].todo \subseteq Validators
BY DEF TypeOK, SubmitCalls

\* A submit goes on: its id and its code stay.
LEMMA SubmitGoesOn ==
  ASSUME TypeOK, NEW n \in Validators, submits[n] # Absent,
         NEW to \in Validators \union {Nobody}, NEW todo \in SUBSET Validators
  PROVE  LET new == [submits[n] EXCEPT !.todo = todo, !.to = to] IN
         /\ new \in SubmitCalls
         /\ new # Absent
         /\ new.id = submits[n].id
         /\ new.code = submits[n].code
         /\ new.to = to
BY SubmitParts, AbsentCallAssumption DEF SubmitCalls

LEMMA SubmitReturns ==
  ASSUME TypeOK, NEW n \in Validators, submits[n] # Absent
  PROVE  LET new == [submits[n] EXCEPT !.to = Nobody] IN
         /\ new \in SubmitCalls
         /\ new # Absent
         /\ new.id = submits[n].id
         /\ new.code = submits[n].code
BY SubmitParts, AbsentCallAssumption DEF SubmitCalls

\* Who waits for the call m: its caller, in the walk that made it.
LEMMA Waiter ==
  ASSUME TypeOK, Waiting, NEW m \in wire, m.waits
  PROVE  IF m.op = "broadcast"
         THEN work[m.from].pc = "broadcast" /\ work[m.from].to = m.to
         ELSE submits[m.from] # Absent /\ submits[m.from].to = m.to
BY DEF Waiting

LEMMA SubmitsKept ==
  ASSUME TypeOK, WorkTexted, SubmitsPresented, Waiting, Next
  PROVE  /\ submits' \in [Validators -> SubmitCalls \union {Absent}]
         /\ wire' \subseteq Messages
         /\ SubmitsPresented'
<1> DEFINE Kept == /\ submits' \in [Validators -> SubmitCalls \union {Absent}]
                   /\ wire' \subseteq Messages
                   /\ SubmitsPresented'
           Old(v) == \/ submits'[v] = submits[v]
                     \/ submits'[v] = Absent
                     \/ /\ submits[v] # Absent /\ submits'[v] \in SubmitCalls
                        /\ submits'[v].id = submits[v].id
                        /\ submits'[v].code = submits[v].code
           OldCall(c) == /\ c \in Messages
                         /\ c.op = "broadcastSubmit" =>
                              \A v \in Validators : Brought(v, c.id, c.code[v])
<1>1. \A v, id, code : Brought(v, id, code) => Brought(v, id, code)'
  BY Growth, BroughtGrows
<1>2. ASSUME submits' = [v \in Validators |-> submits'[v]],
             \A v \in Validators : Old(v),
             \A c \in wire' : OldCall(c)
      PROVE  Kept
  BY <1>1, <1>2 DEF SubmitsPresented, TypeOK
<1>3. \A c \in wire : OldCall(c)
  BY DEF SubmitsPresented, TypeOK
<1>4. ASSUME UNCHANGED <<submits, wire>>
      PROVE  Kept
  BY <1>1, <1>4 DEF SubmitsPresented, TypeOK
<1> USE DEF stored, history
<1>5. CASE Clients
  <2>1. ASSUME NEW n \in Validators, NEW id \in RequestIds, PostRequest(n, id)
        PROVE  Kept
    BY <1>4, <2>1 DEF PostRequest
  <2>2. ASSUME NEW n \in Validators, NEW id \in RequestIds, NEW code \in CodeStrings,
               PostSubmit(n, id, code)
        PROVE  Kept
    <3> DEFINE new == [id |-> id, code |-> code, todo |-> active[n], to |-> Nobody]
    <3>1. /\ submits' = [submits EXCEPT ![n] = new]
          /\ wire' = wire
          /\ presented' = presented \union
               {[to |-> v, id |-> id, code |-> code[v], time |-> clock] : v \in Validators}
          /\ clock' = clock
      BY <2>2 DEF PostSubmit
    <3>2. new \in SubmitCalls /\ new.id = id /\ new.code = code
      BY DEF SubmitCalls, TypeOK
    <3> HIDE DEF new
    <3>3. submits' \in [Validators -> SubmitCalls \union {Absent}]
      BY <3>1, <3>2 DEF TypeOK
    <3>5. \A v \in Validators : Brought(v, id, code[v])'
      <4>1. \A v \in Validators :
              [to |-> v, id |-> id, code |-> code[v], time |-> clock] \in presented'
        BY <3>1
      <4>2. clock' = clock /\ clock <= clock
        BY <3>1 DEF TypeOK
      <4> QED
        BY <4>1, <4>2 DEF Brought
    <3>4. ASSUME NEW u \in Validators, submits'[u] # Absent, NEW v \in Validators
          PROVE  Brought(v, submits[u].id, submits[u].code[v])'
      <4>1. CASE u = n
        <5>1. submits'[u].id = id /\ submits'[u].code = code
          BY <3>1, <3>2, <4>1 DEF TypeOK
        <5> QED
          BY <3>5, <5>1 DEF Brought
      <4>2. CASE u # n
        <5>1. submits'[u] = submits[u]
          BY <3>1, <4>2 DEF TypeOK
        <5>2. Brought(v, submits[u].id, submits[u].code[v])
          BY <3>4, <5>1 DEF SubmitsPresented
        <5>3. \E a \in presented' : /\ a.to = v /\ a.id = submits[u].id
                                    /\ a.code = submits[u].code[v] /\ a.time <= clock'
          BY <1>1, <5>2 DEF Brought
        <5> QED
          BY <5>1, <5>3 DEF Brought
      <4> QED
        BY <4>1, <4>2
    <3> QED
      BY <1>1, <3>1, <3>3, <3>4 DEF SubmitsPresented, TypeOK
  <2> QED
    BY <1>5, <2>1, <2>2 DEF Clients
<1>6. CASE Environment
  <2>1. ASSUME NEW m \in wire, NEW ok, Return(m, ok), wire' = wire \ {m}
        PROVE  Kept
    <3>1. m.from \in Validators
      BY CallParts
    <3>2. CASE UNCHANGED submits
      BY <1>1, <2>1, <3>2 DEF SubmitsPresented, TypeOK
    <3>3. CASE ~UNCHANGED submits
      <4>1. submits' = [submits EXCEPT ![m.from].to = Nobody] /\ m.waits /\ m.op # "broadcast"
        BY <2>1, <3>3 DEF Return
      <4>2. submits[m.from] # Absent
        BY <4>1, Waiter
      <4>3. submits' = [submits EXCEPT ![m.from] = [submits[m.from] EXCEPT !.to = Nobody]]
        BY <3>1, <4>1 DEF TypeOK
      <4>4. \A v \in Validators : Old(v)
        BY <3>1, <4>2, <4>3, SubmitReturns DEF TypeOK
      <4>5. submits' = [v \in Validators |-> submits'[v]]
        BY <4>3 DEF TypeOK
      <4> HIDE DEF Old, OldCall, Kept
      <4> QED
        BY <1>2, <1>3, <2>1, <4>4, <4>5
    <3> QED
      BY <3>2, <3>3
  <2>2. ASSUME NEW m \in wire, Deliver(m) \/ Lose(m)
        PROVE  Kept
    BY <2>1, <2>2 DEF Deliver, Lose
  <2>3. ASSUME NEW n \in Validators, Crash(n)
        PROVE  Kept
    <3>1. \A v \in Validators :
            submits'[v] = IF v = n THEN Absent
                          ELSE IF v \in {m.from : m \in {c \in wire :
                                            /\ c.to = n /\ c.waits
                                            /\ c.op = "broadcastSubmit"}}
                          THEN [submits[v] EXCEPT !.to = Nobody] ELSE submits[v]
      BY <2>3 DEF Crash
    <3>2. \A v \in Validators : Old(v)
      <4> SUFFICES ASSUME NEW v \in Validators PROVE Old(v)
        OBVIOUS
      <4>1. CASE submits'[v] \in {Absent, submits[v]}
        BY <4>1
      <4>2. CASE submits'[v] \notin {Absent, submits[v]}
        <5>1. submits'[v] = [submits[v] EXCEPT !.to = Nobody]
          BY <3>1, <4>2
        <5>2. PICK m \in wire : m.waits /\ m.op = "broadcastSubmit" /\ m.from = v
          BY <3>1, <4>2
        <5>3. submits[v] # Absent
          BY <5>2, Waiter
        <5> QED
          BY <5>1, <5>3, SubmitReturns
      <4> QED
        BY <4>1, <4>2
    <3>3. submits' = [v \in Validators |-> submits'[v]]
      BY <2>3 DEF Crash
    <3>4. \A c \in wire' : OldCall(c)
      <4> SUFFICES ASSUME NEW c \in wire' PROVE OldCall(c)
        OBVIOUS
      <4>1. PICK m \in wire : c = m \/ c = [m EXCEPT !.waits = FALSE]
        BY <2>3 DEF Crash, Orphan
      <4>2. OldCall(m) /\ m \in Messages
        BY <1>3
      <4>3. /\ [m EXCEPT !.waits = FALSE] \in Messages
            /\ [m EXCEPT !.waits = FALSE].op = m.op
            /\ [m EXCEPT !.waits = FALSE].id = m.id
            /\ m.op = "broadcastSubmit" => [m EXCEPT !.waits = FALSE].code = m.code
        BY <4>2 DEF Messages
      <4> QED
        BY <4>1, <4>2, <4>3
    <3> HIDE DEF Old, OldCall, Kept
    <3> QED
      BY <1>2, <3>2, <3>3, <3>4
  <2> QED
    BY <1>4, <1>6, <2>2, <2>3 DEF Environment, Mine, Drop, Tick
<1>7. ASSUME NEW n \in Validators, Node(n)
      PROVE  Kept
  <2>1. CASE SendSubmit(n)
    <3>1. PICK v \in submits[n].todo :
            /\ submits' = [submits EXCEPT ![n].todo = @ \ {v}, ![n].to = v]
            /\ wire' = wire \union {[op |-> "broadcastSubmit", from |-> n, waits |-> TRUE,
                                     to |-> v, id |-> submits[n].id,
                                     code |-> submits[n].code]}
      BY <2>1 DEF SendSubmit
    <3> DEFINE todo == submits[n].todo \ {v}
               new == [submits[n] EXCEPT !.todo = todo, !.to = v]
               call == [op |-> "broadcastSubmit", from |-> n, waits |-> TRUE,
                        to |-> v, id |-> submits[n].id, code |-> submits[n].code]
    <3>2. /\ submits[n] # Absent
          /\ submits[n] \in SubmitCalls /\ submits[n].id \in RequestIds
          /\ submits[n].code \in CodeStrings /\ v \in Validators /\ todo \in SUBSET Validators
      BY <2>1, <3>1, SubmitParts DEF SendSubmit
    <3>3. submits' = [submits EXCEPT ![n] = new]
      BY <3>1, <3>2 DEF TypeOK, SubmitCalls
    <3>4. /\ new \in SubmitCalls
          /\ new.id = submits[n].id
          /\ new.code = submits[n].code
      BY <3>2, SubmitGoesOn
    <3>5. OldCall(call)
      BY <3>2 DEF Messages, SubmitsPresented
    <3> HIDE DEF new, call
    <3>6. \A u \in Validators : Old(u)
      BY <3>2, <3>3, <3>4 DEF TypeOK
    <3>7. submits' = [u \in Validators |-> submits'[u]]
      BY <3>3 DEF TypeOK
    <3>8. \A c \in wire' : OldCall(c)
      BY <1>3, <3>1, <3>5 DEF call
    <3> HIDE DEF Old, OldCall, Kept
    <3> QED
      BY <1>2, <3>6, <3>7, <3>8
  <2>2. CASE EndSubmit(n)
    <3>1. submits' = [submits EXCEPT ![n] = Absent] /\ wire' = wire
      BY <2>2 DEF EndSubmit
    <3> QED
      BY <1>1, <3>1 DEF SubmitsPresented, TypeOK
  <2>3. CASE SendBroadcast(n)
    <3>1. PICK v \in work[n].todo :
            wire' = wire \union {[op |-> "broadcast", from |-> n, waits |-> TRUE, to |-> v,
                                  id |-> work[n].id]}
      BY <2>3 DEF SendBroadcast
    <3>2. v \in Validators /\ work[n].id \in RequestIds
      BY <2>3 DEF SendBroadcast, WorkTexted, TypeOK, Works
    <3>3. OldCall([op |-> "broadcast", from |-> n, waits |-> TRUE, to |-> v,
                   id |-> work[n].id])
      BY <3>2 DEF Messages
    <3>4. submits' = submits
      BY <2>3 DEF SendBroadcast
    <3>5. \A c \in wire' : OldCall(c)
      BY <1>3, <3>1, <3>3
    <3> QED
      BY <1>1, <3>4, <3>5 DEF SubmitsPresented, TypeOK
  <2>4. CASE \/ \E id \in RequestIds : Register(n, id) \/ TakeBroadcast(n, id)
             \/ EndBroadcast(n) \/ SendPhone(n) \/ WriteSendCode(n) \/ MarkSent(n)
             \/ \E id \in RequestIds : Vote(n, id) \/ Count(n, id)
             \/ StartUp(n) \/ EndPeriod(n)
    BY <1>4, <2>4 DEF Register, TakeBroadcast, EndBroadcast, SendPhone, WriteSendCode,
         MarkSent, Vote, Count, StartUp, EndPeriod
  <2> QED
    BY <1>7, <2>1, <2>2, <2>3, <2>4 DEF Node, JobStep
<1> QED
  BY <1>5, <1>6, <1>7 DEF Next

-----------------------------------------------------------------------------
(* A node waits for one call at a time in each of its walks.               *)

\* The walk of m.from has come to the call m.
Awaited(m, jobs, calls) ==
  IF m.op = "broadcast"
  THEN /\ jobs[m.from].pc = "broadcast"
       /\ jobs[m.from].to = m.to
       /\ jobs[m.from].id = m.id
  ELSE /\ calls[m.from] # Absent
       /\ calls[m.from].to = m.to
       /\ calls[m.from].id = m.id
       /\ calls[m.from].code = m.code

LEMMA OneCall ==
  ASSUME TypeOK, Waiting, NEW m \in wire, NEW c \in wire, m.waits, c.waits,
         m.op = c.op, m.from = c.from
  PROVE  m = c
<1>1. m \in Messages /\ c \in Messages /\ Awaited(m, work, submits) /\ Awaited(c, work, submits)
  BY DEF TypeOK, Waiting, Awaited
<1>2. m.waits = c.waits
  BY <1>1 DEF Messages
<1>3. CASE m.op = "broadcast"
  <2> DEFINE Call(x) == [op |-> x.op, from |-> x.from, waits |-> x.waits, to |-> x.to,
                         id |-> x.id]
  <2>1. \A x \in Messages : x.op = "broadcast" => x = Call(x)
    BY DEF Messages
  <2>2. m = Call(m) /\ c = Call(c)
    BY <1>1, <1>3, <2>1
  <2>3. m.to = c.to /\ m.id = c.id
    BY <1>1, <1>3 DEF Awaited
  <2> QED
    BY <1>2, <2>2, <2>3
<1>4. CASE m.op = "broadcastSubmit"
  <2> DEFINE Call(x) == [op |-> x.op, from |-> x.from, waits |-> x.waits, to |-> x.to,
                         id |-> x.id, code |-> x.code]
  <2>1. \A x \in Messages : x.op = "broadcastSubmit" => x = Call(x)
    BY DEF Messages
  <2>2. m = Call(m) /\ c = Call(c)
    BY <1>1, <1>4, <2>1
  <2>3. m.to = c.to /\ m.id = c.id /\ m.code = c.code
    BY <1>1, <1>4 DEF Awaited
  <2> QED
    BY <1>2, <2>2, <2>3
<1> QED
  BY <1>1, <1>3, <1>4 DEF Messages

\* The calls of a node that has come to no call are not waited for.
LEMMA NoCall ==
  ASSUME TypeOK, Waiting, NEW m \in wire, m.waits
  PROVE  /\ m.op = "broadcast" =>
              work[m.from].pc = "broadcast" /\ work[m.from].to # Nobody
         /\ m.op # "broadcast" =>
              submits[m.from] # Absent /\ submits[m.from].to # Nobody
BY CallParts, NetworkAssumption DEF Waiting

LEMMA WaitingKept ==
  ASSUME TypeOK, Waiting, Next
  PROVE  Waiting'
<1> USE DEF stored, history
<1>1. \A m \in wire : m.waits => Awaited(m, work, submits)
  BY DEF Waiting, Awaited
<1>2. ASSUME \A m \in wire' : m.waits => Awaited(m, work', submits')
      PROVE  Waiting'
  BY <1>2 DEF Waiting, Awaited
<1>3. ASSUME UNCHANGED <<work, submits, wire>>
      PROVE  Waiting'
  BY <1>3 DEF Waiting
\* A step of the job of n outside its broadcast, or at no call.
<1>4. ASSUME NEW n \in Validators, work[n].pc # "broadcast" \/ work[n].to = Nobody,
             UNCHANGED <<submits, wire>>,
             \A v \in Validators : v # n => work'[v] = work[v]
      PROVE  Waiting'
  <2>1. \A m \in wire : m.waits /\ m.op = "broadcast" => m.from # n
    BY <1>4, NoCall
  <2>2. \A m \in wire : m.waits => Awaited(m, work', submits')
    BY <1>1, <1>4, <2>1, CallParts DEF Awaited
  <2> QED
    BY <1>2, <1>4, <2>2
\* A submit of n begins or ends.
<1>5. ASSUME NEW n \in Validators, submits[n] = Absent \/ submits[n].to = Nobody,
             UNCHANGED <<work, wire>>,
             \A v \in Validators : v # n => submits'[v] = submits[v]
      PROVE  Waiting'
  <2>1. \A m \in wire : m.waits /\ m.op # "broadcast" => m.from # n
    BY <1>5, NoCall
  <2>2. \A m \in wire : m.waits => Awaited(m, work', submits')
    BY <1>1, <1>5, <2>1, CallParts DEF Awaited
  <2> QED
    BY <1>2, <1>5, <2>2
<1>6. CASE Clients
  <2>1. ASSUME NEW n \in Validators, NEW id \in RequestIds, NEW code \in CodeStrings,
               PostSubmit(n, id, code)
        PROVE  Waiting'
    BY <1>5, <2>1 DEF PostSubmit, TypeOK
  <2>2. ASSUME NEW n \in Validators, NEW id \in RequestIds, PostRequest(n, id)
        PROVE  Waiting'
    BY <1>3, <2>2 DEF PostRequest
  <2> QED
    BY <1>6, <2>1, <2>2 DEF Clients
<1>7. CASE Environment
  <2>1. ASSUME NEW m \in wire, NEW ok, Return(m, ok), wire' = wire \ {m}
        PROVE  Waiting'
    <3>1. m.from \in Validators
      BY CallParts
    <3>2. CASE ~m.waits
      BY <1>1, <1>2, <2>1, <3>2 DEF Return, Awaited
    <3>3. CASE m.waits /\ m.op = "broadcast"
      <4>1. /\ submits' = submits
            /\ \A v \in Validators : v # m.from => work'[v] = work[v]
        BY <2>1, <3>3 DEF Return, TypeOK
      <4>2. \A c \in wire' : c.waits /\ c.op = "broadcast" => c.from # m.from
        BY <2>1, <3>3, OneCall
      <4> QED
        BY <1>1, <1>2, <2>1, <4>1, <4>2, CallParts DEF Awaited
    <3>4. CASE m.waits /\ m.op # "broadcast"
      <4>1. /\ work' = work
            /\ \A v \in Validators : v # m.from => submits'[v] = submits[v]
        BY <2>1, <3>4 DEF Return, TypeOK
      <4>2. \A c \in wire : c.op # "broadcast" => c.op = m.op
        BY <3>4, CallParts
      <4>3. \A c \in wire' : c.waits /\ c.op # "broadcast" => c.from # m.from
        BY <2>1, <3>4, <4>2, OneCall
      <4> QED
        BY <1>1, <1>2, <2>1, <4>1, <4>3, CallParts DEF Awaited
    <3> QED
      BY <3>2, <3>3, <3>4
  <2>2. ASSUME NEW m \in wire, Deliver(m) \/ Lose(m)
        PROVE  Waiting'
    BY <2>1, <2>2 DEF Deliver, Lose
  <2>3. ASSUME NEW n \in Validators, Crash(n)
        PROVE  Waiting'
    <3> SUFFICES ASSUME NEW c \in wire', c.waits PROVE Awaited(c, work', submits')
      BY <1>2
    <3>1. c \in wire /\ c.to # n /\ c.from # n
      <4>1. PICK m \in wire : /\ m.to # n
                              /\ c = IF m.from = n THEN Orphan(m) ELSE m
        BY <2>3 DEF Crash
      <4>2. m \in Messages
        BY CallParts
      <4>3. ~Orphan(m).waits
        BY <4>2 DEF Orphan, Messages
      <4> QED
        BY <4>1, <4>3
    <3>2. Awaited(c, work, submits) /\ c.from \in Validators /\ c.op \in {"broadcast", "broadcastSubmit"}
      BY <1>1, <3>1, CallParts
    \* No call to n is waited for in the same walk.
    <3>3. \A m \in wire : m.waits /\ m.op = c.op /\ m.to = n => m.from # c.from
      BY <3>1, OneCall
    <3>4. c.op = "broadcast" => work'[c.from] = work[c.from]
      BY <2>3, <3>1, <3>2, <3>3 DEF Crash
    <3>5. c.op = "broadcastSubmit" => submits'[c.from] = submits[c.from]
      BY <2>3, <3>1, <3>2, <3>3 DEF Crash
    <3> QED
      BY <3>2, <3>4, <3>5 DEF Awaited
  <2> QED
    BY <1>3, <1>7, <2>2, <2>3 DEF Environment, Mine, Drop, Tick
<1>8. ASSUME NEW n \in Validators, Node(n)
      PROVE  Waiting'
  <2>1. CASE SendBroadcast(n)
    <3>1. PICK v \in work[n].todo :
            /\ work' = [work EXCEPT ![n].todo = @ \ {v}, ![n].to = v]
            /\ wire' = wire \union {[op |-> "broadcast", from |-> n, waits |-> TRUE, to |-> v,
                                     id |-> work[n].id]}
            /\ submits' = submits
            /\ work[n].pc = "broadcast" /\ work[n].to = Nobody
      BY <2>1 DEF SendBroadcast
    <3>2. /\ work'[n].pc = "broadcast" /\ work'[n].to = v /\ work'[n].id = work[n].id
          /\ \A u \in Validators : u # n => work'[u] = work[u]
      BY <3>1 DEF TypeOK, Works
    <3>3. \A m \in wire : m.waits /\ m.op = "broadcast" => m.from # n
      BY <3>1, NoCall
    <3> DEFINE call == [op |-> "broadcast", from |-> n, waits |-> TRUE, to |-> v,
                        id |-> work[n].id]
    <3>4. Awaited(call, work', submits')
      BY <3>1, <3>2 DEF Awaited
    <3>5. \A m \in wire : m.waits => Awaited(m, work', submits')
      BY <1>1, <3>1, <3>2, <3>3, CallParts DEF Awaited
    <3> QED
      BY <1>2, <3>1, <3>4, <3>5
  <2>2. CASE SendSubmit(n)
    <3>1. PICK v \in submits[n].todo :
            /\ submits' = [submits EXCEPT ![n].todo = @ \ {v}, ![n].to = v]
            /\ wire' = wire \union {[op |-> "broadcastSubmit", from |-> n, waits |-> TRUE,
                                     to |-> v, id |-> submits[n].id,
                                     code |-> submits[n].code]}
            /\ work' = work
            /\ submits[n] # Absent /\ submits[n].to = Nobody
      BY <2>2 DEF SendSubmit
    <3> DEFINE todo == submits[n].todo \ {v}
               new == [submits[n] EXCEPT !.todo = todo, !.to = v]
    <3>2. /\ submits' = [submits EXCEPT ![n] = new]
          /\ v \in Validators /\ todo \in SUBSET Validators
      BY <3>1, SubmitParts DEF TypeOK, SubmitCalls
    <3>3. /\ new \in SubmitCalls
          /\ new # Absent
          /\ new.id = submits[n].id
          /\ new.code = submits[n].code
          /\ new.to = v
      <4>1. submits[n] \in SubmitCalls
        BY <3>1, SubmitParts
      <4> HIDE DEF todo
      <4> QED
        BY <3>2, <4>1, AbsentCallAssumption DEF SubmitCalls
    <3> HIDE DEF new
    <3>4. submits'[n] = new /\ \A u \in Validators : u # n => submits'[u] = submits[u]
      BY <3>2 DEF TypeOK
    <3>5. \A m \in wire : m.waits /\ m.op # "broadcast" => m.from # n
      BY <3>1, NoCall
    <3> DEFINE call == [op |-> "broadcastSubmit", from |-> n, waits |-> TRUE, to |-> v,
                        id |-> submits[n].id, code |-> submits[n].code]
    <3>6. Awaited(call, work', submits')
      BY <3>1, <3>3, <3>4 DEF Awaited
    <3>7. \A m \in wire : m.waits => Awaited(m, work', submits')
      BY <1>1, <3>1, <3>4, <3>5, CallParts DEF Awaited
    <3> QED
      BY <1>2, <3>1, <3>6, <3>7
  <2>3. CASE EndSubmit(n)
    BY <1>5, <2>3 DEF EndSubmit, TypeOK
  <2>4. CASE \/ \E id \in RequestIds : Register(n, id) \/ TakeBroadcast(n, id)
             \/ EndBroadcast(n) \/ SendPhone(n) \/ WriteSendCode(n) \/ MarkSent(n)
    <3>1. work[n].pc # "broadcast" \/ work[n].to = Nobody
      <4>1. CASE \E id \in RequestIds : Register(n, id) \/ TakeBroadcast(n, id)
        <5>1. work[n] = Idle
          BY <4>1 DEF Register, TakeBroadcast, Takes
        <5> QED
          BY <5>1 DEF Idle
      <4>2. CASE EndBroadcast(n)
        BY <4>2 DEF EndBroadcast
      <4>3. CASE SendPhone(n) \/ WriteSendCode(n) \/ MarkSent(n)
        BY <4>3 DEF SendPhone, WriteSendCode, MarkSent
      <4> QED
        BY <2>4, <4>1, <4>2, <4>3
    <3>3. UNCHANGED <<submits, wire>>
      BY <2>4 DEF Register, TakeBroadcast, EndBroadcast, SendPhone, WriteSendCode, MarkSent
    <3>2. \A v \in Validators : v # n => work'[v] = work[v]
      BY <2>4 DEF Register, TakeBroadcast, EndBroadcast, SendPhone, WriteSendCode, MarkSent,
           TypeOK
    <3> QED
      BY <1>4, <3>1, <3>2, <3>3
  <2>5. CASE \/ \E id \in RequestIds : Vote(n, id) \/ Count(n, id)
             \/ StartUp(n) \/ EndPeriod(n)
    BY <1>3, <2>5 DEF Vote, Count, StartUp, EndPeriod
  <2> QED
    BY <1>8, <2>1, <2>2, <2>3, <2>4, <2>5 DEF Node, JobStep
<1> QED
  BY <1>6, <1>7, <1>8 DEF Next

-----------------------------------------------------------------------------
(* The votes.                                                              *)

LEMMA SendVotes ==
  ASSUME TypeOK, VotesProven, NEW n \in Validators, NEW id \in RequestIds,
         NEW op \in {"addRequest", "voteRequest", "countVote"}, Send(n, op, id),
         op = "voteRequest" => n \in Proven(id)
  PROVE  /\ mempool' \subseteq Transactions
         /\ \A tx \in mempool' : tx.op = "voteRequest" => tx.from \in Proven(tx.id)
BY DEF Send, TypeOK, Transactions, VotesProven

\* A transaction that is executed takes a request no further than its voters.
LEMMA ExecuteVotes ==
  ASSUME TypeOK, VotesProven, NEW tx \in mempool, requests' = Execute(tx)
  PROVE  /\ requests' \in [RequestIds -> Request]
         /\ \A id \in RequestIds :
              /\ requests'[id].voters \subseteq Proven(id)
              /\ requests'[id].status = "COUNTED" => Agreed(requests', id)
<1>1. /\ tx.op \in {"addRequest", "voteRequest", "countVote"}
      /\ tx.id \in RequestIds /\ tx.from \in Validators
  BY DEF TypeOK, Transactions
<1>2. CASE tx.op = "addRequest"
  BY <1>1, <1>2 DEF Execute, addRequest, isAvailable, TypeOK, Request, RequestStatus,
       VotesProven, Agreed
<1>3. CASE tx.op = "voteRequest"
  <2>1. tx.from \in Proven(tx.id)
    BY <1>3 DEF VotesProven
  <2>2. requests' = voteRequest(requests, tx.id, tx.from)
    BY <1>3 DEF Execute
  <2>3. CASE requests[tx.id].status # "REQUESTED"
    BY <2>2, <2>3 DEF voteRequest, TypeOK, VotesProven
  <2>4. CASE requests[tx.id].status = "REQUESTED"
    <3>1. requests' = [requests EXCEPT ![tx.id].voters = @ \union {tx.from}]
      BY <2>2, <2>4 DEF voteRequest
    <3>2. requests' \in [RequestIds -> Request]
      BY <1>1, <3>1 DEF TypeOK, Request
    <3>3. /\ requests'[tx.id].status = "REQUESTED"
          /\ requests'[tx.id].voters = requests[tx.id].voters \union {tx.from}
          /\ \A id \in RequestIds : id # tx.id => requests'[id] = requests[id]
      BY <1>1, <2>4, <3>1 DEF TypeOK, Request
    <3> QED
      BY <1>1, <2>1, <3>2, <3>3 DEF VotesProven, Agreed
  <2> QED
    BY <2>3, <2>4
<1>4. CASE tx.op = "countVote"
  <2>1. requests' = countVote(requests, tx.id)
    BY <1>4 DEF Execute
  <2>2. CASE canCountVote(requests, tx.id) # 1
    BY <2>1, <2>2 DEF countVote, TypeOK, VotesProven
  <2>3. CASE canCountVote(requests, tx.id) = 1
    <3>1. Agreed(requests, tx.id)
      BY <2>3 DEF canCountVote
    <3>2. requests' = [requests EXCEPT ![tx.id].status = "COUNTED"]
      BY <2>1, <2>3 DEF countVote
    <3>3. requests' \in [RequestIds -> Request]
      BY <1>1, <3>2 DEF TypeOK, Request, RequestStatus
    <3>4. \A id \in RequestIds :
            /\ requests'[id].voters = requests[id].voters
            /\ id # tx.id => requests'[id] = requests[id]
      BY <1>1, <3>2 DEF TypeOK, Request
    <3> QED
      BY <1>1, <3>1, <3>3, <3>4 DEF VotesProven, Agreed
  <2> QED
    BY <2>2, <2>3
<1> QED
  BY <1>1, <1>2, <1>3, <1>4

LEMMA VotesKept ==
  ASSUME TypeOK, RowsProven, VotesProven, Next
  PROVE  /\ mempool' \subseteq Transactions
         /\ requests' \in [RequestIds -> Request]
         /\ VotesProven'
<1> DEFINE Kept == /\ mempool' \subseteq Transactions
                   /\ requests' \in [RequestIds -> Request]
                   /\ VotesProven'
<1>1. \A id : Proven(id) \subseteq Proven(id)'
  BY Growth, ProvenGrows
<1>2. ASSUME mempool' \subseteq Transactions,
             \A tx \in mempool' : tx.op = "voteRequest" => tx.from \in Proven(tx.id),
             requests' \in [RequestIds -> Request],
             \A id \in RequestIds :
               /\ requests'[id].voters \subseteq Proven(id)
               /\ requests'[id].status = "COUNTED" => Agreed(requests', id)
      PROVE  Kept
  BY <1>1, <1>2 DEF VotesProven, Agreed
<1>3. ASSUME mempool' \subseteq mempool, requests' = requests
      PROVE  Kept
  BY <1>2, <1>3 DEF VotesProven, TypeOK
<1> HIDE DEF Kept
<1> USE DEF stored
<1>4. CASE Clients
  <2>1. ASSUME NEW n \in Validators, NEW id \in RequestIds, PostRequest(n, id)
        PROVE  mempool' = mempool /\ requests' = requests
    BY <2>1 DEF PostRequest
  <2>2. ASSUME NEW n \in Validators, NEW id \in RequestIds, NEW code \in CodeStrings,
               PostSubmit(n, id, code)
        PROVE  mempool' = mempool /\ requests' = requests
    BY <2>2 DEF PostSubmit
  <2>3. mempool' = mempool /\ requests' = requests
    BY <1>4, <2>1, <2>2 DEF Clients
  <2> QED
    BY <1>3, <2>3 DEF Kept
<1>5. CASE Environment
  <2>1. ASSUME NEW tx \in mempool, Mine(tx)
        PROVE  Kept
    <3>1. mempool' \subseteq mempool /\ requests' = Execute(tx)
      BY <2>1 DEF Mine
    <3>2. /\ requests' \in [RequestIds -> Request]
          /\ \A id \in RequestIds :
               /\ requests'[id].voters \subseteq Proven(id)
               /\ requests'[id].status = "COUNTED" => Agreed(requests', id)
      BY <3>1, ExecuteVotes
    <3> QED
      BY <1>2, <3>1, <3>2 DEF VotesProven, TypeOK
  <2>2. ASSUME NEW tx \in mempool, Drop(tx)
        PROVE  Kept
    <3>1. mempool' \subseteq mempool /\ requests' = requests
      BY <2>2 DEF Drop
    <3> QED
      BY <1>3, <3>1
  <2>3. ASSUME NEW m \in wire, Deliver(m) \/ Lose(m)
        PROVE  Kept
    <3>1. mempool' = mempool /\ requests' = requests
      BY <2>3 DEF Deliver, Lose
    <3> QED
      BY <1>3, <3>1
  <2>4. ASSUME Tick \/ \E n \in Validators : Crash(n)
        PROVE  Kept
    <3>1. mempool' = mempool /\ requests' = requests
      BY <2>4 DEF Tick, Crash
    <3> QED
      BY <1>3, <3>1
  <2> QED
    BY <1>5, <2>1, <2>2, <2>3, <2>4 DEF Environment, Kept
<1>6. ASSUME NEW n \in Validators, Node(n)
      PROVE  Kept
  <2>1. ASSUME NEW id \in RequestIds,
               NEW op \in {"addRequest", "voteRequest", "countVote"}, Send(n, op, id),
               op = "voteRequest" => n \in Proven(id), requests' = requests
        PROVE  Kept
    <3>1. /\ mempool' \subseteq Transactions
          /\ \A tx \in mempool' : tx.op = "voteRequest" => tx.from \in Proven(tx.id)
      BY <2>1, SendVotes
    <3> QED
      BY <1>2, <2>1, <3>1 DEF VotesProven, TypeOK
  <2>2. ASSUME NEW id \in RequestIds, Register(n, id)
        PROVE  Kept
    BY <2>1, <2>2 DEF Register
  <2>3. ASSUME NEW id \in RequestIds, Vote(n, id)
        PROVE  Kept
    <3>1. n \in Proven(id)
      BY <2>3, RowIsProven DEF Vote, Takes
    <3> QED
      BY <2>1, <2>3, <3>1 DEF Vote
  <2>4. ASSUME NEW id \in RequestIds, Count(n, id)
        PROVE  Kept
    <3>1. CASE Send(n, "countVote", id)
      BY <2>1, <2>4, <3>1 DEF Count
    <3>2. CASE UNCHANGED mempool
      BY <1>3, <2>4, <3>2 DEF Count
    <3> QED
      BY <2>4, <3>1, <3>2 DEF Count
  <2>5. CASE \/ \E id \in RequestIds : TakeBroadcast(n, id)
             \/ SendBroadcast(n) \/ EndBroadcast(n)
             \/ SendPhone(n) \/ WriteSendCode(n) \/ MarkSent(n)
             \/ StartUp(n) \/ EndPeriod(n) \/ SendSubmit(n) \/ EndSubmit(n)
    <3>1. mempool' = mempool /\ requests' = requests
      BY <2>5 DEF TakeBroadcast, SendBroadcast, EndBroadcast, SendPhone, WriteSendCode,
           MarkSent, StartUp, EndPeriod, SendSubmit, EndSubmit
    <3> QED
      BY <1>3, <3>1
  <2> QED
    BY <1>6, <2>2, <2>3, <2>4, <2>5 DEF Node, JobStep
<1> QED
  BY <1>4, <1>5, <1>6 DEF Next, Kept

-----------------------------------------------------------------------------
(* The invariant, and what it is for.                                      *)

LEMMA InitialInv == Init => IndInv
<1> SUFFICES ASSUME Init PROVE IndInv
  OBVIOUS
<1>1. createTables \in Tables /\ \A id \in RequestIds : createTables[id] = Absent
  BY DEF createTables, Tables
<1>2. Idle \in Works /\ Idle.pc = "idle"
  BY DEF Idle, Works
<1>3. [status |-> "INVALID", voters |-> {}] \in Request
  BY DEF Request, RequestStatus
<1>4. TypeOK
  BY <1>1, <1>2, <1>3, NetworkAssumption DEF Init, TypeOK
<1>5. RowsProven
  BY <1>1 DEF Init, RowsProven
<1>6. WorkTexted /\ SnapshotHolds
  BY <1>2 DEF Init, WorkTexted, SnapshotHolds, Texting
<1>7. SubmitsPresented /\ Waiting
  BY DEF Init, SubmitsPresented, Waiting
<1>8. VotesProven
  BY DEF Init, VotesProven
<1> QED
  BY <1>4, <1>5, <1>6, <1>7, <1>8 DEF IndInv

\* The variables that carry no argument.
LEMMA OthersKept ==
  ASSUME TypeOK, WorkTexted, Next
  PROVE  /\ clock' \in Nat /\ tries' \in Nat /\ crashes' \in Nat /\ faults' \in Nat
         /\ known' \subseteq Validators
         /\ active' \in [Validators -> SUBSET Validators]
         /\ posted' \subseteq RequestIds
         /\ texted' \subseteq Texts
         /\ presented' \subseteq Answers
<1> USE DEF TypeOK, peers, bounds, history, NoFault, Fault
<1>1. CASE Clients
  <2>1. ASSUME NEW n \in Validators, NEW id \in RequestIds, NEW code \in CodeStrings,
               PostSubmit(n, id, code)
        PROVE  presented' \subseteq Answers
    <3>1. \A v \in Validators : code[v] \in Codes \union {NoCode}
      BY NetworkAssumption
    <3>2. presented' = presented \union
            {[to |-> v, id |-> id, code |-> code[v], time |-> clock] : v \in Validators}
      BY <2>1 DEF PostSubmit
    <3>3. \A a \in {[to |-> v, id |-> id, code |-> code[v], time |-> clock] : v \in Validators} :
            a \in Answers
      BY <3>1 DEF Answers
    <3> QED
      BY <3>2, <3>3
  <2>2. UNCHANGED <<clock, crashes, faults, peers, texted>>
    BY <1>1 DEF Clients, PostRequest, PostSubmit
  <2>3. tries' \in Nat /\ posted' \subseteq RequestIds
    BY <1>1 DEF Clients, PostRequest, PostSubmit
  <2>4. presented' \subseteq Answers
    BY <1>1, <2>1 DEF Clients, PostRequest
  <2> QED
    BY <2>2, <2>3, <2>4
<1>2. CASE Environment
  <2>1. ASSUME NEW m \in wire, Deliver(m) \/ Lose(m)
        PROVE  active' \in [Validators -> SUBSET Validators]
    <3>1. \/ active' = active
          \/ active' = [active EXCEPT ![m.from] = @ \ {m.to}]
      BY <2>1 DEF Deliver, Lose, Return
    <3> QED
      BY <3>1
  <2>2. ASSUME NEW n \in Validators, Crash(n)
        PROVE  active' \in [Validators -> SUBSET Validators]
    BY <2>2 DEF Crash
  <2>3. active' \in [Validators -> SUBSET Validators]
    BY <1>2, <2>1, <2>2 DEF Environment, Mine, Drop, Tick
  <2>4. UNCHANGED <<posted, texted, presented>> /\ known' \subseteq known
    <3>1. ASSUME NEW m \in wire, Deliver(m) \/ Lose(m)
          PROVE  UNCHANGED <<posted, texted, presented, known>>
      BY <3>1 DEF Deliver, Lose
    <3>2. ASSUME NEW tx \in mempool, Mine(tx) \/ Drop(tx)
          PROVE  UNCHANGED <<posted, texted, presented, known>>
      BY <3>2 DEF Mine, Drop
    <3>3. ASSUME Tick
          PROVE  UNCHANGED <<posted, texted, presented, known>>
      BY <3>3 DEF Tick
    <3>4. ASSUME NEW n \in Validators, Crash(n)
          PROVE  UNCHANGED <<posted, texted, presented>> /\ known' \subseteq known
      BY <3>4 DEF Crash
    <3> QED
      BY <1>2, <3>1, <3>2, <3>3, <3>4 DEF Environment
  <2>5. clock' \in Nat /\ tries' \in Nat /\ crashes' \in Nat /\ faults' \in Nat
    <3>1. ASSUME NEW m \in wire, Deliver(m) \/ Lose(m)
          PROVE  UNCHANGED <<clock, tries, crashes>> /\ faults' \in Nat
      <4>1. UNCHANGED clock
        BY <3>1 DEF Deliver, Lose
      <4>2. NoFault \/ Fault
        BY <3>1 DEF Deliver, Lose
      <4> QED
        BY <4>1, <4>2
    <3>2. ASSUME NEW tx \in mempool, Mine(tx) \/ Drop(tx)
          PROVE  UNCHANGED <<clock, tries, crashes>> /\ faults' \in Nat
      BY <3>2 DEF Mine, Drop
    <3>3. ASSUME Tick
          PROVE  clock' \in Nat /\ UNCHANGED <<tries, crashes, faults>>
      BY <3>3 DEF Tick
    <3>4. ASSUME NEW n \in Validators, Crash(n)
          PROVE  crashes' \in Nat /\ UNCHANGED <<clock, tries, faults>>
      BY <3>4 DEF Crash
    <3> QED
      BY <1>2, <3>1, <3>2, <3>3, <3>4 DEF Environment
  <2> QED
    BY <2>3, <2>4, <2>5
<1>3. ASSUME NEW n \in Validators, Node(n)
      PROVE  /\ clock' \in Nat /\ tries' \in Nat /\ crashes' \in Nat /\ faults' \in Nat
             /\ known' \subseteq Validators
             /\ active' \in [Validators -> SUBSET Validators]
             /\ UNCHANGED <<posted, presented>>
             /\ texted' \subseteq Texts
  <2>1. CASE SendPhone(n)
    <3>1. work[n].id \in RequestIds
      BY <2>1 DEF SendPhone, WorkTexted
    <3> DEFINE New(code) == [from |-> n, id |-> work[n].id, code |-> code,
                             expire |-> clock + CodeLifetime]
    <3>2. \/ texted' = texted
          \/ \E code \in Codes : texted' = texted \union {New(code)}
      BY <2>1 DEF SendPhone
    <3>3. \A code \in Codes : New(code) \in Texts
      BY <3>1, NetworkAssumption DEF Texts
    <3>4. texted' \subseteq Texts
      BY <3>2, <3>3
    <3> QED
      BY <2>1, <3>4 DEF SendPhone
  <2>2. CASE StartUp(n) \/ EndPeriod(n)
    BY <2>2 DEF StartUp, EndPeriod, Check
  <2>3. CASE \/ \E id \in RequestIds : \/ Register(n, id) \/ TakeBroadcast(n, id)
                                       \/ Vote(n, id) \/ Count(n, id)
             \/ SendBroadcast(n) \/ EndBroadcast(n) \/ WriteSendCode(n) \/ MarkSent(n)
             \/ SendSubmit(n) \/ EndSubmit(n)
    BY <2>3 DEF Register, TakeBroadcast, Vote, Count, Send, SendBroadcast, EndBroadcast,
         WriteSendCode, MarkSent, SendSubmit, EndSubmit
  <2> QED
    BY <1>3, <2>1, <2>2, <2>3 DEF Node, JobStep
<1> QED
  BY <1>1, <1>2, <1>3 DEF Next

LEMMA NextInv == IndInv /\ [Next]_vars => IndInv'
<1> SUFFICES ASSUME IndInv, [Next]_vars PROVE IndInv'
  OBVIOUS
<1>1. CASE UNCHANGED vars
  BY <1>1 DEF vars, stored, peers, bounds, history, IndInv, TypeOK, RowsProven, RowProven,
       WorkTexted, SnapshotHolds, Texting, SubmitsPresented, Brought, Waiting, VotesProven,
       Proven, InTime, Text, Agreed
<1>2. CASE Next
  <2>1. /\ TypeOK /\ RowsProven /\ WorkTexted /\ SnapshotHolds /\ SubmitsPresented
        /\ Waiting /\ VotesProven
    BY DEF IndInv
  <2>2. validation' \in [Validators -> Tables] /\ RowsProven'
    BY <2>1, TablesKept
  <2>3. work' \in [Validators -> Works] /\ WorkTexted'
    BY <1>2, <2>1, WorkKept
  <2>4. /\ submits' \in [Validators -> SubmitCalls \union {Absent}]
        /\ wire' \subseteq Messages
        /\ SubmitsPresented'
    BY <1>2, <2>1, SubmitsKept
  <2>5. Waiting'
    BY <1>2, <2>1, WaitingKept
  <2>6. mempool' \subseteq Transactions /\ requests' \in [RequestIds -> Request] /\ VotesProven'
    BY <1>2, <2>1, VotesKept
  <2>8. SnapshotHolds'
    BY <1>2, <2>1, SnapshotKept
  <2>7. TypeOK'
    BY <1>2, <2>1, <2>2, <2>3, <2>4, <2>6, OthersKept DEF TypeOK
  <2> QED
    BY <2>2, <2>3, <2>4, <2>5, <2>6, <2>7, <2>8 DEF IndInv
<1> QED
  BY <1>1, <1>2

\* Whatever a node, a call or a transaction carries towards a vote goes back to
\* a code that was sent and came back, in networks of any size.
THEOREM VotesGoBackToCodes == Spec => []IndInv
<1>1. Init => IndInv
  BY InitialInv
<1>2. IndInv /\ [Next]_vars => IndInv'
  BY NextInv
<1> QED
  BY <1>1, <1>2, PTL DEF Spec

\* A phone number is linked only after every member of a quorum has sent it a
\* code that came back.
THEOREM LinksAreProven == Spec => []LinkNeedsCodes
<1>1. IndInv => LinkNeedsCodes
  BY DEF IndInv, VotesProven, Agreed, LinkNeedsCodes
<1> QED
  BY <1>1, VotesGoBackToCodes, PTL

-----------------------------------------------------------------------------
(* What is posted, and the order of the texts of a node.                   *)

\* The calls, after a step.
LEMMA WireStep ==
  ASSUME TypeOK, Next, NEW c \in wire'
  PROVE  \/ c.op = "broadcastSubmit"
         \/ \E m \in wire : c.id = m.id
         \/ \E n \in Validators : work[n].pc = "broadcast" /\ c.id = work[n].id
<1> DEFINE Goal == \/ c.op = "broadcastSubmit"
                   \/ \E m \in wire : c.id = m.id
                   \/ \E n \in Validators : work[n].pc = "broadcast" /\ c.id = work[n].id
<1>1. ASSUME c \in wire
      PROVE  Goal
  BY <1>1
<1> HIDE DEF Goal
<1>2. CASE Clients
  <2>1. UNCHANGED wire
    BY <1>2 DEF Clients, PostRequest, PostSubmit
  <2> QED
    BY <1>1, <2>1 DEF Goal
<1>3. CASE Environment
  <2>1. ASSUME NEW n \in Validators, Crash(n)
        PROVE  Goal
    <3>1. PICK m \in wire : c = m \/ c = [m EXCEPT !.waits = FALSE]
      BY <2>1 DEF Crash, Orphan
    <3>2. [m EXCEPT !.waits = FALSE].id = m.id
      BY CallParts DEF Messages
    <3> QED
      BY <3>1, <3>2 DEF Goal
  <2>2. ASSUME \A n \in Validators : ~Crash(n)
        PROVE  wire' \subseteq wire
    BY <1>3, <2>2 DEF Environment, Deliver, Lose, Mine, Drop, Tick
  <2> QED
    BY <1>1, <2>1, <2>2 DEF Goal
<1>4. ASSUME NEW n \in Validators, Node(n)
      PROVE  Goal
  <2>1. CASE SendSubmit(n)
    <3>1. PICK v \in submits[n].todo :
            wire' = wire \union {[op |-> "broadcastSubmit", from |-> n, waits |-> TRUE,
                                  to |-> v, id |-> submits[n].id, code |-> submits[n].code]}
      BY <2>1 DEF SendSubmit
    <3> QED
      BY <1>1, <3>1 DEF Goal
  <2>2. CASE SendBroadcast(n)
    <3>1. PICK v \in work[n].todo :
            wire' = wire \union {[op |-> "broadcast", from |-> n, waits |-> TRUE, to |-> v,
                                  id |-> work[n].id]}
      BY <2>2 DEF SendBroadcast
    <3> QED
      BY <1>1, <2>2, <3>1 DEF Goal, SendBroadcast
  <2>3. CASE ~SendSubmit(n) /\ ~SendBroadcast(n)
    <3>1. UNCHANGED wire
      BY <1>4, <2>3 DEF Node, JobStep, Register, TakeBroadcast, EndBroadcast, SendPhone,
         WriteSendCode, MarkSent, Vote, Count, StartUp, EndPeriod, EndSubmit
    <3> QED
      BY <1>1, <3>1 
  <2> QED
    BY <2>1, <2>2, <2>3
<1> QED
  BY <1>2, <1>3, <1>4 DEF Next, Goal

LEMMA PostedKept ==
  ASSUME IndInv, IndInv', OnlyPosted, Next
  PROVE  OnlyPosted'
<1> USE DEF IndInv
<1>1. posted \subseteq posted'
  BY Growth
<1>2. ASSUME NEW n \in Validators, NEW id \in RequestIds, validation'[n][id] # Absent
      PROVE  id \in posted'
  <2>1. KeepsCode(n, id) \/ WritesCode(n, id) => id \in posted'
    BY <1>1 DEF KeepsCode, WritesCode, OnlyPosted
  <2>2. IsNew(n, id) => id \in posted'
    BY <1>1 DEF IsNew, OnlyPosted
  <2> QED
    BY <1>2, <2>1, <2>2, RowStep
<1>3. ASSUME NEW n \in Validators, work'[n].pc # "idle"
      PROVE  work'[n].id \in posted'
  <2>1. Begins(n) => work'[n].id \in posted'
    BY <1>1 DEF Begins, OnlyPosted
  <2>2. GoesOn(n) \/ TextsCode(n) => work'[n].id \in posted'
    BY <1>1, <1>3 DEF GoesOn, TextsCode, OnlyPosted
  <2> QED
    BY <1>3, <2>1, <2>2, WorkStep
<1>4. ASSUME NEW a \in presented'
      PROVE  a.id \in posted'
  <2>1. CASE a \in presented
    BY <1>1, <2>1 DEF OnlyPosted
  <2>2. CASE \E n \in Validators, id \in RequestIds, code \in CodeStrings : PostSubmit(n, id, code)
    <3>1. PICK n \in Validators, id \in RequestIds, code \in CodeStrings : PostSubmit(n, id, code)
      BY <2>2
    <3> QED
      BY <1>1, <1>4, <2>1, <3>1 DEF PostSubmit
  <2>3. ASSUME ~\E n \in Validators, id \in RequestIds, code \in CodeStrings : PostSubmit(n, id, code)
        PROVE  UNCHANGED presented
    <3>1. Clients => UNCHANGED presented
      BY <2>3 DEF Clients, PostRequest
    <3>2. Environment => UNCHANGED presented
      BY DEF Environment, Deliver, Lose, Mine, Drop, Tick, Crash, history
    <3>3. ASSUME NEW n \in Validators, Node(n)
          PROVE  UNCHANGED presented
      BY <3>3 DEF Node, JobStep, Register, TakeBroadcast, SendBroadcast, EndBroadcast,
         SendPhone, WriteSendCode, MarkSent, Vote, Count, StartUp, EndPeriod, SendSubmit,
         EndSubmit, history
    <3> QED
      BY <3>1, <3>2, <3>3 DEF Next
  <2> QED
    BY <1>4, <2>1, <2>2, <2>3
<1>5. ASSUME NEW c \in wire'
      PROVE  c.id \in posted'
  <2>1. CASE c.op = "broadcastSubmit"
    <3>1. c.to \in Validators
      BY DEF TypeOK, Messages
    <3>2. Brought(c.to, c.id, c.code[c.to])'
      BY <2>1, <3>1 DEF SubmitsPresented
    <3> QED
      BY <1>4, <3>2 DEF Brought
  <2>2. CASE \E m \in wire : c.id = m.id
    BY <1>1, <2>2 DEF OnlyPosted
  <2>3. CASE \E n \in Validators : work[n].pc = "broadcast" /\ c.id = work[n].id
    BY <1>1, <2>3 DEF OnlyPosted
  <2> QED
    BY <2>1, <2>2, <2>3, WireStep
<1> QED
  BY <1>2, <1>3, <1>4, <1>5 DEF OnlyPosted

\* A text message is sent by the job that has come to it.
LEMMA TextStep ==
  ASSUME TypeOK, WorkTexted, Next, NEW t \in texted', t \notin texted
  PROVE  /\ t.from \in Validators
         /\ TextsCode(t.from)
         /\ t = Text(t.from, work[t.from].id, work'[t.from].data)
<1>1. PICK n \in Validators : SendPhone(n) /\ work[n].data.validationStatus = "NONE"
  <2>1. Clients \/ Environment => UNCHANGED texted
    BY DEF Clients, PostRequest, PostSubmit, Environment, Deliver, Lose, Mine, Drop, Tick,
       Crash, history
  <2>2. PICK n \in Validators : Node(n)
    BY <2>1 DEF Next
  <2>3. ~SendPhone(n) => UNCHANGED texted
    BY <2>2 DEF Node, JobStep, Register, TakeBroadcast, SendBroadcast, EndBroadcast,
       WriteSendCode, MarkSent, Vote, Count, StartUp, EndPeriod, SendSubmit, EndSubmit,
       history
  <2> QED
    BY <2>3 DEF SendPhone
<1>2. TextsCode(n)
  BY <1>1, PhoneStep
<1>3. t = Text(n, work[n].id, work'[n].data)
  BY <1>2 DEF TextsCode
<1>4. t.from = n
  BY <1>3 DEF Text
<1> QED
  BY <1>2, <1>3, <1>4

LEMMA LastTextKept ==
  ASSUME IndInv, IndInv', LastTextNoted, Next
  PROVE  LastTextNoted'
<1> USE DEF IndInv
<1>1. clock \in Nat /\ clock' \in Nat /\ clock <= clock' /\ CodeLifetime \in Nat
  BY Growth, NetworkAssumption DEF TypeOK
<1> SUFFICES ASSUME NEW t \in texted'
    PROVE  /\ t.expire <= clock' + CodeLifetime
           /\ validation'[t.from][t.id] # Absent =>
                \/ validation'[t.from][t.id].sendCode = NoCode
                \/ t.expire <= validation'[t.from][t.id].expire
           /\ work'[t.from].pc = "updateSendCode" /\ work'[t.from].id = t.id =>
                t.expire <= work'[t.from].data.expire
  BY DEF LastTextNoted
<1> DEFINE n == t.from
           id == t.id
<1>2. t \in Texts /\ n \in Validators /\ id \in RequestIds /\ t.expire \in Nat
  BY DEF TypeOK, Texts
<1>3. CASE t \notin texted
  <2>1. TextsCode(n) /\ t = Text(n, work[n].id, work'[n].data)
    BY <1>3, TextStep
  <2>2. /\ t.id = work[n].id /\ t.expire = work'[n].data.expire
        /\ work'[n].data.expire = clock + CodeLifetime
        /\ clock' = clock /\ work'[n].id = work[n].id
        /\ work'[n].pc = "updateSendCode"
    BY <2>1 DEF Text, TextsCode
  <2>3. Texting(n)'
    BY <2>2 DEF Texting
  <2>4. validation'[n][id] # Absent => validation'[n][id].sendCode = NoCode
    BY <1>2, <2>2, <2>3 DEF SnapshotHolds
  <2> HIDE DEF n, id
  <2>5. t.expire <= work'[n].data.expire /\ t.expire <= clock' + CodeLifetime
    BY <1>1, <1>2, <2>2
  <2> QED
    BY <2>4, <2>5 DEF n, id
<1>4. CASE t \in texted
  <2>1. /\ t.expire <= clock + CodeLifetime
        /\ validation[n][id] # Absent =>
             validation[n][id].sendCode = NoCode \/ t.expire <= validation[n][id].expire
        /\ work[n].pc = "updateSendCode" /\ work[n].id = id => t.expire <= work[n].data.expire
    BY <1>4 DEF LastTextNoted
  <2>2. t.expire <= clock' + CodeLifetime
    BY <1>1, <1>2, <2>1
  <2>3. ASSUME validation'[n][id] # Absent, validation'[n][id].sendCode # NoCode
        PROVE  t.expire <= validation'[n][id].expire
    <3>1. KeepsCode(n, id) \/ WritesCode(n, id)
      <4>1. KeepsCode(n, id) \/ IsNew(n, id) \/ WritesCode(n, id)
        BY <1>2, <2>3, RowStep
      <4> QED
        BY <2>3, <4>1 DEF IsNew
    <3> QED
      BY <2>1, <2>3, <3>1 DEF KeepsCode, WritesCode
  <2>4. ASSUME work'[n].pc = "updateSendCode", work'[n].id = id
        PROVE  t.expire <= work'[n].data.expire
    <3>1. GoesOn(n) \/ TextsCode(n)
      <4>1. ~Begins(n)
        BY <2>4 DEF Begins
      <4> QED
        BY <1>2, <2>4, <4>1, WorkStep
    <3> QED
      BY <2>1, <2>4, <3>1 DEF GoesOn, TextsCode
  <2> QED
    BY <2>2, <2>3, <2>4
<1> QED
  BY <1>3, <1>4

LEMMA NextMapping == IndInv /\ IndInv' /\ MappingInv /\ [Next]_vars => MappingInv'
<1> SUFFICES ASSUME IndInv, IndInv', MappingInv, [Next]_vars PROVE MappingInv'
  OBVIOUS
<1>1. CASE UNCHANGED vars
  BY <1>1 DEF vars, stored, history, MappingInv, OnlyPosted, LastTextNoted
<1>2. CASE Next
  BY <1>2, PostedKept, LastTextKept DEF MappingInv
<1> QED
  BY <1>1, <1>2

\* A request is known to a node only if a client has posted it, and of all the
\* codes a node has texted for it, those of jobs that a crash cut off included,
\* none outlives the one its row holds.
THEOREM LastTextIsNoted == Spec => []MappingInv
<1>1. Init => MappingInv
  <2>1. Idle.pc = "idle"
    BY DEF Idle
  <2> QED
    BY <2>1 DEF Init, createTables, MappingInv, OnlyPosted, LastTextNoted
<1>2. IndInv /\ IndInv' /\ MappingInv /\ [Next]_vars => MappingInv'
  BY NextMapping
<1> QED
  BY <1>1, <1>2, VotesGoBackToCodes, PTL DEF Spec

-----------------------------------------------------------------------------
(* The promise that each node keeps: what it sees of a state.              *)

Keeps(n) == UNCHANGED Promise(n)!request \/ Promise(n)!Next

LEMMA KeptIfUnseen ==
  ASSUME NEW n, UNCHANGED <<TextsNow[n], BroughtNow[n], BallotsNow[n], VotersNow, ClosedNow[n]>>
  PROVE  Keeps(n)
BY DEF Keeps, Promise!request

\* A row is known to the promise, texted once it has its code, and late once
\* that code has expired.
LEMMA SeenRow ==
  ASSUME TypeOK, NEW n \in Validators, NEW id \in RequestIds
  PROVE  LET row == validation[n][id] IN
         /\ Promise(n)!Known(id) <=> row # Absent
         /\ Promise(n)!Texted(id) <=> row # Absent /\ row.sendCode # NoCode
         /\ Promise(n)!Late(id) <=> row # Absent /\ row.sendCode # NoCode /\ row.expire <= clock
         /\ row # Absent /\ row.sendCode # NoCode /\ InTime(n, id, row.sendCode)
              => Promise(n)!Proven(id)
<1> DEFINE row == validation[n][id]
           late == row.sendCode # NoCode /\ row.expire <= clock
<1>1. TextsNow[n][id] = TextOf(row)
  BY DEF TextsNow
<1>2. ASSUME row # Absent
      PROVE  /\ TextOf(row) # Absent
             /\ TextOf(row).code = row.sendCode
             /\ TextOf(row).late = late
             /\ row.sendCode \in Codes \union {NoCode}
  <2>1. TextOf(row) = [code |-> row.sendCode, late |-> late]
    BY <1>2 DEF TextOf
  <2>2. row.sendCode \in Codes \union {NoCode}
    BY <1>2 DEF TypeOK, Tables, ValidationData
  <2>3. late \in BOOLEAN
    OBVIOUS
  <2> HIDE DEF late
  <2> QED
    BY <2>1, <2>2, <2>3, AbsentTextAssumption
<1> HIDE DEF row
<1>3. Promise(n)!Known(id) <=> row # Absent
  BY <1>1, <1>2 DEF Promise!Known, TextOf
<1>4. Promise(n)!Texted(id) <=> row # Absent /\ row.sendCode # NoCode
  BY <1>1, <1>2, <1>3 DEF Promise!Texted
<1>5. Promise(n)!Late(id) <=> row # Absent /\ late
  BY <1>1, <1>2, <1>4 DEF Promise!Late
<1>6. ASSUME row # Absent, row.sendCode # NoCode, InTime(n, id, row.sendCode)
      PROVE  Promise(n)!Proven(id)
  <2>1. TextsNow[n][id].code = row.sendCode /\ row.sendCode \in Codes
    BY <1>1, <1>2, <1>6
  <2>2. <<id, row.sendCode>> \in BroughtNow[n]
    BY <1>6, <2>1 DEF BroughtNow
  <2> QED
    BY <1>4, <1>6, <2>1, <2>2 DEF Promise!Proven
<1> QED
  BY <1>3, <1>4, <1>5, <1>6 DEF row

\* The promise sees the votes of the contract.
LEMMA SeenVotes ==
  ASSUME NEW n, NEW id \in RequestIds
  PROVE  Promise(n)!Agreed(id) <=> Agreed(requests, id)
BY DEF Promise!Agreed, VotersNow, Agreed

LEMMA SameHistory ==
  ASSUME UNCHANGED <<texted, presented>>
  PROVE  UNCHANGED BroughtNow
BY DEF BroughtNow, InTime

LEMMA SameChain ==
  /\ UNCHANGED mempool => UNCHANGED BallotsNow
  /\ UNCHANGED requests => UNCHANGED VotersNow
BY DEF BallotsNow, VotersNow

\* The table of a node that makes no step.
LEMMA SameTable ==
  ASSUME NEW n \in Validators, validation'[n] = validation[n], UNCHANGED clock
  PROVE  UNCHANGED <<TextsNow[n], ClosedNow[n]>>
BY DEF TextsNow, TextOf, ClosedNow

\* What a table shows that keeps its codes.
LEMMA SameTexts ==
  ASSUME NEW n \in Validators, SameCodes(validation[n], validation'[n]), UNCHANGED clock
  PROVE  UNCHANGED TextsNow[n]
<1>1. \A id \in RequestIds : TextOf(validation[n][id])' = TextOf(validation[n][id])
  BY DEF SameCodes, TextOf
<1> QED
  BY <1>1 DEF TextsNow

\* A request that is closed has been proven.
LEMMA ClosedIsProven ==
  ASSUME TypeOK, RowsProven, NEW n \in Validators, NEW id \in ClosedNow[n]
  PROVE  id \in RequestIds /\ Promise(n)!Proven(id)
<1>1. /\ id \in RequestIds
      /\ validation[n][id] # Absent
      /\ validation[n][id].processStep = "FINISHED"
  BY DEF ClosedNow
<1>2. validation[n][id].sendCode # NoCode /\ InTime(n, id, validation[n][id].sendCode)
  BY <1>1 DEF RowsProven, RowProven
<1> QED
  BY <1>1, <1>2, SeenRow

-----------------------------------------------------------------------------
(* The steps, seen by any node.                                            *)

\* All that becomes of the table of v is that the row of id may be at a step
\* again that is not its last.
Opens(v, id) ==
  /\ \A u \in Validators : u # v => validation'[u] = validation[u]
  /\ SameCodes(validation[v], validation'[v])
  /\ \A i \in RequestIds :
       validation[v][i] # Absent =>
         \/ validation'[v][i].processStep = validation[v][i].processStep
         \/ i = id /\ validation'[v][i].processStep # "FINISHED"

LEMMA KeptByOpening ==
  ASSUME TypeOK, RowsProven, NEW n \in Validators, NEW v \in Validators, NEW id \in RequestIds,
         Opens(v, id), UNCHANGED <<clock, requests, BallotsNow[n], texted, presented>>
  PROVE  Keeps(n)
<1>1. UNCHANGED <<VotersNow, BroughtNow[n]>>
  BY SameChain, SameHistory
<1>2. CASE n # v
  <2>1. UNCHANGED <<TextsNow[n], ClosedNow[n]>>
    BY <1>2, SameTable DEF Opens
  <2> QED
    BY <1>1, <2>1, KeptIfUnseen
<1>3. CASE n = v
  <2>1. UNCHANGED TextsNow[n]
    BY <1>3, SameTexts DEF Opens
  <2>2. \A i \in RequestIds :
          /\ validation'[n][i] = Absent <=> validation[n][i] = Absent
          /\ validation[n][i] # Absent =>
               \/ validation'[n][i].processStep = validation[n][i].processStep
               \/ i = id /\ validation'[n][i].processStep # "FINISHED"
    BY <1>3 DEF Opens, SameCodes
  <2>3. ClosedNow'[n] = ClosedNow[n] \/ ClosedNow'[n] = ClosedNow[n] \ {id}
    BY <2>2 DEF ClosedNow
  <2>4. CASE ClosedNow'[n] = ClosedNow[n]
    BY <1>1, <2>1, <2>4, KeptIfUnseen
  <2>5. CASE ClosedNow'[n] = ClosedNow[n] \ {id} /\ ClosedNow'[n] # ClosedNow[n]
    <3>1. id \in ClosedNow[n]
      BY <2>5
    <3>2. Promise(n)!Proven(id)
      BY <3>1, ClosedIsProven
    <3>3. Promise(n)!Reopen(id)
      BY <1>1, <2>1, <2>5, <3>2 DEF Promise!Reopen
    <3> QED
      BY <3>3 DEF Keeps, Promise!Next
  <2> QED
    BY <2>3, <2>4, <2>5
<1> QED
  BY <1>2, <1>3

LEMMA KeptByInsert ==
  ASSUME TypeOK, NEW n \in Validators, NEW v \in Validators, NEW id \in RequestIds,
         NEW step \in {"RECEIVED_REGISTER", "RECEIVED_BROADCAST"},
         validation[v][id] = Absent,
         validation' = [validation EXCEPT ![v] =
           createValidation(validation[v], id, toValidationData(step))],
         UNCHANGED <<clock, requests, mempool, texted, presented>>
  PROVE  Keeps(n)
<1>1. UNCHANGED <<VotersNow, BroughtNow[n], BallotsNow[n]>>
  BY SameChain, SameHistory
<1>2. CASE n # v
  <2>1. validation'[n] = validation[n]
    BY <1>2 DEF TypeOK
  <2> QED
    BY <1>1, <2>1, SameTable, KeptIfUnseen
<1>3. CASE n = v
  <2> DEFINE row == toValidationData(step)
  <2>1. row # Absent /\ row.sendCode = NoCode /\ row.processStep # "FINISHED"
    BY NewRow DEF ProcessStep
  <2> HIDE DEF row
  <2>2. \A i \in RequestIds : validation'[n][i] = IF i = id THEN row ELSE validation[n][i]
    BY <1>3 DEF createValidation, TypeOK, Tables, row
  <2>3. \A i \in RequestIds :
          TextOf(validation[n][i])' =
            IF i = id THEN Promise(n)!Untexted ELSE TextOf(validation[n][i])
    BY <2>1, <2>2 DEF TextOf, Promise!Untexted
  <2>4. TextsNow'[n] = [TextsNow[n] EXCEPT ![id] = Promise(n)!Untexted]
    BY <2>3 DEF TextsNow
  <2>5. ClosedNow'[n] = ClosedNow[n]
    BY <1>3, <2>1, <2>2 DEF ClosedNow
  <2>6. ~Promise(n)!Known(id)
    BY <1>3, SeenRow
  <2>7. Promise(n)!Store(id)
    BY <1>1, <2>4, <2>5, <2>6 DEF Promise!Store
  <2> QED
    BY <2>7 DEF Keeps, Promise!Next
<1> QED
  BY <1>2, <1>3

\* A client brings codes: what the promise counts came in time for the last
\* text, so the row is not late.
LEMMA KeptByAnswer ==
  ASSUME IndInv, LastTextNoted, NEW n \in Validators, NEW v \in Validators,
         NEW id \in RequestIds, NEW code \in CodeStrings, PostSubmit(v, id, code)
  PROVE  Keeps(n)
<1> USE DEF IndInv
<1> DEFINE InHand(t) == t.from = n /\ t.id = id /\ t.code = code[n] /\ clock < t.expire
           gained == {c \in {code[n]} : c \in Codes /\ \E t \in texted : InHand(t)}
<1>1. UNCHANGED <<TextsNow[n], BallotsNow[n], VotersNow, ClosedNow[n]>>
  BY SameTable, SameChain DEF PostSubmit, stored
<1>2. /\ texted' = texted
      /\ presented' = presented \union
           {[to |-> u, id |-> id, code |-> code[u], time |-> clock] : u \in Validators}
  BY DEF PostSubmit
<1>3. ASSUME NEW i \in RequestIds, NEW c \in Codes
      PROVE  InTime(n, i, c)' <=> InTime(n, i, c) \/ (i = id /\ c \in gained)
  <2>1. InTime(n, i, c) => InTime(n, i, c)'
    BY <1>2 DEF InTime
  <2>2. ASSUME i = id, c \in gained
        PROVE  InTime(n, i, c)'
    <3> DEFINE a == [to |-> n, id |-> id, code |-> code[n], time |-> clock]
    <3>1. a \in presented'
      BY <1>2
    <3>2. PICK t \in texted : InHand(t)
      BY <2>2
    <3> QED
      BY <1>2, <2>2, <3>1, <3>2 DEF InTime
  <2>3. ASSUME InTime(n, i, c)', ~InTime(n, i, c)
        PROVE  i = id /\ c \in gained
    <3>1. PICK t \in texted, a \in presented' :
            /\ t.from = n /\ t.id = i /\ t.code = c
            /\ a.to = n /\ a.id = i /\ a.code = c
            /\ a.time < t.expire
      BY <1>2, <2>3 DEF InTime
    <3>2. a \notin presented
      BY <2>3, <3>1 DEF InTime
    <3>3. a = [to |-> n, id |-> id, code |-> code[n], time |-> clock]
      BY <1>2, <3>1, <3>2
    <3> QED
      BY <3>1, <3>3
  <2> QED
    BY <2>1, <2>2, <2>3
<1>4. BroughtNow'[n] = BroughtNow[n] \union {<<id, c>> : c \in gained}
  <2>1. \A a \in RequestIds \X Codes :
          a \in {<<id, c>> : c \in gained} <=> a[1] = id /\ a[2] \in gained
    OBVIOUS
  <2>2. {<<id, c>> : c \in gained} \subseteq RequestIds \X Codes
    OBVIOUS
  <2>3. \A a \in RequestIds \X Codes :
          InTime(n, a[1], a[2])' <=> InTime(n, a[1], a[2]) \/ (a[1] = id /\ a[2] \in gained)
    BY <1>3
  <2>4. /\ BroughtNow[n] = {a \in RequestIds \X Codes : InTime(n, a[1], a[2])}
        /\ BroughtNow'[n] = {a \in RequestIds \X Codes : InTime(n, a[1], a[2])'}
    BY DEF BroughtNow
  <2> HIDE DEF gained
  <2> QED
    BY <2>1, <2>2, <2>3, <2>4
<1>5. CASE gained = {}
  <2>1. BroughtNow'[n] = BroughtNow[n]
    BY <1>4, <1>5
  <2> QED
    BY <1>1, <2>1, KeptIfUnseen
<1>6. CASE gained # {}
  <2>1. PICK t \in texted : InHand(t)
    BY <1>6
  <2>2. ~Promise(n)!Late(id)
    <3>1. SUFFICES ASSUME validation[n][id] # Absent, validation[n][id].sendCode # NoCode
                   PROVE  ~(validation[n][id].expire <= clock)
      BY SeenRow
    <3>2. t.expire <= validation[n][id].expire /\ clock < t.expire
      BY <2>1, <3>1 DEF LastTextNoted
    <3>3. t.expire \in Nat /\ validation[n][id].expire \in Nat /\ clock \in Nat
      BY <2>1, <3>1 DEF TypeOK, Texts, Tables, ValidationData
    <3> QED
      BY <3>2, <3>3
  <2>3. gained \in SUBSET (Codes \union {NoCode})
    OBVIOUS
  <2> HIDE DEF gained
  <2>4. Promise(n)!Present(id, gained)
    BY <1>1, <1>4, <2>2 DEF Promise!Present
  <2> QED
    BY <2>3, <2>4 DEF Keeps, Promise!Next
<1> QED
  BY <1>5, <1>6

\* A code is texted that a client had guessed: the row has none yet.
LEMMA KeptByText ==
  ASSUME IndInv, NEW n \in Validators, NEW v \in Validators, SendPhone(v)
  PROVE  Keeps(n)
<1> USE DEF IndInv
<1>1. UNCHANGED <<TextsNow[n], BallotsNow[n], VotersNow, ClosedNow[n]>>
  BY SameTable, SameChain DEF SendPhone, stored
<1>2. ASSUME UNCHANGED texted
      PROVE  Keeps(n)
  BY <1>1, <1>2, SameHistory, KeptIfUnseen DEF SendPhone
<1>3. ASSUME work[v].data.validationStatus = "NONE"
      PROVE  Keeps(n)
  <2> DEFINE id == work[v].id
             text == Text(v, id, work'[v].data)
             gained == {c \in {text.code} : c \in Codes /\
                          \E a \in presented : /\ a.to = n /\ a.id = id /\ a.code = c
                                               /\ a.time < text.expire}
  <2>1. /\ work[v].pc = "sendPhone" /\ id \in RequestIds
        /\ texted' = texted \union {text} /\ presented' = presented
    BY <1>3, PhoneStep DEF TextsCode, WorkTexted
  <2>2. text.from = v /\ text.id = id
    BY DEF Text
  <2> HIDE DEF text, id
  <2>3. CASE n # v
    <3>1. \A i, c : InTime(n, i, c)' <=> InTime(n, i, c)
      BY <2>1, <2>2, <2>3 DEF InTime
    <3>2. BroughtNow'[n] = BroughtNow[n]
      BY <3>1 DEF BroughtNow
    <3> QED
      BY <1>1, <3>2, KeptIfUnseen
  <2>4. CASE n = v
    <3>1. ASSUME NEW i \in RequestIds, NEW c \in Codes
          PROVE  InTime(n, i, c)' <=> InTime(n, i, c) \/ (i = id /\ c \in gained)
      BY <2>1, <2>2, <2>4 DEF InTime
    <3>2. BroughtNow'[n] = BroughtNow[n] \union {<<id, c>> : c \in gained}
      <4>1. \A a \in RequestIds \X Codes :
              a \in {<<id, c>> : c \in gained} <=> a[1] = id /\ a[2] \in gained
        OBVIOUS
      <4>2. {<<id, c>> : c \in gained} \subseteq RequestIds \X Codes
        BY <2>1
      <4>3. \A a \in RequestIds \X Codes :
              InTime(n, a[1], a[2])' <=>
                InTime(n, a[1], a[2]) \/ (a[1] = id /\ a[2] \in gained)
        BY <3>1
      <4>4. /\ BroughtNow[n] = {a \in RequestIds \X Codes : InTime(n, a[1], a[2])}
            /\ BroughtNow'[n] = {a \in RequestIds \X Codes : InTime(n, a[1], a[2])'}
        BY DEF BroughtNow
      <4> HIDE DEF gained
      <4> QED
        BY <4>1, <4>2, <4>3, <4>4
    <3>3. Texting(n)
      BY <1>3, <2>1, <2>4 DEF Texting
    <3>4. ~Promise(n)!Late(id)
      BY <2>1, <2>4, <3>3, SeenRow DEF SnapshotHolds, id
    <3>5. gained \in SUBSET (Codes \union {NoCode})
      OBVIOUS
    <3> HIDE DEF gained
    <3>6. Promise(n)!Present(id, gained)
      BY <1>1, <3>2, <3>4 DEF Promise!Present
    <3> QED
      BY <2>1, <3>5, <3>6 DEF Keeps, Promise!Next
  <2> QED
    BY <2>3, <2>4
<1> QED
  BY <1>2, <1>3 DEF SendPhone

LEMMA KeptByCode ==
  ASSUME IndInv, NEW n \in Validators, NEW v \in Validators, WriteSendCode(v)
  PROVE  Keeps(n)
<1> USE DEF IndInv
<1>1. UNCHANGED <<clock, requests, mempool, texted, presented>>
  BY DEF WriteSendCode, history
<1>2. UNCHANGED <<BroughtNow[n], BallotsNow[n], VotersNow>>
  BY <1>1, SameHistory, SameChain
<1>3. PICK id \in RequestIds : id = work[v].id
  BY DEF WriteSendCode, WorkTexted
<1> DEFINE data == work[v].data
           code == data.sendCode
           late == data.expire <= clock
           text == [code |-> code, late |-> late]
           table == updateSendCode(validation[v], id, data)
<1>4. /\ data \in ValidationData /\ code \in Codes /\ late \in BOOLEAN
      /\ validation[v][id] # Absent => validation[v][id].sendCode = NoCode
  BY <1>3 DEF WriteSendCode, WorkTexted, SnapshotHolds, Texting
<1>5. /\ validation[v] \in Tables
      /\ validation' = [validation EXCEPT ![v] = table]
  BY <1>3 DEF WriteSendCode, TypeOK
<1>6. /\ \A i \in RequestIds : (table[i] = Absent) <=> (validation[v][i] = Absent)
      /\ \A i \in RequestIds \ {id} : table[i] = validation[v][i]
      /\ validation[v][id] # Absent =>
           /\ table[id].sendCode = code
           /\ table[id].expire = data.expire
           /\ table[id].processStep = validation[v][id].processStep
  BY <1>4, <1>5, UpdateCode
<1> HIDE DEF table, data
<1>7. validation'[n] = IF n = v THEN table ELSE validation[n]
  BY <1>5 DEF TypeOK
<1>8. CASE n # v
  <2>1. validation'[n] = validation[n]
    BY <1>7, <1>8
  <2> QED
    BY <1>1, <1>2, <2>1, SameTable, KeptIfUnseen
<1>9. CASE n = v /\ validation[v][id] = Absent
  <2>1. SameCodes(validation[n], validation'[n]) /\ \A i \in RequestIds : validation'[n][i] = validation[n][i]
    BY <1>6, <1>7, <1>9 DEF SameCodes
  <2>2. ClosedNow'[n] = ClosedNow[n]
    BY <2>1 DEF ClosedNow
  <2> QED
    BY <1>1, <1>2, <2>1, <2>2, SameTexts, KeptIfUnseen
<1>10. CASE n = v /\ validation[v][id] # Absent
  <2>1. TextOf(validation[n][id])' = text
    <3> DEFINE lateNow == validation'[n][id].sendCode # NoCode /\ validation'[n][id].expire <= clock'
    <3>1. TextOf(validation[n][id])' = [code |-> validation'[n][id].sendCode, late |-> lateNow]
      BY <1>6, <1>7, <1>10 DEF TextOf
    <3>2. code # NoCode
      BY <1>4 DEF Codes, NoCode
    <3>3. lateNow <=> late
      BY <1>1, <1>6, <1>7, <1>10, <3>2
    <3>4. validation'[n][id].sendCode = code
      BY <1>6, <1>7, <1>10
    <3> HIDE DEF lateNow, late
    <3> QED
      BY <3>1, <3>3, <3>4
  <2>2. \A i \in RequestIds \ {id} : TextOf(validation[n][i])' = TextOf(validation[n][i])
    BY <1>1, <1>6, <1>7, <1>10 DEF TextOf
  <2>3. TextsNow'[n] = [TextsNow[n] EXCEPT ![id] = text]
    <3> HIDE DEF text
    <3> QED
      BY <2>1, <2>2 DEF TextsNow
  <2>4. ClosedNow'[n] = ClosedNow[n]
    BY <1>6, <1>7, <1>10 DEF ClosedNow
  <2>5. Promise(n)!Known(id) /\ ~Promise(n)!Texted(id)
    BY <1>4, <1>10, SeenRow
  <2>6. Promise(n)!SendCode(id, code, late)
    BY <1>2, <2>3, <2>4, <2>5 DEF Promise!SendCode
  <2> HIDE DEF code, late
  <2> QED
    BY <1>4, <2>6 DEF Keeps, Promise!Next
<1> QED
  BY <1>8, <1>9, <1>10

\* A transaction of a node is seen by that node, if it is a vote.
LEMMA SentBallots ==
  ASSUME NEW n \in Validators, NEW v \in Validators, NEW id \in RequestIds, NEW op, Send(v, op, id)
  PROVE  \/ BallotsNow'[n] = BallotsNow[n]
         \/ n = v /\ op = "voteRequest" /\ BallotsNow'[n] = BallotsNow[n] \union {id}
<1>1. \/ mempool' = mempool
      \/ mempool' = mempool \union {[op |-> op, id |-> id, from |-> v]}
  BY DEF Send
<1>2. CASE mempool' = mempool
  BY <1>2, SameChain
<1>3. CASE mempool' = mempool \union {[op |-> op, id |-> id, from |-> v]}
  <2>1. \A i \in RequestIds :
          [op |-> "voteRequest", id |-> i, from |-> n] \in mempool'
            <=> \/ [op |-> "voteRequest", id |-> i, from |-> n] \in mempool
                \/ n = v /\ op = "voteRequest" /\ i = id
    BY <1>3
  <2> QED
    BY <2>1 DEF BallotsNow
<1> QED
  BY <1>1, <1>2, <1>3

LEMMA KeptByVote ==
  ASSUME IndInv, NEW n \in Validators, NEW v \in Validators, NEW id \in RequestIds, Vote(v, id)
  PROVE  Keeps(n)
<1> USE DEF IndInv
<1>1. /\ Send(v, "voteRequest", id)
      /\ validation' = [validation EXCEPT ![v] = updateProcessStep(validation[v], id, "VOTED")]
      /\ validation[v][id] # Absent /\ validation[v][id].processStep = "RECEIVED_CODE"
      /\ UNCHANGED <<clock, requests, texted, presented>>
  BY DEF Vote, Takes, history
<1>2. UNCHANGED <<VotersNow, BroughtNow[n]>>
  BY <1>1, SameHistory, SameChain
<1> DEFINE table == updateProcessStep(validation[v], id, "VOTED")
<1>3. /\ SameCodes(validation[v], table)
      /\ \A i \in RequestIds : i # id => table[i] = validation[v][i]
      /\ table[id] # Absent /\ table[id].processStep = "VOTED"
  <2>1. validation[v] \in Tables /\ "VOTED" \in ProcessStep
    BY DEF TypeOK, ProcessStep
  <2>2. /\ SameCodes(validation[v], table)
        /\ \A i \in RequestIds : i # id => table[i] = validation[v][i]
        /\ table[id].processStep = "VOTED"
    BY <1>1, <2>1, StepCodes
  <2>3. table[id] # Absent
    BY <1>1, <2>2 DEF SameCodes
  <2> QED
    BY <2>2, <2>3
<1> HIDE DEF table
<1>4. validation'[n] = IF n = v THEN table ELSE validation[n]
  BY <1>1 DEF TypeOK, table
<1>5. UNCHANGED <<TextsNow[n], ClosedNow[n]>>
  <2>1. CASE n # v
    <3>1. validation'[n] = validation[n]
      BY <1>4, <2>1
    <3> QED
      BY <1>1, <3>1, SameTable
  <2>2. CASE n = v
    <3>1. TextsNow'[n] = TextsNow[n]
      BY <1>1, <1>3, <1>4, <2>2, SameTexts
    <3>2. ClosedNow'[n] = ClosedNow[n]
      BY <1>1, <1>3, <1>4, <2>2 DEF ClosedNow
    <3> QED
      BY <3>1, <3>2
  <2> QED
    BY <2>1, <2>2
<1>6. CASE BallotsNow'[n] = BallotsNow[n]
  BY <1>2, <1>5, <1>6, KeptIfUnseen
<1>7. CASE n = v /\ BallotsNow'[n] = BallotsNow[n] \union {id}
  <2>1. Promise(n)!Proven(id)
    BY <1>1, <1>7, RowIsProven, SeenRow DEF RowsProven, RowProven
  <2>2. Promise(n)!Vote(id)
    BY <1>2, <1>5, <1>7, <2>1 DEF Promise!Vote
  <2> QED
    BY <2>2 DEF Keeps, Promise!Next
<1> QED
  BY <1>1, <1>6, <1>7, SentBallots

LEMMA KeptByCount ==
  ASSUME IndInv, NEW n \in Validators, NEW v \in Validators, NEW id \in RequestIds, Count(v, id)
  PROVE  Keeps(n)
<1> USE DEF IndInv
<1> DEFINE table == updateProcessStep(updateValidationStatus(validation[v], id, "CONFIRMED"), id,
                                      "FINISHED")
<1>1. /\ Send(v, "countVote", id) \/ UNCHANGED mempool
      /\ validation' = [validation EXCEPT ![v] = table]
      /\ validation[v][id] # Absent /\ validation[v][id].processStep = "VOTED"
      /\ UNCHANGED <<clock, requests, texted, presented>>
  BY DEF Count, Takes, history
<1>2. UNCHANGED <<VotersNow, BroughtNow[n]>>
  BY <1>1, SameHistory, SameChain
<1>3. BallotsNow'[n] = BallotsNow[n]
  BY <1>1, SentBallots, SameChain
<1>4. /\ SameCodes(validation[v], table)
      /\ \A i \in RequestIds :
           validation[v][i] # Absent =>
             table[i].processStep = IF i = id THEN "FINISHED" ELSE validation[v][i].processStep
  BY CountCodes DEF TypeOK
<1> HIDE DEF table
<1>5. validation'[n] = IF n = v THEN table ELSE validation[n]
  BY <1>1 DEF TypeOK
<1>6. CASE n # v
  <2>1. validation'[n] = validation[n]
    BY <1>5, <1>6
  <2> QED
    BY <1>1, <1>2, <1>3, <2>1, SameTable, KeptIfUnseen
<1>7. CASE n = v
  <2>1. TextsNow'[n] = TextsNow[n]
    BY <1>1, <1>4, <1>5, <1>7, SameTexts
  <2>2. \A i \in RequestIds : (table[i] = Absent) <=> (validation[n][i] = Absent)
    BY <1>4, <1>7 DEF SameCodes
  <2>3. ClosedNow'[n] = ClosedNow[n] \union {id}
    BY <1>1, <1>4, <1>5, <1>7, <2>2 DEF ClosedNow
  <2>4. Promise(n)!Proven(id)
    BY <1>1, <1>7, RowIsProven, SeenRow DEF RowsProven, RowProven
  <2>5. Agreed(requests, id)
    BY DEF Count, canCountVote, VotesProven
  <2>6. Promise(n)!Close(id)
    BY <1>2, <1>3, <2>1, <2>3, <2>4, <2>5, SeenVotes DEF Promise!Close
  <2> QED
    BY <2>6 DEF Keeps, Promise!Next
<1> QED
  BY <1>6, <1>7

LEMMA KeptByRemoval ==
  ASSUME IndInv, NEW n \in Validators, NEW v \in Validators, EndPeriod(v)
  PROVE  Keeps(n)
<1> USE DEF IndInv
<1>1. /\ validation' = [validation EXCEPT ![v] = removeExpiredValidation(validation[v], clock)]
      /\ UNCHANGED <<clock, requests, mempool, texted, presented>>
  BY DEF EndPeriod, history
<1>2. UNCHANGED <<BroughtNow[n], BallotsNow[n], VotersNow>>
  BY <1>1, SameHistory, SameChain
<1>3. CASE n # v
  <2>1. validation'[n] = validation[n]
    BY <1>1, <1>3 DEF TypeOK
  <2> QED
    BY <1>1, <1>2, <2>1, SameTable, KeptIfUnseen
<1>4. CASE n = v
  <2> DEFINE ids == ExpiredValidations(validation[n], clock)
  <2>1. ids \in SUBSET RequestIds
    BY DEF ExpiredValidations
  <2>2. \A id \in ids : Promise(n)!Known(id) /\ (Promise(n)!Texted(id) => Promise(n)!Late(id))
    <3>1. SUFFICES ASSUME NEW id \in ids
                   PROVE  Promise(n)!Known(id) /\ (Promise(n)!Texted(id) => Promise(n)!Late(id))
      OBVIOUS
    <3>2. /\ id \in RequestIds /\ validation[n][id] # Absent
          /\ validation[n][id].expire + Retention < clock
      BY DEF ExpiredValidations
    <3>3. validation[n][id].expire <= clock
      BY <3>2, StorageAssumption DEF TypeOK, Tables, ValidationData
    <3> QED
      BY <3>2, <3>3, SeenRow
  <2>3. validation'[n] = [id \in RequestIds |-> IF id \in ids THEN Absent ELSE validation[n][id]]
    BY <1>1, <1>4 DEF TypeOK, removeExpiredValidation
  <2> HIDE DEF ids
  <2>4. \A id \in RequestIds : TextOf(validation[n][id])' =
          IF id \in ids THEN Absent ELSE TextOf(validation[n][id])
    BY <1>1, <2>3 DEF TextOf
  <2>5. TextsNow'[n] = [id \in RequestIds |-> IF id \in ids THEN Absent ELSE TextsNow[n][id]]
    BY <2>4 DEF TextsNow
  <2>6. ClosedNow'[n] = ClosedNow[n] \ ids
    BY <2>3 DEF ClosedNow
  <2>7. Promise(n)!Forget(ids)
    BY <1>2, <2>2, <2>5, <2>6 DEF Promise!Forget
  <2> QED
    BY <2>1, <2>7 DEF Keeps, Promise!Next
<1> QED
  BY <1>3, <1>4

LEMMA KeptByTime ==
  ASSUME TypeOK, NEW n \in Validators, Tick
  PROVE  Keeps(n)
<1> DEFINE ids == {id \in RequestIds :
                     /\ validation[n][id] # Absent
                     /\ validation[n][id].sendCode # NoCode
                     /\ validation[n][id].expire <= clock + 1}
<1>1. ids \in SUBSET RequestIds /\ \A id \in ids : Promise(n)!Texted(id)
  BY SeenRow
<1>2. clock' = clock + 1 /\ UNCHANGED <<validation, requests, mempool, texted, presented>>
  BY DEF Tick, stored, history
<1>3. ASSUME NEW id \in RequestIds
      PROVE  TextOf(validation[n][id])' =
               IF id \in ids THEN [TextOf(validation[n][id]) EXCEPT !.late = TRUE]
               ELSE TextOf(validation[n][id])
  <2>1. CASE validation[n][id] = Absent
    BY <1>2, <2>1 DEF TextOf
  <2>2. CASE validation[n][id] # Absent
    <3>1. validation[n][id].expire \in Nat /\ clock \in Nat
      BY <2>2 DEF TypeOK, Tables, ValidationData
    <3>2. CASE id \in ids
      BY <1>2, <2>2, <3>1, <3>2 DEF TextOf
    <3>3. CASE id \notin ids
      BY <1>2, <2>2, <3>1, <3>3 DEF TextOf
    <3> QED
      BY <3>2, <3>3
  <2> QED
    BY <2>1, <2>2
<1> HIDE DEF ids
<1>4. TextsNow'[n] = [id \in RequestIds |->
                        IF id \in ids THEN [TextsNow[n][id] EXCEPT !.late = TRUE]
                        ELSE TextsNow[n][id]]
  BY <1>3 DEF TextsNow
<1>5. UNCHANGED <<ClosedNow[n], VotersNow, BallotsNow[n], BroughtNow[n]>>
  BY <1>2, SameChain, SameHistory DEF ClosedNow
<1>6. Promise(n)!Lapse(ids)
  BY <1>1, <1>4, <1>5 DEF Promise!Lapse
<1> QED
  BY <1>1, <1>6 DEF Keeps, Promise!Next

\* What a transaction does to the votes, when it is mined.
LEMMA SeenExecution ==
  ASSUME TypeOK, NEW tx \in mempool, requests' = Execute(tx)
  PROVE  \/ UNCHANGED VotersNow
         \/ /\ tx.op = "voteRequest"
            /\ VotersNow' = [VotersNow EXCEPT ![tx.id] = @ \union {tx.from}]
<1>1. tx \in Transactions /\ tx.id \in RequestIds
  BY DEF TypeOK, Transactions
<1>2. CASE tx.op = "addRequest"
  <2>1. \A i \in RequestIds : requests'[i].voters = requests[i].voters
    BY <1>1, <1>2 DEF Execute, addRequest, TypeOK, Request
  <2> QED
    BY <2>1 DEF VotersNow
<1>3. CASE tx.op = "voteRequest"
  <2>1. \/ requests' = requests
        \/ requests' = [requests EXCEPT ![tx.id].voters = @ \union {tx.from}]
    BY <1>3 DEF Execute, voteRequest
  <2>2. ASSUME requests' = [requests EXCEPT ![tx.id].voters = @ \union {tx.from}]
        PROVE  VotersNow' = [VotersNow EXCEPT ![tx.id] = @ \union {tx.from}]
    <3>1. \A i \in RequestIds :
            requests'[i].voters = IF i = tx.id THEN requests[i].voters \union {tx.from}
                                  ELSE requests[i].voters
      <4> DEFINE new == [requests[tx.id] EXCEPT !.voters = @ \union {tx.from}]
      <4>1. new.voters = requests[tx.id].voters \union {tx.from}
        BY <1>1 DEF TypeOK, Request
      <4>2. requests' = [requests EXCEPT ![tx.id] = new]
        BY <2>2
      <4> HIDE DEF new
      <4> QED
        BY <1>1, <4>1, <4>2 DEF TypeOK
    <3> QED
      BY <3>1 DEF VotersNow
  <2> QED
    BY <1>3, <2>1, <2>2, SameChain
<1>4. CASE tx.op \notin {"addRequest", "voteRequest"}
  <2>1. \A i \in RequestIds : requests'[i].voters = requests[i].voters
    BY <1>1, <1>4 DEF Execute, countVote, TypeOK, Request
  <2> QED
    BY <2>1 DEF VotersNow
<1> QED
  BY <1>2, <1>3, <1>4

LEMMA KeptByDelivery ==
  ASSUME TypeOK, NEW n \in Validators, NEW tx \in mempool, Mine(tx) \/ Drop(tx)
  PROVE  Keeps(n)
<1>1. tx \in Transactions /\ tx.id \in RequestIds /\ tx.from \in Validators
  BY DEF TypeOK, Transactions
<1>2. /\ mempool' = mempool \ {tx}
      /\ requests' = requests \/ requests' = Execute(tx)
      /\ UNCHANGED <<clock, validation, texted, presented>>
  BY DEF Mine, Drop, history
<1>3. UNCHANGED <<TextsNow[n], ClosedNow[n], BroughtNow[n]>>
  BY <1>2, SameTable, SameHistory
<1>4. \/ UNCHANGED VotersNow
      \/ tx.op = "voteRequest" /\ VotersNow' = [VotersNow EXCEPT ![tx.id] = @ \union {tx.from}]
  BY <1>2, SeenExecution, SameChain
<1>5. tx = [op |-> tx.op, id |-> tx.id, from |-> tx.from]
  BY <1>1 DEF Transactions
<1>6. CASE tx.op = "voteRequest" /\ tx.from = n
  <2>1. tx.id \in BallotsNow[n] /\ BallotsNow'[n] = BallotsNow[n] \ {tx.id}
    BY <1>1, <1>2, <1>5, <1>6 DEF BallotsNow
  <2>2. Promise(n)!Deliver(tx.id)
    BY <1>3, <1>4, <1>6, <2>1 DEF Promise!Deliver
  <2> QED
    BY <1>1, <2>2 DEF Keeps, Promise!Next
<1>7. CASE ~(tx.op = "voteRequest" /\ tx.from = n)
  <2>1. BallotsNow'[n] = BallotsNow[n]
    BY <1>2, <1>5, <1>7 DEF BallotsNow
  <2>2. CASE UNCHANGED VotersNow
    BY <1>3, <2>1, <2>2, KeptIfUnseen
  <2>3. CASE /\ tx.op = "voteRequest"
             /\ VotersNow' = [VotersNow EXCEPT ![tx.id] = @ \union {tx.from}]
    <3>1. Promise(n)!VoteByOther(tx.id, tx.from)
      BY <1>3, <1>7, <2>1, <2>3 DEF Promise!VoteByOther
    <3> QED
      BY <1>1, <3>1 DEF Keeps, Promise!Next
  <2> QED
    BY <1>4, <2>2, <2>3
<1> QED
  BY <1>6, <1>7

LEMMA KeptByHandle ==
  ASSUME IndInv, NEW n \in Validators, NEW m \in wire, Deliver(m)
  PROVE  Keeps(n)
<1> USE DEF IndInv
<1>1. /\ m \in Messages /\ m.to \in Validators /\ m.id \in RequestIds
      /\ m.op \in {"broadcast", "broadcastSubmit"}
  BY DEF TypeOK, Messages
<1>2. /\ validation' = [validation EXCEPT ![m.to] = Handle(m).table]
      /\ UNCHANGED <<clock, requests, mempool, texted, presented>>
  BY DEF Deliver, history
<1>3. UNCHANGED BallotsNow
  BY <1>2, SameChain
<1>4. CASE Handle(m).table = validation[m.to]
  <2>1. validation'[n] = validation[n]
    BY <1>1, <1>2, <1>4 DEF TypeOK
  <2> QED
    BY <1>2, <2>1, SameTable, SameChain, SameHistory, KeptIfUnseen
<1>5. CASE m.op = "broadcast" /\ Handle(m).table # validation[m.to]
  <2>1. /\ validation[m.to][m.id] = Absent
        /\ Handle(m).table = createValidation(validation[m.to], m.id,
                                              toValidationData("RECEIVED_BROADCAST"))
    BY <1>5 DEF Handle, postBroadcast
  <2> QED
    BY <1>1, <1>2, <2>1, KeptByInsert
<1>6. CASE m.op = "broadcastSubmit" /\ Handle(m).table # validation[m.to]
  <2>1. Handle(m).table = processSubmit(m.to, m.id, m.code).table
    BY <1>6 DEF Handle, postBroadcastSubmit
  <2>2. /\ SameCodes(validation[m.to], Handle(m).table)
        /\ \A i \in RequestIds :
             validation[m.to][i] # Absent =>
               \/ Handle(m).table[i].processStep = validation[m.to][i].processStep
               \/ i = m.id /\ Handle(m).table[i].processStep = "RECEIVED_CODE"
    BY <1>1, <2>1, SubmitCodes
  <2>3. /\ validation'[m.to] = Handle(m).table
        /\ \A u \in Validators : u # m.to => validation'[u] = validation[u]
    BY <1>1, <1>2 DEF TypeOK
  <2>4. Opens(m.to, m.id)
    BY <2>2, <2>3 DEF Opens
  <2> QED
    BY <1>1, <1>2, <1>3, <2>4, KeptByOpening
<1> QED
  BY <1>1, <1>4, <1>5, <1>6

LEMMA KeptByRequest ==
  ASSUME TypeOK, OnlyPosted, NEW n \in Validators, NEW v \in Validators, NEW id \in RequestIds,
         PostRequest(v, id)
  PROVE  Keeps(n)
<1>1. validation[v][id] = Absent
  BY DEF OnlyPosted, PostRequest
<1>2. validation' = [validation EXCEPT ![v] =
        createValidation(validation[v], id, toValidationData("RECEIVED_REGISTER"))]
  BY DEF PostRequest
<1> QED
  BY <1>1, <1>2, KeptByInsert DEF PostRequest

LEMMA KeptBySubmit ==
  ASSUME IndInv, NEW n \in Validators, NEW v \in Validators, EndSubmit(v)
  PROVE  Keeps(n)
<1> USE DEF IndInv
<1> DEFINE id == submits[v].id
           table == processSubmit(v, id, submits[v].code).table
<1>1. id \in RequestIds
  BY DEF EndSubmit, TypeOK, SubmitCalls
<1>2. /\ validation' = [validation EXCEPT ![v] = table]
      /\ UNCHANGED <<clock, requests, mempool, texted, presented>>
  BY DEF EndSubmit, history
<1>3. /\ SameCodes(validation[v], table)
      /\ \A i \in RequestIds :
           validation[v][i] # Absent =>
             \/ table[i].processStep = validation[v][i].processStep
             \/ i = id /\ table[i].processStep = "RECEIVED_CODE"
  BY <1>1, SubmitCodes
<1> HIDE DEF id, table
<1>4. /\ validation'[v] = table
      /\ \A u \in Validators : u # v => validation'[u] = validation[u]
  BY <1>2 DEF TypeOK
<1>5. Opens(v, id)
  BY <1>3, <1>4 DEF Opens
<1> QED
  BY <1>1, <1>2, <1>5, SameChain, KeptByOpening

LEMMA KeptByMark ==
  ASSUME IndInv, NEW n \in Validators, NEW v \in Validators, MarkSent(v)
  PROVE  Keeps(n)
<1> USE DEF IndInv
<1> DEFINE id == work[v].id
           table == updateProcessStep(validation[v], id, "SENT_SMS")
<1>1. id \in RequestIds
  BY DEF MarkSent, WorkTexted
<1>2. /\ validation' = [validation EXCEPT ![v] = table]
      /\ UNCHANGED <<clock, requests, mempool, texted, presented>>
  BY DEF MarkSent, history
<1>3. validation[v] \in Tables /\ "SENT_SMS" \in ProcessStep
  BY DEF TypeOK, ProcessStep
<1>4. /\ SameCodes(validation[v], table)
      /\ \A i \in RequestIds : i # id => table[i] = validation[v][i]
      /\ validation[v][id] # Absent => table[id].processStep = "SENT_SMS"
  BY <1>1, <1>3, StepCodes
<1> HIDE DEF id, table
<1>5. /\ validation'[v] = table
      /\ \A u \in Validators : u # v => validation'[u] = validation[u]
  BY <1>2 DEF TypeOK
<1>6. Opens(v, id)
  BY <1>4, <1>5 DEF Opens
<1> QED
  BY <1>1, <1>2, <1>6, SameChain, KeptByOpening

LEMMA KeptByRegister ==
  ASSUME TypeOK, NEW n \in Validators, NEW v \in Validators, NEW id \in RequestIds,
         Register(v, id)
  PROVE  Keeps(n)
<1>1. /\ Send(v, "addRequest", id)
      /\ UNCHANGED <<clock, validation, requests, texted, presented>>
  BY DEF Register, history
<1>2. BallotsNow'[n] = BallotsNow[n]
  BY <1>1, SentBallots
<1> QED
  BY <1>1, <1>2, SameTable, SameChain, SameHistory, KeptIfUnseen

\* Calls on their way, walks, checks and crashes: what a node promises is in
\* its table, which survives them.
LEMMA KeptByRest ==
  ASSUME NEW n \in Validators, UNCHANGED <<clock, stored, history>>
  PROVE  Keeps(n)
BY SameTable, SameChain, SameHistory, KeptIfUnseen DEF stored, history

LEMMA NodeStep ==
  ASSUME IndInv, MappingInv, [Next]_vars, NEW n \in Validators
  PROVE  Keeps(n)
<1> USE DEF IndInv, MappingInv
<1>1. CASE UNCHANGED vars
  BY <1>1, KeptByRest DEF vars
<1>2. CASE Clients
  BY <1>2, KeptByRequest, KeptByAnswer DEF Clients
<1>3. ASSUME NEW m \in wire, Deliver(m) \/ Lose(m)
      PROVE  Keeps(n)
  BY <1>3, KeptByHandle, KeptByRest DEF Lose
<1>4. ASSUME NEW v \in Validators, Crash(v)
      PROVE  Keeps(n)
  BY <1>4, KeptByRest DEF Crash
<1>5. CASE Environment
  BY <1>3, <1>4, <1>5, KeptByDelivery, KeptByTime DEF Environment
<1>6. ASSUME NEW v \in Validators, Node(v)
      PROVE  Keeps(n)
  <2>1. ASSUME NEW id \in RequestIds, Register(v, id) \/ TakeBroadcast(v, id)
        PROVE  Keeps(n)
    BY <2>1, KeptByRegister, KeptByRest DEF TakeBroadcast
  <2>2. CASE SendBroadcast(v) \/ EndBroadcast(v) \/ StartUp(v) \/ SendSubmit(v)
    BY <2>2, KeptByRest DEF SendBroadcast, EndBroadcast, StartUp, SendSubmit
  <2>3. CASE SendPhone(v)
    BY <2>3, KeptByText
  <2>4. CASE WriteSendCode(v)
    BY <2>4, KeptByCode
  <2>5. CASE MarkSent(v)
    BY <2>5, KeptByMark
  <2>6. ASSUME NEW id \in RequestIds, Vote(v, id) \/ Count(v, id)
        PROVE  Keeps(n)
    BY <2>6, KeptByVote, KeptByCount
  <2>7. CASE EndPeriod(v) \/ EndSubmit(v)
    BY <2>7, KeptByRemoval, KeptBySubmit
  <2> QED
    BY <1>6, <2>1, <2>2, <2>3, <2>4, <2>5, <2>6, <2>7 DEF Node, JobStep
<1> QED
  BY <1>1, <1>2, <1>5, <1>6 DEF Next

LEMMA NodeInit ==
  ASSUME Init, NEW n \in Validators
  PROVE  Promise(n)!Init
<1>1. \A id \in RequestIds : validation[n][id] = Absent
  BY DEF Init, createTables
<1>2. TextsNow[n] = [id \in RequestIds |-> Absent] /\ ClosedNow[n] = {}
  BY <1>1 DEF TextsNow, ClosedNow, TextOf
<1>3. BroughtNow[n] = {}
  BY DEF Init, BroughtNow, InTime
<1>4. BallotsNow[n] = {} /\ VotersNow = [id \in RequestIds |-> {}]
  BY DEF Init, BallotsNow, VotersNow
<1> QED
  BY <1>2, <1>3, <1>4 DEF Promise!Init

\* Whatever the other nodes, the clients and the contract do, each node does
\* for each request what Request promises: one code at a time, a vote only for
\* a code that was brought in time, an end only after a quorum has voted, and
\* nothing forgotten that a client may still answer.
THEOREM NodesKeepThePromise == Spec => NodesKeepPromise
<1>1. Init => \A n \in Validators : Promise(n)!Init
  BY NodeInit
<1>2. IndInv /\ MappingInv /\ [Next]_vars =>
        [\A n \in Validators : UNCHANGED Promise(n)!request \/ Promise(n)!Next]_seen
  BY NodeStep DEF Keeps
<1> QED
  BY <1>1, <1>2, VotesGoBackToCodes, LastTextIsNoted, PTL DEF Spec, NodesKeepPromise

\* Of the steps that the promise allows one closes a request, after it has been
\* agreed on, and none takes a vote back.
LEMMA AgreedStep ==
  ASSUME NEW n \in Validators, Keeps(n), VotersNow \in [RequestIds -> SUBSET Validators],
         NEW id \in RequestIds, id \in ClosedNow'[n],
         id \in ClosedNow[n] => Promise(n)!Agreed(id)
  PROVE  Promise(n)!Agreed(id)'
<1> DEFINE voters == VotersNow
           closed == ClosedNow[n]
<1>1. ASSUME \A i \in RequestIds : voters[i] \subseteq voters'[i], Promise(n)!Agreed(id)
      PROVE  Promise(n)!Agreed(id)'
  BY <1>1 DEF Promise!Agreed
<1>2. CASE UNCHANGED Promise(n)!request
  BY <1>2 DEF Promise!request, Promise!Agreed
<1>3. ASSUME NEW i \in RequestIds, NEW v \in Validators,
             voters' \in {voters, [voters EXCEPT ![i] = @ \union {v}]}, closed' = closed
      PROVE  Promise(n)!Agreed(id)'
  <2>1. \A j \in RequestIds : voters[j] \subseteq voters'[j]
    BY <1>3
  <2> QED
    BY <1>1, <1>3, <2>1
<1>4. ASSUME NEW i \in RequestIds,
             \/ Promise(n)!Deliver(i)
             \/ \E v \in Validators : Promise(n)!VoteByOther(i, v)
      PROVE  Promise(n)!Agreed(id)'
  BY <1>3, <1>4 DEF Promise!Deliver, Promise!VoteByOther
<1>5. ASSUME NEW i \in RequestIds,
             \/ Promise(n)!Store(i)
             \/ \E code \in Codes, late \in BOOLEAN : Promise(n)!SendCode(i, code, late)
             \/ \E codes \in SUBSET (Codes \union {NoCode}) : Promise(n)!Present(i, codes)
             \/ Promise(n)!Vote(i)
             \/ Promise(n)!Close(i)
             \/ Promise(n)!Reopen(i)
      PROVE  Promise(n)!Agreed(id)'
  <2>1. voters' = voters /\ (id \in closed \/ Promise(n)!Agreed(id))
    BY <1>5 DEF Promise!Store, Promise!SendCode, Promise!Present, Promise!Vote,
       Promise!Close, Promise!Reopen
  <2> QED
    BY <1>1, <2>1
<1>6. ASSUME NEW ids, Promise(n)!Lapse(ids) \/ Promise(n)!Forget(ids)
      PROVE  Promise(n)!Agreed(id)'
  <2>1. voters' = voters /\ id \in closed
    BY <1>6 DEF Promise!Lapse, Promise!Forget
  <2> QED
    BY <1>1, <2>1
<1> QED
  BY <1>2, <1>4, <1>5, <1>6 DEF Keeps, Promise!Next

ClosedIsAgreed ==
  \A n \in Validators : \A id \in ClosedNow[n] : Promise(n)!Agreed(id)

\* Every node of the network has closed a request only on its code, brought in
\* time, and on the votes of a quorum.
THEOREM NodesHaveEarned == Spec => []NodesEarn
<1>1. Init => ClosedIsAgreed
  BY NodeInit DEF ClosedIsAgreed, Promise!Init
<1>2. IndInv /\ MappingInv /\ ClosedIsAgreed /\ [Next]_vars => ClosedIsAgreed'
  <2> SUFFICES ASSUME IndInv, MappingInv, ClosedIsAgreed, [Next]_vars,
                      NEW n \in Validators, NEW id \in ClosedNow'[n]
               PROVE  Promise(n)!Agreed(id)'
    BY DEF ClosedIsAgreed
  <2>1. id \in RequestIds
    BY DEF ClosedNow
  <2>2. VotersNow \in [RequestIds -> SUBSET Validators]
    BY DEF VotersNow, IndInv, TypeOK, Request
  <2>3. id \in ClosedNow[n] => Promise(n)!Agreed(id)
    BY DEF ClosedIsAgreed
  <2>4. Keeps(n)
    BY NodeStep
  <2> QED
    BY <2>1, <2>2, <2>3, <2>4, AgreedStep
<1>3. IndInv /\ ClosedIsAgreed => NodesEarn
  BY ClosedIsProven DEF IndInv, ClosedIsAgreed, NodesEarn, Promise!ClosedIsEarned
<1> QED
  BY <1>1, <1>2, <1>3, VotesGoBackToCodes, LastTextIsNoted, PTL DEF Spec

-----------------------------------------------------------------------------
(* The promise of all nodes.                                               *)

LinkStep == UNCHANGED Whole!link \/ Whole!Next

\* What is proven shows in the history, the rest on the chain.
LEMMA SameProof ==
  /\ UNCHANGED <<texted, presented>> => UNCHANGED ProvenNow
  /\ UNCHANGED mempool => UNCHANGED VotesNow
  /\ UNCHANGED requests => UNCHANGED <<VotersNow, LinkedNow>>
BY DEF ProvenNow, Proven, InTime, VotesNow, VotersNow, LinkedNow

LEMMA LinkUnseen ==
  ASSUME UNCHANGED <<requests, mempool, texted, presented>>
  PROVE  LinkStep
BY SameProof DEF LinkStep, Whole!link

\* What is texted for a request, or brought for it, proves nothing for another.
LEMMA OneProof ==
  ASSUME NEW id \in RequestIds, UNCHANGED <<requests, mempool>>,
         texted \subseteq texted', presented \subseteq presented',
         \A t \in texted' : t \notin texted => t.id = id,
         \A a \in presented' : a \notin presented => a.id = id
  PROVE  LinkStep
<1> DEFINE new == Proven(id)'
<1>1. ASSUME NEW i \in RequestIds, i # id
      PROVE  Proven(i)' = Proven(i)
  <2>1. \A v, code : InTime(v, i, code)' <=> InTime(v, i, code)
    BY <1>1 DEF InTime
  <2> QED
    BY <2>1 DEF Proven
<1>2. new \in SUBSET Validators /\ Proven(id)' = Proven(id) \union new
  BY ProvenGrows DEF Proven
<1> HIDE DEF new
<1>3. ProvenNow' = [ProvenNow EXCEPT ![id] = @ \union new]
  BY <1>1, <1>2 DEF ProvenNow
<1>4. Whole!Prove(id, new)
  BY <1>3, SameProof DEF Whole!Prove
<1> QED
  BY <1>2, <1>4 DEF LinkStep, Whole!Next

\* A transaction that is sent, or not.
LEMMA LinkBySend ==
  ASSUME VotesProven, NEW n \in Validators, NEW id \in RequestIds, NEW op, Send(n, op, id),
         op = "voteRequest" => n \in Proven(id),
         UNCHANGED <<requests, texted, presented>>
  PROVE  LinkStep
<1>1. UNCHANGED <<ProvenNow, VotersNow, LinkedNow>>
  BY SameProof
<1>2. \/ mempool' = mempool
      \/ mempool' = mempool \union {[op |-> op, id |-> id, from |-> n]}
  BY DEF Send
<1>3. CASE mempool' = mempool
  BY <1>3, LinkUnseen
<1>4. CASE mempool' = mempool \union {[op |-> op, id |-> id, from |-> n]}
  <2>1. \A b \in RequestIds \X Validators :
          [op |-> "voteRequest", id |-> b[1], from |-> b[2]] \in mempool'
            <=> \/ [op |-> "voteRequest", id |-> b[1], from |-> b[2]] \in mempool
                \/ op = "voteRequest" /\ b = <<id, n>>
    BY <1>4
  <2>2. CASE op # "voteRequest"
    <3>1. VotesNow' = VotesNow
      BY <2>1, <2>2 DEF VotesNow
    <3> QED
      BY <1>1, <3>1 DEF LinkStep, Whole!link
  <2>3. CASE op = "voteRequest"
    <3>1. VotesNow' = VotesNow \union {<<id, n>>}
      BY <2>1, <2>3 DEF VotesNow
    <3>2. n \in ProvenNow[id]
      BY <2>3 DEF ProvenNow
    <3>3. Whole!Vote(id, n)
      BY <1>1, <3>1, <3>2 DEF Whole!Vote
    <3> QED
      BY <3>3 DEF LinkStep, Whole!Next
  <2> QED
    BY <2>2, <2>3
<1> QED
  BY <1>2, <1>3, <1>4

\* A transaction that is mined or lost.
LEMMA LinkByMining ==
  ASSUME TypeOK, NEW tx \in mempool, Mine(tx) \/ Drop(tx)
  PROVE  LinkStep
<1>1. /\ tx \in Transactions /\ tx.id \in RequestIds /\ tx.from \in Validators
      /\ tx = [op |-> tx.op, id |-> tx.id, from |-> tx.from]
      /\ tx.op \in {"addRequest", "voteRequest", "countVote"}
  BY DEF TypeOK, Transactions
<1>2. /\ mempool' = mempool \ {tx}
      /\ requests' = requests \/ requests' = Execute(tx)
      /\ UNCHANGED ProvenNow
  BY SameProof DEF Mine, Drop, history
<1>3. CASE tx.op = "voteRequest"
  <2>1. <<tx.id, tx.from>> \in VotesNow /\ VotesNow' = VotesNow \ {<<tx.id, tx.from>>}
    BY <1>1, <1>2, <1>3 DEF VotesNow
  <2>2. CASE requests' = requests
    <3>1. Whole!Deliver(tx.id, tx.from)
      BY <1>2, <2>1, <2>2, SameProof DEF Whole!Deliver
    <3> QED
      BY <1>1, <3>1 DEF LinkStep, Whole!Next
  <2>3. CASE requests' # requests
    <3>1. requests' = voteRequest(requests, tx.id, tx.from)
      BY <1>2, <1>3, <2>3 DEF Execute
    <3>2. /\ requests[tx.id].status = "REQUESTED"
          /\ requests' = [requests EXCEPT ![tx.id].voters = @ \union {tx.from}]
      BY <2>3, <3>1 DEF voteRequest
    <3>3. \A i \in RequestIds : requests'[i].status = requests[i].status
      BY <1>1, <3>2 DEF TypeOK, Request
    <3>4. LinkedNow' = LinkedNow /\ tx.id \notin LinkedNow
      BY <3>2, <3>3 DEF LinkedNow
    <3>5. UNCHANGED VotersNow \/ VotersNow' = [VotersNow EXCEPT ![tx.id] = @ \union {tx.from}]
      BY <1>2, <2>3, SeenExecution
    <3>6. Whole!Deliver(tx.id, tx.from)
      BY <1>2, <2>1, <3>4, <3>5 DEF Whole!Deliver
    <3> QED
      BY <1>1, <3>6 DEF LinkStep, Whole!Next
  <2> QED
    BY <2>2, <2>3
<1>4. CASE tx.op # "voteRequest"
  <2>1. VotesNow' = VotesNow
    BY <1>1, <1>2, <1>4 DEF VotesNow
  <2>2. UNCHANGED VotersNow
    BY <1>2, <1>4, SeenExecution, SameProof
  <2>3. CASE LinkedNow' = LinkedNow
    BY <1>2, <2>1, <2>2, <2>3 DEF LinkStep, Whole!link
  <2>4. CASE LinkedNow' # LinkedNow
    <3>1. requests' = Execute(tx) /\ requests' # requests
      BY <1>2, <2>4, SameProof
    <3>2. CASE tx.op = "addRequest"
      <4>1. /\ requests[tx.id].status = "INVALID"
            /\ requests' = [requests EXCEPT ![tx.id].status = "REQUESTED"]
        BY <3>1, <3>2 DEF Execute, addRequest, isAvailable
      <4>2. \A i \in RequestIds :
              (requests'[i].status = "COUNTED") <=> (requests[i].status = "COUNTED")
        BY <1>1, <4>1 DEF TypeOK, Request
      <4> QED
        BY <2>4, <4>2 DEF LinkedNow
    <3>3. CASE tx.op = "countVote"
      <4>1. /\ canCountVote(requests, tx.id) = 1
            /\ requests' = [requests EXCEPT ![tx.id].status = "COUNTED"]
        BY <3>1, <3>3 DEF Execute, countVote
      <4>2. Agreed(requests, tx.id)
        BY <4>1 DEF canCountVote
      <4>3. \A i \in RequestIds :
              requests'[i].status = IF i = tx.id THEN "COUNTED" ELSE requests[i].status
        BY <1>1, <4>1 DEF TypeOK, Request
      <4>4. LinkedNow' = LinkedNow \union {tx.id}
        BY <1>1, <4>3 DEF LinkedNow
      <4>5. \E q \in Quorums : q \subseteq VotersNow[tx.id]
        BY <1>1, <4>2 DEF Agreed, VotersNow
      <4>6. Whole!MakeLink(tx.id)
        BY <1>2, <2>1, <2>2, <4>4, <4>5 DEF Whole!MakeLink
      <4> QED
        BY <1>1, <4>6 DEF LinkStep, Whole!Next
    <3> QED
      BY <1>1, <1>4, <3>2, <3>3
  <2> QED
    BY <2>3, <2>4
<1> QED
  BY <1>3, <1>4

LEMMA WholeStep == IndInv /\ [Next]_vars => LinkStep
<1> SUFFICES ASSUME IndInv, [Next]_vars PROVE LinkStep
  OBVIOUS
<1> USE DEF IndInv
<1>1. CASE UNCHANGED vars
  BY <1>1, LinkUnseen DEF vars, stored, history
<1>2. ASSUME NEW n \in Validators, NEW id \in RequestIds,
             \/ PostRequest(n, id)
             \/ \E code \in CodeStrings : PostSubmit(n, id, code)
      PROVE  LinkStep
  <2>1. CASE PostRequest(n, id)
    BY <2>1, LinkUnseen DEF PostRequest
  <2>2. ASSUME NEW code \in CodeStrings, PostSubmit(n, id, code)
        PROVE  LinkStep
    <3>1. /\ UNCHANGED <<requests, mempool, texted>>
          /\ presented' = presented \union
               {[to |-> v, id |-> id, code |-> code[v], time |-> clock] : v \in Validators}
      BY <2>2 DEF PostSubmit, stored
    <3>2. \A a \in presented' : a \notin presented => a.id = id
      BY <3>1
    <3> QED
      BY <3>1, <3>2, OneProof
  <2> QED
    BY <1>2, <2>1, <2>2
<1>3. CASE Environment
  <2>1. ASSUME NEW m \in wire, Deliver(m) \/ Lose(m)
        PROVE  LinkStep
    BY <2>1, LinkUnseen DEF Deliver, Lose, stored, history
  <2>2. ASSUME NEW n \in Validators, Crash(n)
        PROVE  LinkStep
    BY <2>2, LinkUnseen DEF Crash, stored, history
  <2>3. CASE Tick
    BY <2>3, LinkUnseen DEF Tick, stored, history
  <2> QED
    BY <1>3, <2>1, <2>2, <2>3, LinkByMining DEF Environment
<1>4. ASSUME NEW n \in Validators, Node(n)
      PROVE  LinkStep
  <2>1. CASE SendPhone(n)
    <3>1. CASE work[n].data.validationStatus # "NONE"
      BY <2>1, <3>1, LinkUnseen DEF SendPhone, stored
    <3>2. CASE work[n].data.validationStatus = "NONE"
      <4> DEFINE text == Text(n, work[n].id, work'[n].data)
      <4>1. /\ work[n].id \in RequestIds
            /\ texted' = texted \union {text}
            /\ UNCHANGED <<requests, mempool, presented>>
        BY <2>1, <3>2, PhoneStep DEF TextsCode, WorkTexted
      <4>2. text.id = work[n].id
        BY DEF Text
      <4> HIDE DEF text
      <4> QED
        BY <4>1, <4>2, OneProof
    <3> QED
      BY <3>1, <3>2
  <2>2. ASSUME NEW id \in RequestIds, Register(n, id)
        PROVE  LinkStep
    BY <2>2, LinkBySend DEF Register, history
  <2>3. ASSUME NEW id \in RequestIds, Vote(n, id)
        PROVE  LinkStep
    <3>1. n \in Proven(id)
      BY <2>3, RowIsProven DEF Vote, Takes, RowsProven, RowProven
    <3> QED
      BY <2>3, <3>1, LinkBySend DEF Vote, history
  <2>4. ASSUME NEW id \in RequestIds, Count(n, id)
        PROVE  LinkStep
    BY <2>4, LinkBySend, LinkUnseen DEF Count, history
  <2>5. CASE \/ \E id \in RequestIds : TakeBroadcast(n, id)
             \/ SendBroadcast(n) \/ EndBroadcast(n) \/ WriteSendCode(n) \/ MarkSent(n)
             \/ StartUp(n) \/ EndPeriod(n) \/ SendSubmit(n) \/ EndSubmit(n)
    BY <2>5, LinkUnseen DEF TakeBroadcast, SendBroadcast, EndBroadcast, WriteSendCode,
       MarkSent, StartUp, EndPeriod, SendSubmit, EndSubmit, stored, history
  <2> QED
    BY <1>4, <2>1, <2>2, <2>3, <2>4, <2>5 DEF Node, JobStep
<1> QED
  BY <1>1, <1>2, <1>3, <1>4 DEF Next, Clients

\* The network does with a request what Link allows: votes only for codes that
\* came back in time, a link only after a quorum of votes, and no way back.
THEOREM NetworkKeepsPromise == Spec => NetworkLinks
<1>1. Init => Whole!Init
  <2>1. ASSUME Init PROVE \A id \in RequestIds : Proven(id) = {}
    BY <2>1 DEF Init, Proven, InTime
  <2>2. ASSUME Init PROVE Whole!Init
    BY <2>1, <2>2 DEF Init, Whole!Init, ProvenNow, VotesNow, VotersNow, LinkedNow
  <2> QED
    BY <2>2
<1>2. IndInv /\ [Next]_vars => [Whole!Next]_(Whole!link)
  BY WholeStep DEF LinkStep
<1> QED
  BY <1>1, <1>2, VotesGoBackToCodes, PTL DEF Spec, NetworkLinks, Whole!Spec

=============================================================================
