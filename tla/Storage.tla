------------------------------ MODULE Storage ------------------------------
(***************************************************************************)
(* The `validation` table of storage/Storages.ts: one row per request, the *)
(* statements the program runs on it, and the enumerations of              *)
(* types/index.ts stored in it.  Each statement is one atomic SQL command; *)
(* what may happen between two of them is the business of the modules that *)
(* run them.  The columns that identify the request (phone, address,       *)
(* nonce, signatures) never change after the INSERT, and receiveCode is    *)
(* written and never read: they are left out.                              *)
(***************************************************************************)
EXTENDS Integers

CONSTANTS
  RequestIds,   \* the request ids, the PRIMARY KEY of the table
  Absent,       \* stands for the row of an id that is not in the table
  CodeSpace,    \* codes are 0 .. CodeSpace - 1 (100 in CodeGenerator.ts)
  Retention     \* seconds a row is kept after its expiry (86400)

ASSUME StorageAssumption ==
  /\ CodeSpace \in Nat \ {0}
  /\ Retention \in Nat

PhoneValidationStatus == {"NONE", "SENT", "VOTED", "CONFIRMED", "EXPIRED"}

ProcessStep == {"NONE", "RECEIVED_REGISTER", "RECEIVED_BROADCAST", "SENT_SMS",
                "RECEIVED_CODE", "VOTED", "FINISHED"}

Codes  == 0 .. CodeSpace - 1
NoCode == -1              \* the empty string: no code sent, or too short a text

ValidationData ==
  [validationStatus : PhoneValidationStatus,
   sendCode         : Codes \union {NoCode},
   expire           : Nat,
   processStep      : ProcessStep]

ASSUME AbsentAssumption == Absent \notin ValidationData

\* The table: the row of every id, or Absent.
Tables == [RequestIds -> ValidationData \union {Absent}]

createTables == [id \in RequestIds |-> Absent]

\* The row a new request is stored as, in the step its handler assigns.
toValidationData(step) ==
  [validationStatus |-> "NONE", sendCode |-> NoCode,
   expire |-> 0, processStep |-> step]

\* INSERT; it fails on a key that exists, so callers guard it with Absent.
createValidation(table, id, data) == [table EXCEPT ![id] = data]

\* UPDATE ... WHERE requestId = id: without such a row it changes nothing.
UpdateWhere(table, id, row) ==
  IF table[id] = Absent THEN table ELSE [table EXCEPT ![id] = row]

updateValidationStatus(table, id, value) ==
  UpdateWhere(table, id, [table[id] EXCEPT !.validationStatus = value])

\* Mutant: the UPDATE forgets the status.
updateSendCodeAlone(table, id, data) ==
  UpdateWhere(table, id, [table[id] EXCEPT !.sendCode = data.sendCode,
                                           !.expire = data.expire])

\* Mutant: the UPDATE forgets the expiry.
updateSendCodeTimeless(table, id, data) ==
  UpdateWhere(table, id, [table[id] EXCEPT !.validationStatus = data.validationStatus,
                                           !.sendCode = data.sendCode])

updateSendCode(table, id, data) ==
  UpdateWhere(table, id, [table[id] EXCEPT !.validationStatus = data.validationStatus,
                                           !.sendCode = data.sendCode,
                                           !.expire = data.expire])

updateProcessStep(table, id, step) ==
  UpdateWhere(table, id, [table[id] EXCEPT !.processStep = step])

\* The ids that DELETE ... WHERE expire + 86400 < now takes out of the table.
\* A row whose code has not been sent has expire = 0.
ExpiredValidations(table, now) ==
  {id \in RequestIds : table[id] # Absent /\ table[id].expire + Retention < now}

removeExpiredValidation(table, now) ==
  [id \in RequestIds |->
     IF id \in ExpiredValidations(table, now) THEN Absent ELSE table[id]]

\* Mutant: the SELECT leaves out the requests of other validators.
getUnfinishedOwnJob(table) ==
  {[requestId |-> id, data |-> table[id]] :
     id \in {i \in RequestIds :
               /\ table[i] # Absent
               /\ table[i].processStep \in {"RECEIVED_REGISTER", "RECEIVED_CODE",
                                            "VOTED"}}}

\* SELECT: a snapshot of each row whose step asks for work.
getUnfinishedJob(table) ==
  {[requestId |-> id, data |-> table[id]] :
     id \in {i \in RequestIds :
               /\ table[i] # Absent
               /\ table[i].processStep \notin {"NONE", "SENT_SMS", "FINISHED"}}}

=============================================================================
