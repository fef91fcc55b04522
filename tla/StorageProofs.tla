---------------------------- MODULE StorageProofs ----------------------------
(***************************************************************************)
(* What the statements on the validation table leave in it.                *)
(***************************************************************************)
EXTENDS Storage, TLAPS

\* A new row is a row, without a code.
LEMMA NewRow ==
  ASSUME NEW step \in ProcessStep
  PROVE  /\ toValidationData(step) \in ValidationData
         /\ toValidationData(step) # Absent
         /\ toValidationData(step).validationStatus = "NONE"
         /\ toValidationData(step).sendCode = NoCode
         /\ toValidationData(step).processStep = step
BY AbsentAssumption DEF toValidationData, ValidationData, PhoneValidationStatus

\* An UPDATE changes no row but the one of its key, and adds or removes none.
LEMMA UpdateWhereRow ==
  ASSUME NEW table \in Tables, NEW id \in RequestIds, NEW row,
         table[id] # Absent => row \in ValidationData
  PROVE  /\ UpdateWhere(table, id, row) \in Tables
         /\ \A i \in RequestIds :
              (UpdateWhere(table, id, row)[i] = Absent) <=> (table[i] = Absent)
         /\ \A i \in RequestIds \ {id} : UpdateWhere(table, id, row)[i] = table[i]
         /\ table[id] # Absent => UpdateWhere(table, id, row)[id] = row
BY AbsentAssumption DEF UpdateWhere, Tables

\* What each UPDATE leaves in the row it finds.
LEMMA UpdateStep ==
  ASSUME NEW table \in Tables, NEW id \in RequestIds, NEW step \in ProcessStep
  PROVE  LET new == updateProcessStep(table, id, step) IN
         /\ new \in Tables
         /\ \A i \in RequestIds : (new[i] = Absent) <=> (table[i] = Absent)
         /\ \A i \in RequestIds \ {id} : new[i] = table[i]
         /\ table[id] # Absent =>
              /\ new[id] \in ValidationData
              /\ new[id].validationStatus = table[id].validationStatus
              /\ new[id].sendCode = table[id].sendCode
              /\ new[id].expire = table[id].expire
              /\ new[id].processStep = step
<1> DEFINE row == [table[id] EXCEPT !.processStep = step]
<1>1. table[id] # Absent => table[id] \in ValidationData
  BY DEF Tables
<1>2. table[id] # Absent =>
        /\ row \in ValidationData
        /\ row.validationStatus = table[id].validationStatus
        /\ row.sendCode = table[id].sendCode
        /\ row.expire = table[id].expire
        /\ row.processStep = step
  BY <1>1 DEF ValidationData
<1>3. updateProcessStep(table, id, step) = UpdateWhere(table, id, row)
  BY DEF updateProcessStep
<1> HIDE DEF row
<1>4. /\ UpdateWhere(table, id, row) \in Tables
      /\ \A i \in RequestIds :
           (UpdateWhere(table, id, row)[i] = Absent) <=> (table[i] = Absent)
      /\ \A i \in RequestIds \ {id} : UpdateWhere(table, id, row)[i] = table[i]
      /\ table[id] # Absent => UpdateWhere(table, id, row)[id] = row
  BY <1>2, UpdateWhereRow
<1> QED
  BY <1>2, <1>3, <1>4

LEMMA UpdateStatus ==
  ASSUME NEW table \in Tables, NEW id \in RequestIds,
         NEW status \in PhoneValidationStatus
  PROVE  LET new == updateValidationStatus(table, id, status) IN
         /\ new \in Tables
         /\ \A i \in RequestIds : (new[i] = Absent) <=> (table[i] = Absent)
         /\ \A i \in RequestIds \ {id} : new[i] = table[i]
         /\ table[id] # Absent =>
              /\ new[id] \in ValidationData
              /\ new[id].validationStatus = status
              /\ new[id].sendCode = table[id].sendCode
              /\ new[id].expire = table[id].expire
              /\ new[id].processStep = table[id].processStep
<1> DEFINE row == [table[id] EXCEPT !.validationStatus = status]
<1>1. table[id] # Absent => table[id] \in ValidationData
  BY DEF Tables
<1>2. table[id] # Absent =>
        /\ row \in ValidationData
        /\ row.validationStatus = status
        /\ row.sendCode = table[id].sendCode
        /\ row.expire = table[id].expire
        /\ row.processStep = table[id].processStep
  BY <1>1 DEF ValidationData
<1>3. updateValidationStatus(table, id, status) = UpdateWhere(table, id, row)
  BY DEF updateValidationStatus
<1> HIDE DEF row
<1>4. /\ UpdateWhere(table, id, row) \in Tables
      /\ \A i \in RequestIds :
           (UpdateWhere(table, id, row)[i] = Absent) <=> (table[i] = Absent)
      /\ \A i \in RequestIds \ {id} : UpdateWhere(table, id, row)[i] = table[i]
      /\ table[id] # Absent => UpdateWhere(table, id, row)[id] = row
  BY <1>2, UpdateWhereRow
<1> QED
  BY <1>2, <1>3, <1>4

LEMMA UpdateCode ==
  ASSUME NEW table \in Tables, NEW id \in RequestIds, NEW data \in ValidationData
  PROVE  LET new == updateSendCode(table, id, data) IN
         /\ new \in Tables
         /\ \A i \in RequestIds : (new[i] = Absent) <=> (table[i] = Absent)
         /\ \A i \in RequestIds \ {id} : new[i] = table[i]
         /\ table[id] # Absent =>
              /\ new[id] \in ValidationData
              /\ new[id].validationStatus = data.validationStatus
              /\ new[id].sendCode = data.sendCode
              /\ new[id].expire = data.expire
              /\ new[id].processStep = table[id].processStep
<1> DEFINE row == [table[id] EXCEPT !.validationStatus = data.validationStatus,
                                    !.sendCode = data.sendCode,
                                    !.expire = data.expire]
<1>1. table[id] # Absent => table[id] \in ValidationData
  BY DEF Tables
<1>2. table[id] # Absent =>
        /\ row \in ValidationData
        /\ row.validationStatus = data.validationStatus
        /\ row.sendCode = data.sendCode
        /\ row.expire = data.expire
        /\ row.processStep = table[id].processStep
  BY <1>1 DEF ValidationData
<1>3. updateSendCode(table, id, data) = UpdateWhere(table, id, row)
  BY DEF updateSendCode
<1> HIDE DEF row
<1>4. /\ UpdateWhere(table, id, row) \in Tables
      /\ \A i \in RequestIds :
           (UpdateWhere(table, id, row)[i] = Absent) <=> (table[i] = Absent)
      /\ \A i \in RequestIds \ {id} : UpdateWhere(table, id, row)[i] = table[i]
      /\ table[id] # Absent => UpdateWhere(table, id, row)[id] = row
  BY <1>2, UpdateWhereRow
<1> QED
  BY <1>2, <1>3, <1>4

=============================================================================
