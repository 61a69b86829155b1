----------------------------- MODULE QueueProofs ----------------------------
(***************************************************************************)
(* Proofs about Dashboard, and so about WebhookQueue, for every value of   *)
(* the constants: nobody is overtaken twice in the queue of the webhooks,  *)
(* and who turns the pages of the dashboard misses no row.                 *)
(***************************************************************************)
EXTENDS Dashboard, TableProofs, SequenceTheorems

-----------------------------------------------------------------------------
(* Type correctness.                                                       *)

TypeOK ==
    /\ TableTypeOK
    /\ older \in [Id -> SUBSET Id]
    /\ created \in [Id -> Nat] /\ now \in Nat
    /\ batch \subseteq Id /\ inline \subseteq Id
    /\ presses \in Nat
    /\ overtook \in [Id -> [Id -> Nat]]

(* What a stamp does to the order.                                         *)
LEMMA StampType ==
    ASSUME TypeOK, NEW i \in Id
    PROVE  /\ Stamped(i) => older' \in [Id -> SUBSET Id]
           /\ Touched(i) => older' \in [Id -> SUBSET Id]
<1>1. Rows \subseteq Id
  BY DEF Rows
<1> QED
  BY <1>1 DEF TypeOK, Stamped, Touched

(* Counting a delivery, and starting anew, keep the type of overtook.      *)
LEMMA OvertookType ==
    ASSUME TypeOK, NEW js, NEW touched, Overtaken(js, touched)
    PROVE  overtook' \in [Id -> [Id -> Nat]]
<1>1. NoneOvertook \in [Id -> Nat]
  BY DEF NoneOvertook
<1>2. ASSUME NEW i \in Id
      PROVE  [j \in Id |-> IF j \in js THEN overtook[i][j] + 1 ELSE overtook[i][j]]
                \in [Id -> Nat]
  BY DEF TypeOK
<1> QED
  BY <1>1, <1>2 DEF Overtaken

(* Every step keeps the types.                                             *)
LEMMA StepType == ASSUME TypeOK, [Next]_vars PROVE TypeOK'
<1> USE DEF TypeOK
<1>0. /\ NoneOvertook \in [Id -> Nat]
      /\ 1 \in Ref
      /\ Queue \subseteq Id
  BY BoundAssumption DEF NoneOvertook, Ref, Queue, Due, WebhookDue
<1>1. ASSUME NEW e \in Ext, Insert(e) PROVE TypeOK'
  <2>1. nextId \in Id
    BY <1>1 DEF Insert, InsertInvoice, TableTypeOK, Id
  <2>2. TableTypeOK'
    BY <1>1, BatchesType DEF Insert
  <2> QED
    BY <1>1, <2>1, <2>2, StampType DEF Insert, passVars
<1>2. ASSUME NEW i \in Id, NEW cb \in BOOLEAN, Replace(i, cb) PROVE TypeOK'
  <2>1. TableTypeOK'
    BY <1>2, StatementsType DEF Replace, Ref
  <2> QED
    BY <1>2, <2>1, StampType, OvertookType DEF Replace, passVars
<1>3. ASSUME NEW i \in Id, Delete(i) PROVE TypeOK'
  <2>1. TableTypeOK'
    BY <1>3, BatchesType DEF Delete, DeleteInvoice
  <2>2. \A k \in Id : [overtook[k] EXCEPT ![i] = 0] \in [Id -> Nat]
    OBVIOUS
  <2>3. overtook' \in [Id -> [Id -> Nat]]
    BY <1>0, <1>3, <2>2 DEF Delete
  <2> QED
    BY <1>3, <2>1, <2>3 DEF Delete, passVars
<1>4. ASSUME NEW i \in Id, PressRetry(i) PROVE TypeOK'
  <2>1. TableTypeOK'
    BY <1>4, <1>0, StatementsType DEF PressRetry
  <2> QED
    BY <1>4, <2>1, StampType, OvertookType DEF PressRetry, passVars
<1>5. CASE SecondPasses
  BY <1>5 DEF SecondPasses, tableVars, passVars, TableTypeOK
<1>6. ASSUME NEW i \in Id, Confirmed(i) PROVE TypeOK'
  <2>1. TableTypeOK'
    BY <1>6, <1>0, StatementsType DEF Confirmed
  <2>2. inline' \subseteq Id
    BY <1>6 DEF Confirmed
  <2> QED
    BY <1>6, <2>1, <2>2, StampType, OvertookType DEF Confirmed
<1>7. CASE StartPass
  BY <1>0, <1>7 DEF StartPass, tableVars, timeVars, TableTypeOK
<1>8. ASSUME NEW i \in Id, Deliver(i) PROVE TypeOK'
  <2>1. TableTypeOK'
    BY <1>8, <1>0, StatementsType DEF Deliver
  <2> QED
    BY <1>8, <2>1, StampType, OvertookType DEF Deliver
<1>9. ASSUME NEW i \in Id, DeliverUnrecorded(i) PROVE TypeOK'
  BY <1>9 DEF DeliverUnrecorded, tableVars, timeVars, TableTypeOK
<1>10. Restarted => TypeOK'
  BY DEF Restarted, tableVars, timeVars, TableTypeOK
<1>11. UNCHANGED vars => TypeOK'
  BY DEF vars, tableVars, timeVars, passVars, TableTypeOK
<1> QED
  BY <1>1, <1>2, <1>3, <1>4, <1>5, <1>6, <1>7, <1>8, <1>9, <1>10, <1>11 DEF Next, Api

(* Every variable has its type in every reachable state.                   *)
THEOREM QueueTypeCorrect == Spec => []TypeOK
<1>1. Init => TypeOK
  BY BlankRows, BoundAssumption
     DEF Init, TableInit, TypeOK, TableTypeOK, NoneOvertook, Id
<1> QED
  BY <1>1, StepType, PTL DEF Spec

-----------------------------------------------------------------------------
(* Nobody is overtaken twice.                                              *)

(* The times order the rows.                                               *)
OrderSound == IsOrder(older, Rows)

(* AUTOINCREMENT: the next id was never used, and nobody tries it.         *)
IdsAreFresh ==
    \A i \in Id : i >= nextId => ~Live(i) /\ i \notin batch

(* Who overtook i came to the end of the queue by it, behind i, or is      *)
(* deleted for good.  So it is not in a batch before i is.                 *)
TurnsSound ==
    \A i, j \in Id :
        /\ overtook[i][j] \in {0, 1}
        /\ overtook[i][j] = 1 =>
              /\ Waits(i)
              /\ j \notin batch /\ j < nextId
              /\ Live(j) => i \in older[j]

IInv == TypeOK /\ OrderSound /\ IdsAreFresh /\ TurnsSound

(* Who waits has a row, and rows have used ids.                            *)
LEMMA DueAreRows ==
    ASSUME IInv
    PROVE  /\ Due \subseteq Rows
           /\ Queue \subseteq Due
           /\ \A i \in Rows : i \in Id /\ i < nextId
<1>1. \A i \in Id : i \in Nat /\ nextId \in Nat
  BY DEF IInv, TypeOK, TableTypeOK, Id
<1> QED
  BY <1>1 DEF IInv, IdsAreFresh, Due, WebhookDue, Rows, Live, Queue

(* An UPDATE by id.                                                        *)
LEMMA UpdatedRow ==
    ASSUME TypeOK, NEW i \in Id, NEW row, UpdateRow(i, row), row.status # "ABSENT"
    PROVE  /\ \A k \in Id \ {i} : invoices'[k] = invoices[k]
           /\ Rows' = Rows
           /\ nextId' = nextId
<1>1. invoices \in [Id -> Row]
  BY DEF TypeOK, TableTypeOK
<1>2. \A k \in Id \ {i} : invoices'[k] = invoices[k]
  BY <1>1 DEF UpdateRow
<1>3. Live(i)' <=> Live(i)
  BY <1>1 DEF UpdateRow, Live
<1> QED
  BY <1>2, <1>3 DEF UpdateRow, Rows, Live

(* Stamping a row keeps the order sound, if no other one is new.           *)
LEMMA StampKeepsOrder ==
    ASSUME IInv, NEW i \in Id, Stamped(i), Rows' = Rows \cup {i}
    PROVE  OrderSound'
<1>1. \A j \in Id : older'[j] = IF j = i THEN Rows \ {i} ELSE older[j] \ {i}
  BY DEF Stamped
<1>2. IsOrder(older, Rows) /\ Rows \subseteq Id
  BY DEF IInv, OrderSound, Rows
<1>3. /\ older'[i] = Rows \ {i}
      /\ \A k \in Rows \ {i} : /\ older'[k] = older[k] \ {i}
                               /\ older[k] \subseteq Rows /\ k \notin older[k]
  <2>1. \A k \in Rows : older[k] \subseteq Rows /\ k \notin older[k]
    BY <1>2 DEF IsOrder
  <2> QED
    BY <1>1, <1>2, <2>1
<1>4. \A k \in Rows' : older'[k] \subseteq Rows' /\ k \notin older'[k]
  BY <1>3
<1>5. ASSUME NEW k \in Rows', NEW j \in older'[k]
      PROVE  older'[j] \subseteq older'[k]
  <2>1. j \in Rows /\ j # i
    BY <1>3, <1>5
  <2>2. older'[j] = older[j] \ {i} /\ older[j] \subseteq Rows
    BY <1>3, <2>1
  <2>3. CASE k = i
    BY <1>3, <2>2, <2>3
  <2>4. CASE k # i
    <3>1. k \in Rows /\ j \in older[k] /\ older'[k] = older[k] \ {i}
      BY <1>3, <1>5, <2>4
    <3>2. older[j] \subseteq older[k]
      BY <1>2, <3>1 DEF IsOrder
    <3> QED
      BY <2>2, <3>1, <3>2
  <2> QED
    BY <2>3, <2>4
<1>6. ASSUME NEW k \in Rows', NEW j \in Rows'
      PROVE  k = j \/ k \in older'[j] \/ j \in older'[k]
  <2>1. CASE k = i \/ j = i
    BY <1>3, <2>1
  <2>2. CASE k # i /\ j # i
    <3>1. k \in Rows /\ j \in Rows
      BY <2>2
    <3>2. k = j \/ k \in older[j] \/ j \in older[k]
      BY <1>2, <3>1 DEF IsOrder
    <3> QED
      BY <1>3, <2>2, <3>1, <3>2
  <2> QED
    BY <2>1, <2>2
<1> QED
  BY <1>4, <1>5, <1>6 DEF OrderSound, IsOrder

(* An UPDATE stamps a row that was there, or does nothing.                 *)
LEMMA TouchKeepsOrder ==
    ASSUME IInv, NEW i \in Id, Touched(i), Rows' = Rows
    PROVE  OrderSound'
<1>1. CASE Live(i)
  <2>1. Stamped(i) /\ Rows' = Rows \cup {i}
    BY <1>1 DEF Touched, Rows
  <2> QED
    BY <2>1, StampKeepsOrder
<1>2. CASE ~Live(i)
  BY <1>2 DEF Touched, IInv, OrderSound
<1> QED
  BY <1>1, <1>2

(* The row i is written and stamped.  It was delivered from the queue if   *)
(* it left the batch.                                                      *)
LEMMA TouchKeepsIInv ==
    ASSUME IInv, TypeOK', NEW i \in Id, NEW row, UpdateRow(i, row), row.status # "ABSENT",
           Touched(i), NEW js \in SUBSET (batch \cap {i}), Overtaken(js, {i}),
           batch' = batch \ js
    PROVE  IInv'
<1>1. /\ \A k \in Id \ {i} : invoices'[k] = invoices[k]
      /\ Rows' = Rows
      /\ nextId' = nextId
  BY UpdatedRow DEF IInv
<1>2. OrderSound'
  BY <1>1, TouchKeepsOrder
<1>3. IdsAreFresh'
  BY <1>1 DEF IInv, IdsAreFresh, Rows
<1>4. ASSUME NEW k \in Id, NEW j \in Id, overtook'[k][j] # 0
      PROVE  /\ overtook'[k][j] = 1 /\ Waits(k)'
             /\ j \notin batch' /\ j < nextId'
             /\ Live(j)' => k \in older'[j]
  <2>1. Waits(k) /\ k # i
    BY <1>4 DEF Overtaken, NoneOvertook
  <2>2. overtook'[k][j] = IF j \in js THEN overtook[k][j] + 1 ELSE overtook[k][j]
    BY <2>1 DEF Overtaken
  <2>3. Waits(k)'
    BY <1>1, <2>1 DEF Waits, Due, WebhookDue
  <2>4. k \in Rows
    BY <2>1, DueAreRows DEF Waits
  <2>5. CASE j \in js
    <3>1. j = i /\ j \in batch /\ j \notin batch'
      BY <2>5
    <3>2. overtook[k][j] = 0 /\ j < nextId
      BY <3>1, DueAreRows DEF IInv, TurnsSound, IdsAreFresh, TypeOK, TableTypeOK, Id
    <3>3. Live(j)' => k \in older'[j]
      BY <1>1, <2>1, <2>4, <3>1 DEF Touched, Stamped, Rows
    <3> QED
      BY <1>1, <2>2, <2>3, <2>5, <3>1, <3>2, <3>3
  <2>6. CASE j \notin js
    <3>1. overtook[k][j] = 1 /\ overtook'[k][j] = 1
      BY <1>4, <2>2, <2>6 DEF IInv, TurnsSound
    <3>2. j \notin batch /\ j < nextId /\ (Live(j) => k \in older[j])
      BY <3>1 DEF IInv, TurnsSound
    <3>3. Live(j)' => k \in older'[j]
      BY <1>1, <2>1, <2>4, <3>2 DEF Touched, Stamped, Rows
    <3> QED
      BY <1>1, <2>3, <3>1, <3>2, <3>3
  <2> QED
    BY <2>5, <2>6
<1>5. TurnsSound'
  BY <1>4 DEF TurnsSound
<1> QED
  BY <1>2, <1>3, <1>5 DEF IInv

(* A pass reads the first of those who wait: who overtook i is behind it.  *)
LEMMA StartPassKeepsIInv ==
    ASSUME IInv, TypeOK', StartPass
    PROVE  IInv'
<1>1. UNCHANGED <<invoices, nextId, older>> /\ batch = {} /\ batch' = Queue
  BY DEF StartPass, tableVars, timeVars
<1>2. OrderSound'
  BY <1>1 DEF IInv, OrderSound, Rows, Live
<1>3. IdsAreFresh'
  BY <1>1, DueAreRows DEF IInv, IdsAreFresh, Live, Rows
<1>4. ASSUME NEW k \in Id, NEW j \in Id, overtook'[k][j] # 0
      PROVE  /\ overtook'[k][j] = 1 /\ Waits(k)'
             /\ j \notin batch' /\ j < nextId'
             /\ Live(j)' => k \in older'[j]
  <2>1. k \notin Queue /\ overtook'[k][j] = overtook[k][j]
    BY <1>1, <1>4 DEF StartPass, NoneOvertook
  <2>2. overtook[k][j] = 1 /\ Waits(k) /\ j < nextId /\ (Live(j) => k \in older[j])
    BY <1>4, <2>1 DEF IInv, TurnsSound
  <2>3. Waits(k)'
    BY <1>1, <2>1, <2>2 DEF Waits, Due, WebhookDue
  <2>4. ASSUME j \in Queue PROVE FALSE
    <3>1. j \in Due /\ k \in Due /\ Live(j)
      BY <2>2, <2>4, DueAreRows DEF Waits, Rows
    <3>2. older[k] \cap Due \subseteq older[j] \cap Due
      BY <2>2, <3>1 DEF IInv, OrderSound, IsOrder, Rows
    <3>3. IsFiniteSet(older[j] \cap Due)
      BY IdsAreFinite DEF Due, WebhookDue
    <3>4. /\ Cardinality(older[j] \cap Due) \in Nat /\ Cardinality(older[k] \cap Due) \in Nat
          /\ Cardinality(older[k] \cap Due) <= Cardinality(older[j] \cap Due)
      BY <3>2, <3>3, FS_Subset, FS_CardinalityType
    <3>5. Cardinality(older[k] \cap Due) < BatchSize
      BY <2>4, <3>4, QueueAssumption DEF Queue
    <3> QED
      BY <2>1, <3>1, <3>5 DEF Queue
  <2> QED
    BY <1>1, <2>1, <2>2, <2>3, <2>4 DEF Live
<1>5. TurnsSound'
  BY <1>4 DEF TurnsSound
<1> QED
  BY <1>2, <1>3, <1>5 DEF IInv

(* A new row, and a row that goes, overtake nobody.                        *)
LEMMA RowsComeAndGo ==
    ASSUME IInv, TypeOK'
    PROVE  /\ \A e \in Ext : Insert(e) => IInv'
           /\ \A i \in Id : Delete(i) => IInv'
<1>0. nextId \in Nat /\ \A i \in Id : i \in Nat
  BY DEF IInv, TypeOK, TableTypeOK, Id
<1>1. ASSUME NEW e \in Ext, Insert(e) PROVE IInv'
  <2>1. /\ nextId \in Id /\ ~Live(nextId) /\ nextId \notin batch
        /\ nextId' = nextId + 1 /\ batch' = batch /\ overtook' = overtook
        /\ invoices'[nextId].status = "PENDING"
        /\ \A k \in Id \ {nextId} : invoices'[k] = invoices[k]
    BY <1>0, <1>1
       DEF IInv, TypeOK, TableTypeOK, IdsAreFresh, Insert, InsertInvoice, passVars, Id, NewRow
  <2>2. Rows' = Rows \cup {nextId}
    BY <2>1 DEF Rows, Live
  <2>3. OrderSound'
    BY <1>1, <2>1, <2>2, StampKeepsOrder DEF Insert
  <2>4. IdsAreFresh'
    BY <1>0, <2>1 DEF IInv, IdsAreFresh, Live
  <2>5. ASSUME NEW k \in Id, NEW j \in Id, overtook[k][j] # 0
        PROVE  /\ overtook'[k][j] = 1 /\ Waits(k)'
               /\ j \notin batch' /\ j < nextId'
               /\ Live(j)' => k \in older'[j]
    <3>1. /\ overtook[k][j] = 1 /\ Waits(k)
          /\ j \notin batch /\ j < nextId /\ (Live(j) => k \in older[j])
      BY <2>5 DEF IInv, TurnsSound
    <3>2. k # nextId /\ j # nextId
      BY <1>0, <2>1, <3>1, DueAreRows DEF Waits, Rows
    <3>3. Waits(k)'
      BY <2>1, <3>1, <3>2 DEF Waits, Due, WebhookDue
    <3>4. Live(j)' => k \in older'[j]
      BY <1>1, <2>1, <3>1, <3>2 DEF Insert, Stamped, Live
    <3> QED
      BY <1>0, <2>1, <3>1, <3>3, <3>4
  <2>6. TurnsSound'
    BY <2>1, <2>5 DEF TurnsSound
  <2> QED
    BY <2>3, <2>4, <2>6 DEF IInv
<1>2. ASSUME NEW i \in Id, Delete(i) PROVE IInv'
  <2>1. /\ nextId' = nextId /\ batch' = batch
        /\ invoices'[i].status = "ABSENT"
        /\ \A k \in Id \ {i} : invoices'[k] = invoices[k]
        /\ \A k \in Id : older'[k] = IF k = i THEN {} ELSE older[k] \ {i}
    BY <1>2 DEF IInv, TypeOK, TableTypeOK, Delete, DeleteInvoice, DeleteRow, passVars,
                NoRow, NewRow
  <2>2. Rows' = Rows \ {i}
    BY <2>1 DEF Rows, Live
  <2>3. OrderSound'
    <3>1. IsOrder(older, Rows) /\ Rows \subseteq Id
      BY DEF IInv, OrderSound, Rows
    <3>2. \A k \in Rows' : k \in Rows /\ older'[k] = older[k] \ {i}
      BY <2>1, <2>2, <3>1
    <3>3. ASSUME NEW k \in Rows', NEW j \in older'[k]
          PROVE  older'[j] \subseteq older'[k]
      <4>1. k \in Rows /\ j \in older[k] /\ j \in Rows'
        BY <2>2, <3>1, <3>2, <3>3 DEF IsOrder
      <4>2. older[j] \subseteq older[k]
        BY <3>1, <4>1 DEF IsOrder
      <4> QED
        BY <3>2, <4>1, <4>2
    <3> QED
      BY <2>2, <3>1, <3>2, <3>3 DEF OrderSound, IsOrder
  <2>4. IdsAreFresh'
    BY <2>1 DEF IInv, IdsAreFresh, Live
  <2>5. ASSUME NEW k \in Id, NEW j \in Id, overtook'[k][j] # 0
        PROVE  /\ overtook'[k][j] = 1 /\ Waits(k)'
               /\ j \notin batch' /\ j < nextId'
               /\ Live(j)' => k \in older'[j]
    <3>1. k # i /\ j # i /\ overtook'[k][j] = overtook[k][j]
      BY <1>2, <2>5 DEF IInv, TypeOK, Delete, NoneOvertook
    <3>2. /\ overtook[k][j] = 1 /\ Waits(k)
          /\ j \notin batch /\ j < nextId /\ (Live(j) => k \in older[j])
      BY <2>5, <3>1 DEF IInv, TurnsSound
    <3>3. Waits(k)'
      BY <2>1, <3>1, <3>2 DEF Waits, Due, WebhookDue
    <3>4. Live(j)' => k \in older'[j]
      BY <2>1, <3>1, <3>2 DEF Live
    <3> QED
      BY <2>1, <3>1, <3>2, <3>3, <3>4
  <2>6. TurnsSound'
    BY <2>5 DEF TurnsSound
  <2> QED
    BY <2>3, <2>4, <2>6 DEF IInv
<1> QED
  BY <1>1, <1>2

(* Leaving a batch untried changes nobody's place.                         *)
LEMMA BatchShrinks ==
    ASSUME IInv, TypeOK', UNCHANGED <<invoices, nextId, older, overtook>>,
           batch' \subseteq batch
    PROVE  IInv'
<1>1. OrderSound' /\ IdsAreFresh'
  BY DEF IInv, OrderSound, IdsAreFresh, Rows, Live
<1>2. \A i \in Id : Waits(i) => Waits(i)'
  BY DEF Waits, Due, WebhookDue
<1>3. TurnsSound'
  BY <1>2 DEF IInv, TurnsSound, Live
<1> QED
  BY <1>1, <1>3 DEF IInv

(* Every step keeps the invariant.                                         *)
LEMMA StepKeepsIInv == ASSUME IInv, TypeOK', [Next]_vars PROVE IInv'
<1>0. \A i \in Id : invoices[i] \in Row
  BY DEF IInv, TypeOK, TableTypeOK
<1>1. ASSUME NEW i \in Id, NEW cb \in BOOLEAN, Replace(i, cb) PROVE IInv'
  <2> DEFINE row == [invoices[i] EXCEPT
                        !.status = "PENDING", !.attempts = 0, !.ref = NoRef,
                        !.callback = cb, !.delivered = FALSE,
                        !.whAttempts = 0, !.ver = @ + 1]
  <2>1. UpdateRow(i, row) /\ row.status # "ABSENT"
    BY <1>0, <1>1 DEF Replace, ReplaceInvoice, Row
  <2>2. Touched(i) /\ Overtaken({}, {i}) /\ batch' = batch \ {}
    BY <1>1 DEF Replace, passVars
  <2> HIDE DEF row
  <2> QED
    BY <2>1, <2>2, TouchKeepsIInv
<1>2. ASSUME NEW i \in Id, PressRetry(i) PROVE IInv'
  <2> DEFINE row == [invoices[i] EXCEPT !.whAttempts = 0]
  <2>1. UpdateRow(i, row) /\ row.status # "ABSENT"
    BY <1>0, <1>2 DEF PressRetry, ResetWebhookAttemptCount, Row, Live
  <2>2. Touched(i) /\ Overtaken({}, {i}) /\ batch' = batch \ {}
    BY <1>2 DEF PressRetry, passVars
  <2> HIDE DEF row
  <2> QED
    BY <2>1, <2>2, TouchKeepsIInv
<1>3. ASSUME NEW i \in Id, Confirmed(i) PROVE IInv'
  <2>1. PICK row : UpdateRow(i, row) /\ row.status # "ABSENT"
    <3>1. /\ [invoices[i] EXCEPT !.status = "FAILED"].status # "ABSENT"
          /\ [invoices[i] EXCEPT !.status = "SENT", !.ksefId = TRUE, !.ref = 1].status # "ABSENT"
      BY <1>0 DEF Row
    <3> QED
      BY <1>3, <3>1 DEF Confirmed, UpdateFailedInvoice, UpdateSentInvoice
  <2>2. Touched(i) /\ Overtaken({}, {i}) /\ batch' = batch \ {}
    BY <1>3 DEF Confirmed
  <2> QED
    BY <2>1, <2>2, TouchKeepsIInv
<1>4. ASSUME NEW i \in Id, Deliver(i) PROVE IInv'
  <2>1. CASE Live(i)
    <3>1. PICK row : UpdateRow(i, row) /\ row.status # "ABSENT"
      <4>1. /\ [invoices[i] EXCEPT !.delivered = TRUE].status # "ABSENT"
            /\ [invoices[i] EXCEPT !.whAttempts = @ + 1].status # "ABSENT"
        BY <1>0, <2>1 DEF Row, Live
      <4> QED
        BY <1>4, <4>1 DEF Deliver, UpdateWebhookDelivered, UpdateWebhookFailed
    <3>2. Touched(i) /\ Overtaken(batch \cap {i}, {i}) /\ batch' = batch \ (batch \cap {i})
      BY <1>4 DEF Deliver
    <3> QED
      BY <3>1, <3>2, TouchKeepsIInv
  <2>2. CASE ~Live(i)
    <3>1. UpdateRow(i, NewRow(NoExt, FALSE)) /\ NewRow(NoExt, FALSE).status # "ABSENT"
      BY <1>4, <2>2
         DEF Deliver, UpdateWebhookDelivered, UpdateWebhookFailed, UpdateRow, NewRow
    <3>2. Touched(i) /\ Overtaken(batch \cap {i}, {i}) /\ batch' = batch \ (batch \cap {i})
      BY <1>4 DEF Deliver
    <3> QED
      BY <3>1, <3>2, TouchKeepsIInv
  <2> QED
    BY <2>1, <2>2
<1>5. ASSUME NEW i \in Id, DeliverUnrecorded(i) PROVE IInv'
  BY <1>5, BatchShrinks DEF DeliverUnrecorded, tableVars, timeVars
<1>6. Restarted => IInv'
  BY BatchShrinks DEF Restarted, tableVars, timeVars
<1>7. SecondPasses => IInv'
  BY BatchShrinks DEF SecondPasses, tableVars, passVars
<1>8. UNCHANGED vars => IInv'
  BY BatchShrinks DEF vars, tableVars, timeVars, passVars
<1> QED
  BY <1>1, <1>2, <1>3, <1>4, <1>5, <1>6, <1>7, <1>8, RowsComeAndGo, StartPassKeepsIInv
     DEF Next, Api

(* The order of the queue is sound in every reachable state.               *)
THEOREM QueueInvariance == Spec => []IInv
<1>1. Init => IInv
  <2> SUFFICES ASSUME Init PROVE OrderSound /\ IdsAreFresh /\ TurnsSound /\ TypeOK
    BY DEF IInv
  <2>1. TypeOK
    BY BlankRows, BoundAssumption
       DEF Init, TableInit, TypeOK, TableTypeOK, NoneOvertook, Id
  <2>2. OrderSound /\ IdsAreFresh
    <3>1. \A i \in Id : ~Live(i)
      BY DEF Init, TableInit, Live, NoRow, NewRow
    <3> QED
      BY <3>1 DEF Init, OrderSound, IsOrder, IdsAreFresh, Rows
  <2>3. TurnsSound
    BY DEF Init, TurnsSound, NoneOvertook
  <2> QED
    BY <2>1, <2>2, <2>3
<1>2. IInv /\ TypeOK' /\ [Next]_vars => IInv'
  BY StepKeepsIInv
<1> QED
  BY <1>1, <1>2, QueueTypeCorrect, PTL DEF Spec

(* A pass of WebhookQueue reads what a pass of Service may read:           *)
(* GetInvoicesToWebhook of module InvoiceModel, which leaves the order     *)
(* out, allows every queue.  So a batch is full, or takes all who are due. *)
THEOREM QueueIsAllowed ==
    Spec => [](Queue \in GetInvoicesToWebhook(WebhookRetries, BatchSize))
<1>1. IInv => Queue \in GetInvoicesToWebhook(WebhookRetries, BatchSize)
  <2> SUFFICES ASSUME IInv PROVE Queue \in GetInvoicesToWebhook(WebhookRetries, BatchSize)
    OBVIOUS
  <2> DEFINE before == [i \in Due |-> older[i] \cap Due]
  <2>1. Due \subseteq Rows /\ Due \subseteq Id
    BY DueAreRows DEF Rows
  <2>2. IsOrder(older, Rows)
    BY DEF IInv, OrderSound
  <2>3. IsOrder(before, Due)
    BY <2>1, <2>2 DEF IsOrder
  <2>4. Queue = {i \in Due : Cardinality(before[i]) < BatchSize}
    BY DEF Queue
  <2> HIDE DEF before
  <2>5. IsFiniteSet(Due) /\ Cardinality(Due) \in Nat
    BY <2>1, IdsAreFinite
  <2>6. IF Cardinality(Due) <= BatchSize THEN Queue = Due ELSE Cardinality(Queue) = BatchSize
    BY <2>3, <2>4, <2>5, FirstAreMany, QueueAssumption
  <2> QED
    BY <2>4, <2>6 DEF GetInvoicesToWebhook, Due
<1> QED
  BY <1>1, QueueInvariance, PTL

(* A row that waits for its webhook sees at most one recorded try of any   *)
(* other row, which is in no batch again before its own turn:              *)
(* GetInvoicesToWebhook orders by updated_at, and every recorded attempt,  *)
(* also a failed one, renews it.                                           *)
THEOREM NobodyOvertakesTwice == Spec => []NoOvertaking
<1>1. IInv => NoOvertaking
  BY DEF IInv, TurnsSound, NoOvertaking
<1> QED
  BY <1>1, QueueInvariance, PTL

-----------------------------------------------------------------------------
(* The pages of the dashboard.                                             *)

(* A row keeps its created_at as long as it is there.                      *)
LEMMA CreatedOnce ==
    ASSUME IInv, [Next]_vars, NEW i \in Id, Live(i), Live(i)'
    PROVE  created'[i] = created[i]
<1>1. ASSUME NEW e \in Ext, Insert(e) PROVE created'[i] = created[i]
  <2>1. i # nextId
    BY DEF IInv, IdsAreFresh, TypeOK, TableTypeOK, Id
  <2> QED
    BY <1>1, <2>1 DEF IInv, TypeOK, Insert
<1>2. ASSUME NEW k \in Id, Delete(k) PROVE created'[i] = created[i]
  <2>1. i # k
    BY <1>2 DEF IInv, TypeOK, TableTypeOK, Delete, DeleteInvoice, DeleteRow, NoRow, NewRow, Live
  <2> QED
    BY <1>2, <2>1 DEF IInv, TypeOK, Delete
<1> QED
  BY <1>1, <1>2
     DEF Next, Api, Replace, PressRetry, SecondPasses, StartPass, Restarted, Confirmed,
         Deliver, DeliverUnrecorded, vars, timeVars

(* Who turns the pages misses no row: as long as no row leaves the list,   *)
(* none moves to an earlier place in it, whatever is inserted, sent,       *)
(* delivered or retried meanwhile (ORDER BY created_at DESC).              *)
THEOREM NoRowIsHidden == Spec => RowsNeverHidden
<1> DEFINE Stays == \A filter \in Filter : \A i \in Matching(filter, Ext) \cap Matching(filter, Ext)' :
          Matching(filter, Ext) \subseteq Matching(filter, Ext)' =>
              Rank(i, Matching(filter, Ext))' >= Rank(i, Matching(filter, Ext))
<1>1. IInv /\ [Next]_vars => [Stays]_vars
  <2> SUFFICES ASSUME IInv, [Next]_vars, NEW filter \in Filter,
                      NEW i \in Matching(filter, Ext),
                      Matching(filter, Ext) \subseteq Matching(filter, Ext)'
               PROVE  Rank(i, Matching(filter, Ext))' >= Rank(i, Matching(filter, Ext))
    OBVIOUS
  <2> DEFINE old == {j \in Matching(filter, Ext) : Before(j, i)}
             new == {j \in Matching(filter, Ext)' : Before(j, i)'}
  <2>1. \A j \in Matching(filter, Ext) : j \in Id /\ created'[j] = created[j]
    BY CreatedOnce DEF Matching
  <2>2. old \subseteq new
    BY <2>1 DEF Before
  <2>3. IsFiniteSet(new)
    <3>1. new \subseteq Id
      BY DEF Matching
    <3> QED
      BY <3>1, IdsAreFinite
  <2>4. Cardinality(old) <= Cardinality(new) /\ Cardinality(old) \in Nat /\ Cardinality(new) \in Nat
    BY <2>2, <2>3, FS_Subset, FS_CardinalityType
  <2> QED
    BY <2>4 DEF Rank
<1> QED
  BY <1>1, QueueInvariance, PTL DEF Spec, RowsNeverHidden

(* The rows of a list have the ranks from 0 on, each has its own.          *)
LEMMA RanksAreUnique ==
    ASSUME TypeOK, NEW S \in SUBSET Id
    PROVE  /\ Cardinality(S) \in Nat
           /\ \A i \in S : Rank(i, S) \in 0 .. (Cardinality(S) - 1)
           /\ \A i, j \in S : Rank(i, S) = Rank(j, S) => i = j
           /\ \A r \in 0 .. (Cardinality(S) - 1) : \E i \in S : Rank(i, S) = r
<1> DEFINE before == [i \in S |-> {j \in S : Before(j, i)}]
<1>1. \A i \in Id : i \in Nat /\ created[i] \in Nat
  BY DEF TypeOK, Id
<1>2. IsOrder(before, S)
  BY <1>1 DEF IsOrder, Before
<1>3. IsFiniteSet(S)
  BY IdsAreFinite
<1>4. \A i \in S : Rank(i, S) = Cardinality(before[i])
  BY DEF Rank
<1> HIDE DEF before
<1> DEFINE places == [i \in S |-> Cardinality(before[i])]
<1>5. /\ Cardinality(S) \in Nat
      /\ places \in Injection(S, 0 .. (Cardinality(S) - 1))
      /\ places \in Surjection(S, 0 .. (Cardinality(S) - 1))
  BY <1>2, <1>3, PlacesAreUnique
<1>6. \A i \in S : places[i] = Rank(i, S)
  BY <1>4
<1> HIDE DEF places
<1>7. \A i \in S : Rank(i, S) \in 0 .. (Cardinality(S) - 1)
  BY <1>5, <1>6 DEF Injection
<1>8. \A i, j \in S : Rank(i, S) = Rank(j, S) => i = j
  BY <1>5, <1>6 DEF Injection, IsInjective
<1>9. \A r \in 0 .. (Cardinality(S) - 1) : \E i \in S : Rank(i, S) = r
  BY <1>5, <1>6 DEF Surjection
<1> QED
  BY <1>5, <1>7, <1>8, <1>9

(* The list is the matching rows, at the places of their ranks.            *)
LEMMA ListIsRanked ==
    ASSUME TypeOK, NEW filter, NEW query
    PROVE  LET S == Matching(filter, query)
               n == Cardinality(S)
           IN  /\ n \in 0 .. MaxId
               /\ Listed(filter, query) \in Seq(Id)
               /\ Len(Listed(filter, query)) = n
               /\ \A k \in 1 .. n : /\ Listed(filter, query)[k] \in S
                                    /\ Rank(Listed(filter, query)[k], S) = k - 1
               /\ \A i \in S : Listed(filter, query)[Rank(i, S) + 1] = i
<1> DEFINE S == Matching(filter, query)
           n == Cardinality(S)
           at(k) == CHOOSE i \in S : Rank(i, S) = k - 1
<1>1. S \in SUBSET Id
  BY DEF Matching
<1>2. n \in 0 .. MaxId
  BY <1>1, IdsAreFinite
<1>3. Listed(filter, query) = [k \in 1 .. n |-> at(k)]
  BY DEF Listed
<1> HIDE DEF S
<1>4. \A k \in 1 .. n : at(k) \in S /\ Rank(at(k), S) = k - 1
  <2> TAKE k \in 1 .. n
  <2>1. k - 1 \in 0 .. (n - 1)
    BY <1>2
  <2>2. \E i \in S : Rank(i, S) = k - 1
    BY <1>1, <2>1, RanksAreUnique
  <2> QED
    BY <2>2
<1>5. \A i \in S : at(Rank(i, S) + 1) = i /\ Rank(i, S) + 1 \in 1 .. n
  <2> TAKE i \in S
  <2>1. Rank(i, S) \in 0 .. (n - 1)
    BY <1>1, RanksAreUnique
  <2>2. Rank(i, S) + 1 \in 1 .. n /\ (Rank(i, S) + 1) - 1 = Rank(i, S)
    BY <1>2, <2>1
  <2>3. at(Rank(i, S) + 1) \in S /\ Rank(at(Rank(i, S) + 1), S) = Rank(i, S)
    BY <1>4, <2>2
  <2> QED
    BY <1>1, <2>2, <2>3, RanksAreUnique
<1>6. Listed(filter, query) \in Seq(Id) /\ Len(Listed(filter, query)) = n
  <2>1. \A k \in 1 .. n : at(k) \in Id
    BY <1>1, <1>4
  <2> HIDE DEF at
  <2> QED
    BY <1>2, <1>3, <2>1
<1> HIDE DEF at
<1> QED
  BY <1>2, <1>3, <1>4, <1>5, <1>6 DEF S

(* Products grow with their factors.                                       *)
LEMMA Products ==
    ASSUME NEW a \in Int, NEW b \in Int, NEW c \in Nat, a <= b
    PROVE  a * c <= b * c
<1>1. PICK d \in Nat : b = a + d
  <2> WITNESS b - a \in Nat
  <2> QED
    OBVIOUS
<1>2. b * c = a * c + d * c
  BY <1>1
<1>3. d * c \in Nat
  OBVIOUS
<1> QED
  BY <1>2, <1>3

(* The quotient is the number of whole pages before a row.                 *)
LEMMA Quotients ==
    ASSUME NEW r \in Nat, NEW c \in Nat \ {0}
    PROVE  /\ r \div c \in Nat
           /\ (r \div c) * c <= r
           /\ r < (r \div c + 1) * c
<1>1. r = c * (r \div c) + (r % c) /\ 0 <= r % c /\ r % c < c /\ r \div c \in Int
  OBVIOUS
<1>2. r \div c \in Nat
  OBVIOUS
<1> QED
  BY <1>1, <1>2

(* An int holds the offset of every row there can be.                      *)
LEMMA SmallIsNotWrapped ==
    ASSUME NEW x \in Nat, x < MaxInt
    PROVE  Wrapped(x) = x
<1>1. x + MaxInt \in Nat /\ 2 * MaxInt \in Nat \ {0} /\ x + MaxInt < 2 * MaxInt
  BY PageAssumption
<1>2. \A y \in Nat, m \in Nat \ {0} : y < m => y % m = y
  OBVIOUS
<1> QED
  BY <1>1, <1>2, PageAssumption DEF Wrapped

(* Page p shows the rows of the ranks from (p - 1) * PageSize on, and says *)
(* whether there are more.                                                 *)
LEMMA RowsOfPage ==
    ASSUME TypeOK, MaxId <= MaxInt, NEW filter, NEW query,
           NEW p \in 1 .. LastPage(filter, query)
    PROVE  LET S == Matching(filter, query)
           IN  /\ RowsOn(filter, query, p) =
                     {i \in S : (p - 1) * PageSize <= Rank(i, S) /\ Rank(i, S) < p * PageSize}
               /\ dashboardHelper(filter, query, p).More <=> Cardinality(S) > p * PageSize
<1> DEFINE S == Matching(filter, query)
           n == Cardinality(S)
           rows == Listed(filter, query)
           start == (p - 1) * PageSize
           end == IF start + PageSize + 1 < n THEN start + PageSize + 1 ELSE n
           read == SubSeq(rows, start + 1, end)
           shown == dashboardHelper(filter, query, p).Invoices
<1>0. PageSize \in Nat \ {0} /\ MaxInt \in Nat \ {0} /\ MaxId \in Nat
  BY PageAssumption, BoundAssumption
<1>1. /\ n \in 0 .. MaxId
      /\ rows \in Seq(Id) /\ Len(rows) = n
      /\ \A k \in 1 .. n : rows[k] \in S /\ Rank(rows[k], S) = k - 1
      /\ \A i \in S : rows[Rank(i, S) + 1] = i
  BY ListIsRanked
<1>2. \A i \in S : i \in Id /\ Rank(i, S) \in 0 .. (n - 1)
  BY RanksAreUnique DEF Matching
<1> HIDE DEF S, n
<1>3. p \in Nat /\ p >= 1
  <2>1. LastPage(filter, query) \in Int
    BY <1>0, <1>1 DEF LastPage, n, S
  <2> QED
    BY <2>1
<1>4. /\ start \in Nat /\ start < MaxInt /\ p * PageSize = start + PageSize
      /\ n > 0 => start < n
      /\ n = 0 => start = 0
  <2>1. start \in Nat /\ p * PageSize = start + PageSize
    BY <1>0, <1>3
  <2>2. CASE n = 0
    <3>1. p = 1
      BY <2>2, <1>3 DEF LastPage, n, S
    <3> QED
      BY <1>0, <2>1, <2>2, <3>1
  <2>3. CASE n > 0
    <3>1. n - 1 \in Nat
      BY <1>1, <2>3
    <3>2. /\ (n - 1) \div PageSize \in Nat
          /\ ((n - 1) \div PageSize) * PageSize <= n - 1
      BY <1>0, <3>1, Quotients
    <3>3. p - 1 <= (n - 1) \div PageSize
      <4>1. LastPage(filter, query) = (n - 1) \div PageSize + 1
        BY <1>1, <2>3 DEF LastPage, n, S
      <4> QED
        BY <1>3, <3>2, <4>1
    <3>4. start <= ((n - 1) \div PageSize) * PageSize
      BY <1>0, <1>3, <3>2, <3>3, Products
    <3> HIDE DEF start
    <3>5. start < n
      <4>1. ((n - 1) \div PageSize) * PageSize \in Int
        BY <1>0, <3>2
      <4> QED
        BY <1>1, <2>1, <3>2, <3>4, <4>1
    <3> QED
      BY <1>0, <1>1, <2>1, <2>3, <3>5
  <2> QED
    BY <1>1, <2>2, <2>3
<1> HIDE DEF rows
<1>5. GetAllInvoices(filter, query, p, PageSize) = read
  <2> DEFINE offset == Wrapped((p - 1) * PageSize)
             from == IF offset < 0 THEN 0 ELSE offset
             to == from + PageSize + 1
  <2>1. GetAllInvoices(filter, query, p, PageSize) =
           SubSeq(rows, from + 1, IF to < Len(rows) THEN to ELSE Len(rows))
    BY DEF GetAllInvoices, rows
  <2>2. offset = start
    BY <1>4, SmallIsNotWrapped
  <2> HIDE DEF offset, start
  <2>3. from = start
    BY <1>4, <2>2
  <2> QED
    BY <1>1, <2>1, <2>3
<1> HIDE DEF start
<1>6. /\ read \in Seq(Id)
      /\ Len(read) = IF n > start THEN end - start ELSE 0
      /\ \A k \in 1 .. Len(read) : read[k] = rows[start + k]
  <2>1. end \in Int /\ start + 1 \in Int /\ \A k \in (start + 1) .. end : rows[k] \in Id
    BY <1>0, <1>1, <1>4
  <2> QED
    BY <1>0, <1>1, <1>4, <2>1, SubSeqProperties
<1>7. Len(read) > PageSize <=> n > start + PageSize
  BY <1>0, <1>1, <1>4, <1>6
<1>8. /\ shown = IF Len(read) > PageSize THEN SubSeq(read, 1, PageSize) ELSE read
      /\ dashboardHelper(filter, query, p).More <=> Len(read) > PageSize
  <2> HIDE DEF read
  <2>1. PageOf(p) = p
    BY <1>3 DEF PageOf
  <2> QED
    BY <1>5, <2>1 DEF dashboardHelper
<1> HIDE DEF shown
<1>9. /\ shown \in Seq(Id)
      /\ Len(shown) = IF start + PageSize < n THEN PageSize
                      ELSE IF n > start THEN n - start ELSE 0
      /\ \A k \in 1 .. Len(shown) : shown[k] = rows[start + k]
  <2>1. CASE Len(read) > PageSize
    <3> HIDE DEF read
    <3>1. \A k \in 1 .. PageSize : read[k] \in Id
      BY <1>0, <1>6, <2>1
    <3>2. /\ SubSeq(read, 1, PageSize) \in Seq(Id)
          /\ Len(SubSeq(read, 1, PageSize)) = PageSize
          /\ \A k \in 1 .. PageSize : SubSeq(read, 1, PageSize)[k] = read[k]
      BY <1>0, <3>1, SubSeqProperties
    <3> QED
      BY <1>0, <1>6, <1>7, <1>8, <2>1, <3>2
  <2>2. CASE ~(Len(read) > PageSize)
    <3>1. shown = read /\ ~(n > start + PageSize)
      BY <1>7, <1>8, <2>2
    <3> HIDE DEF read
    <3> QED
      BY <1>0, <1>1, <1>4, <1>6, <3>1
  <2> QED
    BY <2>1, <2>2
<1> HIDE DEF read
<1>10. RowsOn(filter, query, p) = {shown[k] : k \in 1 .. Len(shown)}
  BY <1>9 DEF RowsOn, shown
<1>11. ASSUME NEW k \in 1 .. Len(shown)
       PROVE  /\ shown[k] \in S
              /\ start <= Rank(shown[k], S) /\ Rank(shown[k], S) < start + PageSize
  <2>1. start + k \in 1 .. n /\ k <= PageSize /\ k >= 1 /\ k \in Nat
    BY <1>0, <1>1, <1>4, <1>9
  <2>2. shown[k] \in S /\ Rank(shown[k], S) = (start + k) - 1
    BY <1>1, <1>9, <2>1
  <2> QED
    BY <1>0, <1>4, <2>1, <2>2
<1>12. ASSUME NEW i \in S, start <= Rank(i, S), Rank(i, S) < start + PageSize
       PROVE  \E k \in 1 .. Len(shown) : shown[k] = i
  <2>1. Rank(i, S) - start + 1 \in 1 .. Len(shown)
    <3> DEFINE rank == Rank(i, S)
    <3>1. rank \in Nat /\ rank < n
      BY <1>1, <1>2
    <3>2. start <= rank /\ rank < start + PageSize
      BY <1>12
    <3>3. Len(shown) = IF start + PageSize < n THEN PageSize ELSE n - start
      BY <1>1, <1>4, <1>9, <3>1, <3>2
    <3> HIDE DEF rank
    <3>4. rank - start + 1 \in 1 .. Len(shown)
      BY <1>0, <1>1, <1>4, <3>1, <3>2, <3>3
    <3> QED
      BY <3>4 DEF rank
  <2>2. start + (Rank(i, S) - start + 1) = Rank(i, S) + 1
    BY <1>2, <1>4
  <2> QED
    BY <1>1, <1>9, <2>1, <2>2
<1>13. RowsOn(filter, query, p) = {i \in S : start <= Rank(i, S) /\ Rank(i, S) < start + PageSize}
  BY <1>10, <1>11, <1>12
<1> QED
  BY <1>4, <1>7, <1>8, <1>13 DEF S, n, start

(* Following NextPage from the first page as long as there is More shows   *)
(* every row of the list once, on every table that can be reached and for  *)
(* every size of the page (GetAllInvoices, dashboardHelper).  The ids fit  *)
(* into an int: SQLite's rowid and Go's int both have 64 bits.             *)
THEOREM EveryRowOnOnePage == MaxId <= MaxInt => (Spec => []PagesPartition)
<1> SUFFICES ASSUME MaxId <= MaxInt PROVE Spec => []PagesPartition
  OBVIOUS
<1>1. TypeOK => PagesPartition
  <2> SUFFICES ASSUME TypeOK, NEW filter \in Filter, NEW query \in SUBSET Ext
               PROVE  LET last == LastPage(filter, query) IN
                      /\ UNION {RowsOn(filter, query, p) : p \in 1 .. last}
                            = Matching(filter, query)
                      /\ \A p \in 1 .. last :
                           /\ dashboardHelper(filter, query, p).More <=> p < last
                           /\ \A q \in 1 .. last :
                                RowsOn(filter, query, p) \cap RowsOn(filter, query, q) # {}
                                   => p = q
    BY DEF PagesPartition
  <2> DEFINE last == LastPage(filter, query)
             S == Matching(filter, query)
             n == Cardinality(S)
             page(i) == Rank(i, S) \div PageSize + 1
  <2>0. PageSize \in Nat \ {0}
    BY PageAssumption
  <2>1. n \in Nat /\ \A i \in S : Rank(i, S) \in 0 .. (n - 1)
    BY RanksAreUnique DEF Matching
  <2>2. ASSUME NEW p \in 1 .. last
        PROVE  /\ RowsOn(filter, query, p) =
                     {i \in S : (p - 1) * PageSize <= Rank(i, S) /\ Rank(i, S) < p * PageSize}
               /\ dashboardHelper(filter, query, p).More <=> n > p * PageSize
    BY RowsOfPage
  <2> HIDE DEF S
  <2>3. /\ last \in Nat /\ last >= 1
        /\ n <= last * PageSize
        /\ n > 0 => (last - 1) * PageSize < n
    <3>1. CASE n = 0
      <4>1. last = 1
        BY <3>1 DEF LastPage, S
      <4> QED
        BY <2>0, <3>1, <4>1
    <3>2. CASE n > 0
      <4> HIDE DEF n
      <4>1. n - 1 \in Nat
        BY <2>1, <3>2
      <4>2. last = (n - 1) \div PageSize + 1
        BY <2>1, <3>2 DEF LastPage, n, S
      <4> HIDE DEF last
      <4>3. /\ (n - 1) \div PageSize \in Nat
            /\ ((n - 1) \div PageSize) * PageSize <= n - 1
            /\ n - 1 < ((n - 1) \div PageSize + 1) * PageSize
        BY <2>0, <4>1, Quotients
      <4>4. /\ last \in Nat /\ last >= 1 /\ last - 1 = (n - 1) \div PageSize
            /\ (last - 1) * PageSize <= n - 1
            /\ n - 1 < last * PageSize
        BY <4>2, <4>3
      <4>5. last * PageSize \in Int /\ (last - 1) * PageSize \in Int
        BY <2>0, <4>4
      <4> QED
        BY <2>1, <4>4, <4>5
    <3> QED
      BY <2>1, <3>1, <3>2
  <2> HIDE DEF n, last
  <2>4. ASSUME NEW i \in S
        PROVE  page(i) \in 1 .. last /\ i \in RowsOn(filter, query, page(i))
    <3> DEFINE rank == Rank(i, S)
    <3>1. rank \in Nat /\ rank < n /\ n > 0
      BY <2>1
    <3> HIDE DEF rank
    <3> DEFINE k == rank \div PageSize
    <3>2. k \in Nat /\ k * PageSize <= rank /\ rank < (k + 1) * PageSize
      BY <2>0, <3>1, Quotients
    <3> HIDE DEF k
    <3>3. ASSUME last <= k PROVE FALSE
      <4>1. last * PageSize <= k * PageSize /\ last * PageSize \in Int /\ k * PageSize \in Int
        BY <2>0, <2>3, <3>2, <3>3, Products
      <4> QED
        BY <2>1, <2>3, <3>1, <3>2, <4>1
    <3>4. k + 1 \in 1 .. last /\ (k + 1) - 1 = k
      BY <2>3, <3>2, <3>3
    <3>5. i \in RowsOn(filter, query, k + 1)
      BY <2>2, <3>2, <3>4 DEF rank
    <3> QED
      BY <3>4, <3>5 DEF k, rank
  <2>5. UNION {RowsOn(filter, query, p) : p \in 1 .. last} = S
    BY <2>2, <2>4
  <2>6. ASSUME NEW p \in 1 .. last
        PROVE  dashboardHelper(filter, query, p).More <=> p < last
    <3>1. p \in Nat /\ p * PageSize \in Int /\ last * PageSize \in Int
          /\ (last - 1) * PageSize \in Int
      BY <2>0, <2>3
    <3>2. CASE p < last
      <4>1. p * PageSize <= (last - 1) * PageSize
        BY <2>0, <2>3, <3>1, <3>2, Products
      <4>2. n > 0
        <5>1. CASE n = 0
          <6>1. last = 1
            BY <5>1 DEF last, LastPage, n, S
          <6> QED
            BY <3>2, <6>1
        <5> QED
          BY <2>1, <5>1
      <4> QED
        BY <2>1, <2>2, <2>3, <3>1, <3>2, <4>1, <4>2
    <3>3. CASE ~(p < last)
      <4>1. p = last
        BY <2>3, <3>3
      <4> QED
        BY <2>1, <2>2, <2>3, <3>1, <3>3, <4>1
    <3> QED
      BY <3>2, <3>3
  <2>7. ASSUME NEW p \in 1 .. last, NEW q \in 1 .. last,
               NEW i \in RowsOn(filter, query, p) \cap RowsOn(filter, query, q), p < q
        PROVE  FALSE
    <3>1. /\ i \in S /\ Rank(i, S) < p * PageSize
          /\ (q - 1) * PageSize <= Rank(i, S)
      BY <2>2, <2>7
    <3>2. p * PageSize <= (q - 1) * PageSize /\ p * PageSize \in Int /\ (q - 1) * PageSize \in Int
      BY <2>0, <2>3, <2>7, Products
    <3> QED
      BY <2>1, <3>1, <3>2
  <2>8. ASSUME NEW p \in 1 .. last, NEW q \in 1 .. last,
               RowsOn(filter, query, p) \cap RowsOn(filter, query, q) # {}
        PROVE  p = q
    BY <2>3, <2>7, <2>8
  <2> QED
    BY <2>5, <2>6, <2>8 DEF last, S
<1> QED
  BY <1>1, QueueTypeCorrect, PTL

=============================================================================
