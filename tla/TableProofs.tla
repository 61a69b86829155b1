----------------------------- MODULE TableProofs ----------------------------
(***************************************************************************)
(* Lemmas about the statements of InvoiceModel, for the proofs about every *)
(* module that uses the table.                                             *)
(***************************************************************************)
EXTENDS InvoiceModel, TLAPS, FiniteSetTheorems

(* NewRow and NoRow are rows.                                              *)
LEMMA BlankRows ==
    /\ NoRow \in Row
    /\ \A e \in Ext, cb \in BOOLEAN : NewRow(e, cb) \in Row
<1>1. 1 \in Version
  BY BoundAssumption DEF Version
<1>2. NoRow \in Row
  BY <1>1 DEF NoRow, NewRow, Row, Status
<1>3. ASSUME NEW e \in Ext, NEW cb \in BOOLEAN PROVE NewRow(e, cb) \in Row
  BY <1>1 DEF NewRow, Row, Status
<1> QED
  BY <1>2, <1>3

(* The row a statement writes is a row.                                    *)
LEMMA WrittenRows ==
    ASSUME NEW row \in Row, NEW ref \in Ref \cup {NoRef}
    PROVE  /\ \A s \in Status : [row EXCEPT !.status = s] \in Row
           /\ [row EXCEPT !.status = "SENT", !.ksefId = TRUE, !.ref = ref] \in Row
           /\ \A s \in Status : [row EXCEPT !.status = s, !.attempts = @ + 1] \in Row
           /\ [row EXCEPT !.status = "UNKNOWN", !.ref = ref] \in Row
           /\ [row EXCEPT !.delivered = TRUE] \in Row
           /\ [row EXCEPT !.whAttempts = @ + 1] \in Row
           /\ [row EXCEPT !.whAttempts = 0] \in Row
<1>1. \A s \in Status : [row EXCEPT !.status = s] \in Row
  BY DEF Row
<1>2. [row EXCEPT !.status = "SENT", !.ksefId = TRUE, !.ref = ref] \in Row
  BY DEF Row, Status
<1>3. ASSUME NEW s \in Status PROVE [row EXCEPT !.status = s, !.attempts = @ + 1] \in Row
  <2>1. row.attempts + 1 \in Nat
    BY DEF Row
  <2> QED
    BY <2>1 DEF Row
<1>4. [row EXCEPT !.status = "UNKNOWN", !.ref = ref] \in Row
  BY DEF Row, Status
<1>5. [row EXCEPT !.delivered = TRUE] \in Row
  BY DEF Row
<1>6. [row EXCEPT !.whAttempts = @ + 1] \in Row
  BY DEF Row
<1>7. [row EXCEPT !.whAttempts = 0] \in Row
  BY DEF Row
<1> QED
  BY <1>1, <1>2, <1>3, <1>4, <1>5, <1>6, <1>7

(* A batch is a part of the rows it was chosen from.                       *)
LEMMA OldestSubset == ASSUME NEW S, NEW n PROVE Oldest(S, n) \subseteq S
  BY DEF Oldest

(* UPDATE ... WHERE id = i keeps the types if the new row is one.          *)
LEMMA UpdateRowType ==
    ASSUME TableTypeOK, NEW i \in Id, NEW row \in Row, UpdateRow(i, row)
    PROVE  TableTypeOK'
  BY DEF TableTypeOK, UpdateRow

(* Every statement that changes one row writes a row.                      *)
LEMMA StatementsType ==
    ASSUME TableTypeOK, NEW i \in Id, NEW ref \in Ref \cup {NoRef}
    PROVE  /\ UpdateSentInvoice(i, ref) => TableTypeOK'
           /\ UpdateRetryInvoice(i) => TableTypeOK'
           /\ UpdateFailedInvoice(i) => TableTypeOK'
           /\ UpdatePendingInvoice(i) => TableTypeOK'
           /\ UpdateUnknownInvoice(i, ref) => TableTypeOK'
           /\ RestoreUnknownInvoice(i) => TableTypeOK'
           /\ UpdateWebhookDelivered(i) => TableTypeOK'
           /\ UpdateWebhookFailed(i) => TableTypeOK'
           /\ ResetWebhookAttemptCount(i) => TableTypeOK'
           /\ \A cb \in BOOLEAN : ReplaceInvoice(i, cb) => TableTypeOK'
<1>1. invoices[i] \in Row
  BY DEF TableTypeOK
<1>2. ASSUME NEW cb \in BOOLEAN, ReplaceInvoice(i, cb)
      PROVE  TableTypeOK'
  <2>1. invoices[i].ver + 1 \in Version
    BY <1>1, <1>2, BoundAssumption DEF Row, Version, ReplaceInvoice
  <2>2. [invoices[i] EXCEPT !.status = "PENDING", !.attempts = 0, !.ref = NoRef,
                            !.callback = cb, !.delivered = FALSE,
                            !.whAttempts = 0, !.ver = @ + 1] \in Row
    BY <1>1, <2>1 DEF Row, Status
  <2> QED
    BY <1>2, <2>2, UpdateRowType DEF ReplaceInvoice
<1>3. {"PENDING", "FAILED", "UNKNOWN"} \subseteq Status
  BY DEF Status
<1> QED
  BY <1>1, <1>2, <1>3, WrittenRows, UpdateRowType
     DEF UpdateSentInvoice, UpdateRetryInvoice, UpdateFailedInvoice,
         UpdatePendingInvoice, UpdateUnknownInvoice, RestoreUnknownInvoice,
         UpdateWebhookDelivered, UpdateWebhookFailed, ResetWebhookAttemptCount

(* So do the statements that change several rows, insert and delete.       *)
LEMMA BatchesType ==
    ASSUME TableTypeOK
    PROVE  /\ \A batch : Claim(batch) => TableTypeOK'
           /\ RecoverProcessingInvoices => TableTypeOK'
           /\ \A e \in Ext, cb \in BOOLEAN : InsertInvoice(e, cb) => TableTypeOK'
           /\ \A i \in Id : DeleteRow(i) => TableTypeOK'
<1>1. \A i \in Id, s \in Status : [invoices[i] EXCEPT !.status = s] \in Row
  BY DEF TableTypeOK, Row
<1>2. \A batch : Claim(batch) => TableTypeOK'
  BY <1>1 DEF TableTypeOK, Claim, Status
<1>3. RecoverProcessingInvoices => TableTypeOK'
  BY <1>1, ZenonT(60) DEF TableTypeOK, RecoverProcessingInvoices, Status
<1>4. \A e \in Ext, cb \in BOOLEAN : InsertInvoice(e, cb) => TableTypeOK'
  BY BlankRows, BoundAssumption DEF TableTypeOK, InsertInvoice, Id
<1>5. \A i \in Id : DeleteRow(i) => TableTypeOK'
  BY BlankRows DEF TableTypeOK, DeleteRow
<1> QED
  BY <1>2, <1>3, <1>4, <1>5

-----------------------------------------------------------------------------
(* Ordered sets and LIMIT: before[i] are the elements of S in front of i.  *)

IsOrder(before, S) ==
    /\ \A i \in S : before[i] \subseteq S /\ i \notin before[i]
    /\ \A i \in S : \A j \in before[i] : before[j] \subseteq before[i]
    /\ \A i, j \in S : i = j \/ i \in before[j] \/ j \in before[i]

(* The elements have the places from 0 on, each has its own.               *)
LEMMA PlacesAreUnique ==
    ASSUME NEW S, IsFiniteSet(S), NEW before, IsOrder(before, S)
    PROVE  LET n == Cardinality(S)
               places == [i \in S |-> Cardinality(before[i])]
           IN  /\ n \in Nat
               /\ places \in Injection(S, 0 .. (n - 1))
               /\ places \in Surjection(S, 0 .. (n - 1))
<1> DEFINE n == Cardinality(S)
           places == [i \in S |-> Cardinality(before[i])]
<1>0. n \in Nat
  BY FS_CardinalityType
<1>1. ASSUME NEW i \in S
      PROVE  IsFiniteSet(before[i]) /\ Cardinality(before[i]) \in 0 .. (n - 1)
  <2>1. before[i] \subseteq S /\ before[i] # S
    BY DEF IsOrder
  <2>2. /\ IsFiniteSet(before[i]) /\ Cardinality(before[i]) \in Nat
        /\ Cardinality(before[i]) <= n /\ Cardinality(before[i]) # n
    BY <1>0, <2>1, FS_Subset, FS_CardinalityType
  <2> QED
    BY <1>0, <2>2
<1>2. ASSUME NEW i \in S, NEW j \in S, i \in before[j]
      PROVE  Cardinality(before[i]) # Cardinality(before[j])
  <2>1. before[i] \subseteq before[j] /\ before[i] # before[j]
    BY <1>2 DEF IsOrder
  <2> QED
    BY <1>1, <2>1, FS_Subset
<1>3. places \in Injection(S, 0 .. (n - 1))
  BY <1>1, <1>2 DEF IsOrder, Injection, IsInjective
<1>4. IsFiniteSet(0 .. (n - 1)) /\ Cardinality(0 .. (n - 1)) = n
  BY <1>0, FS_Interval
<1>5. places \in Surjection(S, 0 .. (n - 1))
  BY <1>3, <1>4, FS_Injection
<1> QED
  BY <1>0, <1>3, <1>5

(* LIMIT m: the first m elements, or all of them if there are fewer.       *)
LEMMA FirstAreMany ==
    ASSUME NEW S, IsFiniteSet(S), NEW before, IsOrder(before, S), NEW m \in Nat
    PROVE  LET first == {i \in S : Cardinality(before[i]) < m}
           IN  IF Cardinality(S) <= m THEN first = S ELSE Cardinality(first) = m
<1> DEFINE n == Cardinality(S)
           places == [i \in S |-> Cardinality(before[i])]
           first == {i \in S : Cardinality(before[i]) < m}
<1>0. /\ n \in Nat
      /\ places \in Injection(S, 0 .. (n - 1))
      /\ places \in Surjection(S, 0 .. (n - 1))
  BY PlacesAreUnique
<1>1. \A i \in S : Cardinality(before[i]) \in 0 .. (n - 1)
  BY <1>0 DEF Injection
<1>2. CASE n <= m
  BY <1>0, <1>1, <1>2
<1>3. CASE n > m
  <2> DEFINE these == [i \in first |-> Cardinality(before[i])]
  <2>1. these \in Injection(first, 0 .. (m - 1))
    BY <1>0, <1>1 DEF Injection, IsInjective
  <2>2. ASSUME NEW k \in 0 .. (m - 1) PROVE \E i \in first : these[i] = k
    <3>1. k \in 0 .. (n - 1)
      BY <1>0, <1>3
    <3>2. PICK i \in S : places[i] = k
      BY <1>0, <3>1 DEF Surjection
    <3> QED
      BY <3>2
  <2>3. these \in Surjection(first, 0 .. (m - 1))
    BY <2>1, <2>2 DEF Injection, Surjection
  <2>4. IsFiniteSet(0 .. (m - 1)) /\ Cardinality(0 .. (m - 1)) = m
    BY FS_Interval
  <2>5. Cardinality(first) = m
    BY <2>1, <2>3, <2>4, FS_Injection
  <2> QED
    BY <1>0, <1>3, <2>5
<1> QED
  BY <1>0, <1>2, <1>3

(* There are at most MaxId ids in a set of them.                           *)
LEMMA IdsAreFinite ==
    ASSUME NEW S \in SUBSET Id
    PROVE  IsFiniteSet(S) /\ Cardinality(S) \in 0 .. MaxId
<1>1. IsFiniteSet(Id) /\ Cardinality(Id) = MaxId
  BY FS_Interval, BoundAssumption DEF Id
<1>2. IsFiniteSet(S) /\ Cardinality(S) <= Cardinality(Id)
  BY <1>1, FS_Subset
<1>3. Cardinality(S) \in Nat
  BY <1>2, FS_CardinalityType
<1> QED
  BY <1>1, <1>2, <1>3, BoundAssumption

(* A batch of the sender is full, or takes everything, and leaves out only *)
(* what comes after it: GetPendingInvoicesConc, GetUnknownInvoicesConc     *)
(* (ORDER BY created_at ASC LIMIT).                                        *)
THEOREM OldestAreFirst ==
    ASSUME NEW S \in SUBSET Id, NEW m \in Nat
    PROVE  /\ IF Cardinality(S) <= m THEN Oldest(S, m) = S
                                     ELSE Cardinality(Oldest(S, m)) = m
           /\ \A i \in Oldest(S, m) : \A j \in S \ Oldest(S, m) : i < j
<1> DEFINE before == [i \in S |-> {j \in S : j < i}]
<1>1. \A i \in S : i \in Nat
  BY DEF Id
<1>2. IsOrder(before, S)
  BY <1>1 DEF IsOrder
<1>3. Oldest(S, m) = {i \in S : Cardinality(before[i]) < m}
  BY DEF Oldest
<1>4. ASSUME NEW i \in Oldest(S, m), NEW j \in S, j < i PROVE j \in Oldest(S, m)
  <2>1. i \in S /\ before[j] \subseteq before[i] /\ before[i] \subseteq S
    BY <1>1, <1>4 DEF Oldest
  <2> HIDE DEF before
  <2>2. /\ Cardinality(before[j]) <= Cardinality(before[i])
        /\ Cardinality(before[j]) \in Nat /\ Cardinality(before[i]) \in Nat
    BY <2>1, IdsAreFinite, FS_Subset, FS_CardinalityType
  <2> QED
    BY <1>3, <2>2
<1>5. IsFiniteSet(S)
  BY IdsAreFinite
<1> HIDE DEF before
<1>6. IF Cardinality(S) <= m THEN Oldest(S, m) = S ELSE Cardinality(Oldest(S, m)) = m
  BY <1>2, <1>3, <1>5, FirstAreMany
<1>7. \A i \in Oldest(S, m) : \A j \in S \ Oldest(S, m) : i < j
  <2> TAKE i \in Oldest(S, m)
  <2> TAKE j \in S \ Oldest(S, m)
  <2>1. i \in Nat /\ j \in Nat /\ i # j /\ ~(j < i)
    BY <1>1, <1>4, OldestSubset
  <2> QED
    BY <2>1
<1> QED
  BY <1>6, <1>7

=============================================================================
