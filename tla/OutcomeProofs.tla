---------------------------- MODULE OutcomeProofs ---------------------------
(***************************************************************************)
(* More proofs about Service, for every value of the constants: the slots  *)
(* of the sender, what callbacks are told, and that the service keeps the  *)
(* promise of Lifecycle.                                                   *)
(***************************************************************************)
EXTENDS ServiceProofs, FiniteSetTheorems

-----------------------------------------------------------------------------
(* What a step of one goroutine leaves alone.                              *)

(* The goroutine of i works on i, and the loop waits meanwhile.            *)
LEMMA GoroutineFrame ==
    ASSUME TypeOK, NEW i \in Id, Goroutine(i)
    PROVE  /\ OnlyRow(i)
           /\ phase' = phase
           /\ \A j \in Id \ {i} : job'[j] = job[j]
           /\ ~At(i, "none")
           /\ At(i, "queued") => TakeSlot(i)
           /\ ~At(i, "queued")'
<1> USE DEF TypeOK, SenderTypeOK
<1> DEFINE others == \A j \in Id \ {i} : job'[j] = job[j]
<1>1. UNCHANGED tableVars => OnlyRow(i)
  BY DEF tableVars, OnlyRow
<1>2. ASSUME NEW row, UpdateRow(i, row) PROVE OnlyRow(i)
  BY <1>2, UpdateEffect
<1>3. /\ HandleInvoiceFailure(i) \in Pc \ {"queued"}
      /\ Pc \ {"none", "queued"} =
            {"send", "confirm", "writePending", "writeRetry", "writeFailed", "writeUnknown",
             "writeSent", "restoreUnknown", "notify", "markDelivered", "markFailed"}
  BY DEF HandleInvoiceFailure, Pc
<1>4. ASSUME NEW pc \in Pc \ {"queued"}, Goto(i, pc) PROVE others /\ ~At(i, "queued")'
  BY <1>4, GotoEffect DEF At
<1>5. Finish(i) => others /\ ~At(i, "queued")'
  BY FinishEffect DEF At
<1>6. \A s : Report(i, s) => others /\ ~At(i, "queued")'
  BY ReportEffect DEF At
<1>7. CASE TakeSlot(i)
  <2>1. FirstStep(i) \in Pc \ {"queued"}
    BY <1>3, <1>7, FirstStepType DEF TakeSlot, FirstStep
  <2> QED
    BY <1>1, <1>4, <1>7, <2>1 DEF TakeSlot, At
<1>8. CASE SendInvoice(i)
  <2>1. ASSUME NEW r \in Ref, job' = [job EXCEPT ![i].pc = "writeUnknown", ![i].ref = r]
        PROVE  others /\ ~At(i, "queued")'
    BY <2>1 DEF At, Job
  <2>2. others /\ ~At(i, "queued")'
    BY <1>3, <1>4, <1>8, <2>1 DEF SendInvoice
  <2> QED
    BY <1>1, <1>8, <2>2 DEF SendInvoice, At
<1>9. CASE ConfirmInvoice(i)
  <2>1. others /\ ~At(i, "queued")'
    BY <1>3, <1>4, <1>9 DEF ConfirmInvoice
  <2> QED
    BY <1>1, <1>9, <2>1 DEF ConfirmInvoice, At
<1>10. CASE WritePending(i) \/ WriteRetry(i) \/ RestoreUnknown(i)
            \/ MarkDelivered(i) \/ MarkFailed(i)
  <2>1. OnlyRow(i)
    BY <1>1, <1>2, <1>10
       DEF WritePending, WriteRetry, RestoreUnknown, MarkDelivered, MarkFailed, OrFails,
           UpdatePendingInvoice, UpdateRetryInvoice, RestoreUnknownInvoice,
           UpdateWebhookDelivered, UpdateWebhookFailed
  <2> QED
    BY <1>5, <1>10, <2>1
       DEF WritePending, WriteRetry, RestoreUnknown, MarkDelivered, MarkFailed, At
<1>11. CASE WriteUnknown(i)
  <2>1. OnlyRow(i)
    BY <1>1, <1>2, <1>11 DEF WriteUnknown, UpdateUnknownInvoice
  <2>2. ASSUME job' = [job EXCEPT ![i].pc = "confirm", ![i].inv.status = "UNKNOWN",
                                  ![i].inv.ref = job[i].ref, ![i].ref = NoRef]
        PROVE  others /\ ~At(i, "queued")'
    BY <2>2 DEF At, Job
  <2> QED
    BY <1>5, <1>11, <2>1, <2>2 DEF WriteUnknown, At
<1>12. CASE WriteFailed(i)
  <2>1. OnlyRow(i)
    BY <1>1, <1>2, <1>12 DEF WriteFailed, UpdateFailedInvoice
  <2> QED
    BY <1>5, <1>6, <1>12, <2>1 DEF WriteFailed, At
<1>13. CASE WriteSent(i)
  <2>1. OnlyRow(i)
    BY <1>1, <1>2, <1>13 DEF WriteSent, UpdateSentInvoice
  <2> QED
    BY <1>5, <1>6, <1>13, <2>1 DEF WriteSent, At
<1>14. CASE NotifyWebhook(i)
  <2>1. others /\ ~At(i, "queued")'
    BY <1>3, <1>4, <1>14 DEF NotifyWebhook
  <2> QED
    BY <1>1, <1>14, <2>1 DEF NotifyWebhook, At
<1> QED
  BY <1>7, <1>8, <1>9, <1>10, <1>11, <1>12, <1>13, <1>14 DEF Goroutine

-----------------------------------------------------------------------------
(* What a step of a goroutine is about.  Every step is one of the six.     *)

KeepsReport(i) ==
    /\ invoices'[i].ver = invoices[i].ver
    /\ invoices'[i].delivered = invoices[i].delivered
    /\ invoices'[i].whAttempts = invoices[i].whAttempts

(* It talks to KSeF, or gets a slot.                                       *)
Moves(i) ==
    /\ UNCHANGED <<tableVars, received>>
    /\ UNCHANGED submissions \/ \E r \in Ref : Handling(i) /\ Submit(i, job[i].inv.ver, r)
    /\ job'[i].inv = job[i].inv
    /\ ~At(i, "none")' /\ ~At(i, "markDelivered")'
    /\ Handling(i)' <=> Handling(i)

(* It leaves the invoice open in the table.                                *)
StaysOpen(i) ==
    /\ Handling(i)
    /\ UNCHANGED <<submissions, received>>
    /\ invoices'[i].status \in {"PENDING", "UNKNOWN"}
    /\ KeepsReport(i)
    /\ At(i, "none")' \/ Handling(i)'

(* It writes the outcome, and goes on to report it or ends.                *)
Settles(i, status) ==
    /\ Handling(i)
    /\ UNCHANGED <<submissions, received>>
    /\ status = "SENT" => submissions[invoices[i].ref].verdict = "accepted"
                          /\ invoices[i].ref # NoRef
    /\ invoices'[i].status = status
    /\ KeepsReport(i)
    /\ \/ At(i, "none")'
       \/ At(i, "notify")' /\ job'[i].inv = [job[i].inv EXCEPT !.status = status]

(* The statement fails, and the goroutine ends.                            *)
GivesUp(i) ==
    /\ DbErrors
    /\ UNCHANGED <<tableVars, submissions, received>>
    /\ At(i, "none")'

(* It calls the callback, and the event arrives or does not.               *)
Tells(i) ==
    /\ At(i, "notify")
    /\ UNCHANGED <<tableVars, submissions>>
    /\ job'[i].inv = job[i].inv
    /\ \/ received' = received /\ At(i, "markFailed")'
       \/ /\ received' = received \cup {EventOf(i)}
          /\ At(i, "markFailed")' \/ At(i, "markDelivered")'

(* It writes down what came of the call.                                   *)
Records(i) ==
    /\ UNCHANGED <<submissions, received>>
    /\ At(i, "none")'
    /\ \/ /\ At(i, "markDelivered")
          /\ invoices'[i] = IF Live(i) THEN [invoices[i] EXCEPT !.delivered = TRUE]
                            ELSE invoices[i]
       \/ /\ At(i, "markFailed")
          /\ invoices'[i] = IF Live(i) THEN [invoices[i] EXCEPT !.whAttempts = @ + 1]
                            ELSE invoices[i]

(* A row the sender is to write is there and open, and nobody reports it.  *)
LEMMA HandledRows ==
    ASSUME IInv, NEW i \in Id, Handling(i)
    PROVE  /\ invoices[i].status \in {"PROCESSING", "UNKNOWN"} /\ Live(i) /\ i < nextId
           /\ invoices[i].ver = job[i].inv.ver
           /\ invoices[i].ref = job[i].inv.ref
           /\ phase \notin {"down", "idle", "pending", "hooks", "delivering"}
           /\ job[i].pc \in {"queued", "send", "confirm", "writePending", "writeRetry",
                             "writeFailed", "writeUnknown", "writeSent", "restoreUnknown"}
<1>1. TypeOK /\ RowSound(i) /\ JobSound(i)
  BY IInvPerInvoice
<1>2. job[i].pc \in Pc
  BY <1>1, FieldTypes DEF Job
<1>3. i < nextId
  BY <1>1 DEF JobSound, RowSound, Live, TypeOK, TableTypeOK, Id
<1> QED
  BY <1>1, <1>2, <1>3 DEF JobSound, Handling, At, Live, Pc

(* Whose next step is to submit, to confirm or to write handles.           *)
LEMMA StepsOfHandling ==
    ASSUME IInv, NEW i \in Id,
           job[i].pc \in {"send", "confirm", "writePending", "writeRetry", "writeFailed",
                          "writeUnknown", "writeSent", "restoreUnknown"}
    PROVE  Handling(i)
  BY IInvPerInvoice DEF JobSound, Handling, At

(* The steps of a goroutine are of these kinds.                            *)
LEMMA GoroutineKinds ==
    ASSUME IInv, NEW i \in Id, Goroutine(i)
    PROVE  \/ Moves(i) \/ StaysOpen(i) \/ Settles(i, "FAILED") \/ Settles(i, "SENT")
           \/ GivesUp(i) \/ Tells(i) \/ Records(i)
<1>0. /\ TypeOK /\ RowSound(i) /\ JobSound(i)
      /\ job[i] \in Job /\ job[i].inv \in Row /\ job \in [Id -> Job]
      /\ invoices[i] \in Row
  BY IInvPerInvoice, FieldTypes DEF TypeOK, SenderTypeOK
<1>1. phase' = phase /\ OnlyRow(i) /\ ~At(i, "none")
  BY <1>0, GoroutineFrame
<1>2. ASSUME NEW pc \in Pc, Goto(i, pc), UNCHANGED <<tableVars, received>>,
             UNCHANGED submissions \/ \E r \in Ref : Handling(i) /\ Submit(i, job[i].inv.ver, r),
             pc \notin {"none", "markDelivered"},
             Handling(i) <=> pc \notin {"notify", "markFailed"} /\ phase # "delivering"
      PROVE  Moves(i)
  BY <1>0, <1>1, <1>2, GotoEffect DEF Moves, At, Handling
<1>3. /\ HandleInvoiceFailure(i) \in {"writeFailed", "writeRetry"}
      /\ {"send", "confirm", "writePending", "writeFailed", "writeRetry", "writeUnknown",
          "writeSent", "restoreUnknown", "notify", "markDelivered", "markFailed"} \subseteq Pc
  BY DEF HandleInvoiceFailure, Pc
<1>4. CASE TakeSlot(i)
  <2>1. /\ FirstStep(i) \in Pc /\ Goto(i, FirstStep(i))
        /\ At(i, "queued") /\ UNCHANGED <<tableVars, submissions, received>>
    BY <1>4, FirstStepType DEF TakeSlot
  <2>2. /\ FirstStep(i) \notin {"none", "markDelivered", "markFailed"}
        /\ FirstStep(i) = "notify" <=> phase = "delivering"
    BY <1>3, <1>4 DEF TakeSlot, FirstStep
  <2>3. Handling(i) <=> phase # "delivering"
    BY <2>1 DEF Handling, At
  <2> QED
    BY <1>2, <2>1, <2>2, <2>3
<1>5. CASE SendInvoice(i)
  <2>1. Handling(i) /\ UNCHANGED <<tableVars, received>>
    BY <1>5, StepsOfHandling DEF SendInvoice, At
  <2>2. ASSUME NEW r \in Ref, Submit(i, job[i].inv.ver, r),
               job' = [job EXCEPT ![i].pc = "writeUnknown", ![i].ref = r]
        PROVE  Moves(i)
    <3>1. job'[i].pc = "writeUnknown" /\ job'[i].inv = job[i].inv
      BY <1>0, <2>2 DEF Job
    <3> QED
      BY <1>1, <2>1, <2>2, <3>1 DEF Moves, At, Handling
  <2>3. phase # "delivering"
    BY <2>1, HandledRows
  <2> QED
    BY <1>2, <1>3, <1>5, <2>1, <2>2, <2>3 DEF SendInvoice
<1>6. CASE ConfirmInvoice(i)
  <2>1. Handling(i) /\ UNCHANGED <<tableVars, submissions, received>> /\ phase # "delivering"
    BY <1>6, StepsOfHandling, HandledRows DEF ConfirmInvoice, At
  <2> QED
    BY <1>2, <1>3, <1>6, <2>1 DEF ConfirmInvoice
<1>7. CASE WritePending(i) \/ WriteRetry(i) \/ RestoreUnknown(i)
  <2>1. Handling(i) /\ UNCHANGED <<submissions, received>> /\ At(i, "none")'
    BY <1>0, <1>7, StepsOfHandling, FinishEffect
       DEF WritePending, WriteRetry, RestoreUnknown, At
  <2>2. CASE UNCHANGED tableVars /\ DbErrors
    BY <2>1, <2>2 DEF GivesUp
  <2>3. CASE UpdatePendingInvoice(i) \/ RestoreUnknownInvoice(i)
    BY <1>0, <2>1, <2>3, HandledRows, UpdateEffect
       DEF UpdatePendingInvoice, RestoreUnknownInvoice, StaysOpen, KeepsReport, Row
  <2>4. CASE UpdateRetryInvoice(i)
    <3>1. invoices'[i] = [invoices[i] EXCEPT !.status = "PENDING", !.attempts = @ + 1]
      BY <1>0, <2>1, <2>4, HandledRows, UpdateEffect DEF UpdateRetryInvoice
    <3> QED
      BY <1>0, <2>1, <3>1 DEF StaysOpen, KeepsReport, Row
  <2> QED
    BY <1>7, <2>2, <2>3, <2>4 DEF WritePending, WriteRetry, RestoreUnknown, OrFails
<1>8. CASE WriteUnknown(i)
  <2>1. Handling(i) /\ UNCHANGED <<submissions, received>> /\ phase # "delivering"
    BY <1>8, StepsOfHandling, HandledRows DEF WriteUnknown, At
  <2>2. CASE UNCHANGED tableVars /\ DbErrors /\ Finish(i)
    BY <1>0, <2>1, <2>2, FinishEffect DEF GivesUp, At
  <2>3. CASE /\ UpdateUnknownInvoice(i, job[i].ref)
             /\ job' = [job EXCEPT ![i].pc = "confirm", ![i].inv.status = "UNKNOWN",
                                   ![i].inv.ref = job[i].ref, ![i].ref = NoRef]
    <3>1. invoices'[i] = [invoices[i] EXCEPT !.status = "UNKNOWN", !.ref = job[i].ref]
      BY <1>0, <2>1, <2>3, HandledRows, UpdateEffect DEF UpdateUnknownInvoice
    <3>2. invoices'[i].status = "UNKNOWN" /\ KeepsReport(i)
      BY <1>0, <3>1 DEF KeepsReport, Row
    <3>3. job'[i].pc = "confirm"
      BY <1>0, <2>3 DEF Job
    <3> QED
      BY <1>1, <2>1, <3>2, <3>3 DEF StaysOpen, Handling, At
  <2> QED
    BY <1>8, <2>2, <2>3 DEF WriteUnknown
<1>9. ASSUME NEW status \in {"FAILED", "SENT"}, Report(i, status)
      PROVE  \/ At(i, "none")'
             \/ At(i, "notify")' /\ job'[i].inv = [job[i].inv EXCEPT !.status = status]
  <2>1. CASE Finish(i)
    BY <1>0, <2>1, FinishEffect DEF At
  <2>2. CASE job' = [job EXCEPT ![i].pc = "notify", ![i].inv.status = status]
    BY <1>0, <2>2 DEF At, Job
  <2> QED
    BY <1>9, <2>1, <2>2 DEF Report
<1>10. CASE WriteFailed(i)
  <2>1. Handling(i) /\ UNCHANGED <<submissions, received>>
    BY <1>10, StepsOfHandling DEF WriteFailed, At
  <2>2. CASE UNCHANGED tableVars /\ DbErrors /\ Finish(i)
    BY <1>0, <2>1, <2>2, FinishEffect DEF GivesUp, At
  <2>3. CASE UpdateFailedInvoice(i) /\ Report(i, "FAILED")
    <3>1. invoices'[i] = [invoices[i] EXCEPT !.status = "FAILED"]
      BY <1>0, <2>1, <2>3, HandledRows, UpdateEffect DEF UpdateFailedInvoice
    <3>2. invoices'[i].status = "FAILED" /\ KeepsReport(i)
      BY <1>0, <3>1 DEF KeepsReport, Row
    <3> QED
      BY <1>9, <2>1, <2>3, <3>2 DEF Settles
  <2> QED
    BY <1>10, <2>2, <2>3 DEF WriteFailed
<1>11. CASE WriteSent(i)
  <2>1. Handling(i) /\ UNCHANGED <<submissions, received>> /\ At(i, "writeSent")
    BY <1>11, StepsOfHandling DEF WriteSent, At
  <2>2. CASE UNCHANGED tableVars /\ DbErrors /\ Finish(i)
    BY <1>0, <2>1, <2>2, FinishEffect DEF GivesUp, At
  <2>3. CASE UpdateSentInvoice(i, job[i].inv.ref) /\ Report(i, "SENT")
    <3>1. invoices'[i] = [invoices[i] EXCEPT !.status = "SENT", !.ksefId = TRUE,
                                             !.ref = job[i].inv.ref]
      BY <1>0, <2>1, <2>3, HandledRows, UpdateEffect DEF UpdateSentInvoice
    <3>2. invoices'[i].status = "SENT" /\ KeepsReport(i)
      BY <1>0, <3>1 DEF KeepsReport, Row
    <3>3. submissions[invoices[i].ref].verdict = "accepted" /\ invoices[i].ref # NoRef
      BY <1>0, <2>1, HandledRows DEF JobSound, At
    <3> QED
      BY <1>9, <2>1, <2>3, <3>2, <3>3 DEF Settles
  <2> QED
    BY <1>11, <2>2, <2>3 DEF WriteSent
<1>12. CASE NotifyWebhook(i)
  <2>1. At(i, "notify") /\ UNCHANGED <<tableVars, submissions>>
    BY <1>12 DEF NotifyWebhook
  <2> QED
    BY <1>0, <1>3, <1>12, <2>1, GotoEffect DEF NotifyWebhook, Tells, At
<1>13. CASE MarkDelivered(i) \/ MarkFailed(i)
  <2>1. UNCHANGED <<submissions, received>> /\ At(i, "none")'
    BY <1>0, <1>13, FinishEffect DEF MarkDelivered, MarkFailed, At
  <2> QED
    BY <1>0, <1>13, <2>1, UpdateEffect
       DEF MarkDelivered, MarkFailed, OrFails, UpdateWebhookDelivered, UpdateWebhookFailed,
           Records, GivesUp
<1> QED
  BY <1>4, <1>5, <1>6, <1>7, <1>8, <1>10, <1>11, <1>12, <1>13 DEF Goroutine

-----------------------------------------------------------------------------
(* What a step of the loop does to an invoice, and what a handler does.    *)

Untouched(i) ==
    /\ invoices'[i] = invoices[i] /\ job'[i] = job[i]
    /\ Handling(i)' <=> Handling(i)

Claimed(i) ==
    /\ invoices[i].status \in {"PENDING", "UNKNOWN"}
    /\ invoices'[i] = [invoices[i] EXCEPT !.status = "PROCESSING"]
    /\ At(i, "none") /\ At(i, "queued")' /\ Handling(i)'
    /\ job'[i].chan = "taskChan"

PickedUp(i) ==
    /\ i \in WebhookDue(Max_retries)
    /\ invoices'[i] = invoices[i]
    /\ At(i, "none") /\ At(i, "queued")' /\ phase' = "delivering"
    /\ job'[i].inv = invoices[i] /\ job'[i].chan = "webhookChan"

(* The loop claims rows, picks rows up for their webhooks, or waits.       *)
LEMMA LoopKinds ==
    ASSUME IInv, LoopStep
    PROVE  /\ UNCHANGED <<submissions, received, nextId>>
           /\ phase # "down" /\ phase' # "down"
           /\ \A i \in Id : Untouched(i) \/ Claimed(i) \/ PickedUp(i)
<1>0. /\ TypeOK /\ \A i \in Id : JobSound(i)
      /\ invoices \in [Id -> Row] /\ job \in [Id -> Job]
  BY IInvPerInvoice DEF TypeOK, TableTypeOK, SenderTypeOK
<1>1. phase \in {"idle", "pending", "hooks"} => \A i \in Id : At(i, "none")
  BY <1>0 DEF JobSound
<1>2. ASSUME NEW batch, batch \subseteq WithStatus("PENDING") \cup WithStatus("UNKNOWN"),
             Claim(batch), StartBatch(batch, "taskChan"), \A i \in Id : At(i, "none"),
             phase' \in {"confirming", "opening"}
      PROVE  \A i \in Id : Untouched(i) \/ Claimed(i)
  <2> TAKE i \in Id
  <2>1. CASE i \in batch
    <3>1. /\ job'[i].pc = "queued" /\ job'[i].chan = "taskChan"
          /\ invoices'[i] = [invoices[i] EXCEPT !.status = "PROCESSING"]
      BY <1>2, <2>1 DEF Claim, StartBatch
    <3> QED
      BY <1>2, <2>1, <3>1 DEF Claimed, Handling, At, WithStatus
  <2>2. CASE i \notin batch
    <3>1. job'[i] = job[i] /\ invoices'[i] = invoices[i]
      BY <1>2, <2>2 DEF Claim, StartBatch
    <3> QED
      BY <1>2, <3>1 DEF Untouched, Handling, At
  <2> QED
    BY <2>1, <2>2
<1>3. ASSUME UNCHANGED <<tableVars, job>>, \A i \in Id : At(i, "none")
      PROVE  \A i \in Id : Untouched(i)
  BY <1>3 DEF tableVars, Untouched, Handling, At
<1>4. CASE CheckUnknownInvoices
  <2>1. GetUnknown(SenderBatchSize) \subseteq WithStatus("UNKNOWN")
    BY OldestSubset DEF GetUnknown
  <2> QED
    BY <1>1, <1>2, <1>3, <1>4, <2>1 DEF CheckUnknownInvoices, Claim, tableVars
<1>5. CASE ClaimPending
  <2>1. GetPending(SenderBatchSize) \subseteq WithStatus("PENDING")
    BY OldestSubset DEF GetPending
  <2> QED
    BY <1>1, <1>2, <1>3, <1>5, <2>1 DEF ClaimPending, Claim, tableVars
<1>6. CASE OpenInSession
  BY <1>6 DEF OpenInSession, Untouched, Handling, At, tableVars
<1>7. CASE SendWebhooks
  <2>0. phase = "hooks" /\ UNCHANGED <<tableVars, submissions, received>> /\ phase' # "down"
    BY <1>7 DEF SendWebhooks
  <2>1. ASSUME NEW batch \in GetInvoicesToWebhook(Max_retries, SenderBatchSize),
               StartBatch(batch, "webhookChan"), phase' = "delivering", NEW i \in Id
        PROVE  Untouched(i) \/ PickedUp(i)
    <3>1. batch \subseteq WebhookDue(Max_retries)
      BY <2>1 DEF GetInvoicesToWebhook
    <3>2. invoices'[i] = invoices[i] /\ At(i, "none")
      BY <1>1, <2>0 DEF tableVars
    <3>3. CASE i \in batch
      <4>1. job'[i] = [pc |-> "queued", inv |-> invoices[i], ref |-> NoRef,
                      chan |-> "webhookChan"]
        BY <2>1, <3>3 DEF StartBatch
      <4> QED
        BY <2>1, <3>1, <3>2, <3>3, <4>1 DEF PickedUp, At
    <3>4. CASE i \notin batch
      <4>1. job'[i] = job[i]
        BY <2>1, <3>4 DEF StartBatch
      <4> QED
        BY <3>2, <4>1 DEF Untouched, Handling, At
    <3> QED
      BY <3>3, <3>4
  <2> QED
    BY <1>1, <1>3, <1>7, <2>0, <2>1 DEF SendWebhooks, tableVars
<1>8. CASE PassDone
  BY <1>3, <1>8 DEF PassDone, tableVars
<1> QED
  BY <1>4, <1>5, <1>6, <1>7, <1>8 DEF LoopStep

Replaced(i) ==
    /\ invoices[i].status = "FAILED" /\ OnlyRow(i)
    /\ invoices'[i].status = "PENDING"
    /\ invoices'[i].ver = invoices[i].ver + 1 /\ invoices'[i].attempts = 0
    /\ ~invoices'[i].delivered /\ invoices'[i].whAttempts = 0

Inserted(i) ==
    /\ i = nextId /\ nextId' = nextId + 1
    /\ \A j \in Id \ {i} : invoices'[j] = invoices[j]
    /\ invoices'[i].status = "PENDING" /\ invoices'[i].ver = 1 /\ invoices'[i].attempts = 0
    /\ ~invoices'[i].delivered /\ invoices'[i].whAttempts = 0

Removed(i) == invoices[i].status = "FAILED" /\ OnlyRow(i) /\ invoices'[i] = NoRow

AttemptsReset(i) ==
    Live(i) /\ OnlyRow(i) /\ invoices'[i] = [invoices[i] EXCEPT !.whAttempts = 0]

(* A handler replaces, inserts or deletes one row, resets its attempts, or *)
(* changes nothing in the table.                                           *)
LEMMA ApiKinds ==
    ASSUME TypeOK, Api
    PROVE  /\ UNCHANGED <<submissions, phase, job, received>>
           /\ \/ UNCHANGED <<invoices, nextId>>
              \/ \E i \in Id : Replaced(i) \/ Inserted(i) \/ Removed(i) \/ AttemptsReset(i)
<1>0. invoices \in [Id -> Row] /\ nextId \in Nat /\ nextId >= 1
  BY DEF TypeOK, TableTypeOK
<1>1. UNCHANGED <<submissions, phase, job, received>>
  BY DEF Api, CreateReplace, CreateInsert, DeleteInvoiceRequest, DeleteDashboardInvoice,
         RetryWebhook, senderVars
<1>2. ASSUME NEW i \in Id, NEW cb, invoices[i].status = "FAILED", ReplaceInvoice(i, cb)
      PROVE  Replaced(i)
  <2>1. invoices'[i] = [invoices[i] EXCEPT
                           !.status = "PENDING", !.attempts = 0, !.ref = NoRef,
                           !.callback = cb, !.delivered = FALSE,
                           !.whAttempts = 0, !.ver = @ + 1]
        /\ OnlyRow(i)
    BY <1>2, UpdateEffect DEF ReplaceInvoice, Live
  <2>2. invoices[i] \in Row
    BY <1>0
  <2> QED
    BY <1>2, <2>1, <2>2 DEF Replaced, Row
<1>3. ASSUME NEW e, NEW cb, InsertInvoice(e, cb)
      PROVE  \E i \in Id : Inserted(i)
  <2>1. nextId \in Id
    BY <1>0, <1>3 DEF InsertInvoice, Id
  <2>2. invoices'[nextId] = NewRow(e, cb) /\ \A j \in Id \ {nextId} : invoices'[j] = invoices[j]
    BY <1>0, <1>3, <2>1 DEF InsertInvoice
  <2> QED
    BY <1>3, <2>1, <2>2 DEF InsertInvoice, Inserted, NewRow
<1>4. \A i \in Id : DeleteRow(i) => Removed(i)
  BY <1>0 DEF DeleteRow, Removed, OnlyRow
<1>5. \A i \in Id : ResetWebhookAttemptCount(i) => AttemptsReset(i)
  BY UpdateEffect DEF ResetWebhookAttemptCount, AttemptsReset
<1>6. ASSUME NEW e \in Ext, CreateReplace(e)
      PROVE  UNCHANGED <<invoices, nextId>> \/ \E i \in Id : Replaced(i)
  BY <1>2, <1>6 DEF CreateReplace, Replaceable, WithExt, WithStatus, tableVars
<1>7. ASSUME NEW e \in Ext, CreateInsert(e)
      PROVE  UNCHANGED <<invoices, nextId>> \/ \E i \in Id : Inserted(i)
  BY <1>3, <1>7 DEF CreateInsert, tableVars
<1> QED
  BY <1>1, <1>4, <1>5, <1>6, <1>7
     DEF Api, DeleteInvoiceRequest, DeleteInvoiceExternalId, WithExt,
         DeleteDashboardInvoice, DeleteInvoice, RetryWebhook

-----------------------------------------------------------------------------
(* Claimed invoices                                                        *)

(* Somebody handles every claimed invoice.                                 *)
ClaimedAreHandled ==
    \A i \in Id : invoices[i].status = "PROCESSING" /\ Up => Handling(i)

(* A step of a goroutine leaves no claimed invoice behind, if no statement *)
(* fails.                                                                  *)
LEMMA GoroutineKeepsClaims ==
    ASSUME ~DbErrors, IInv, ClaimedAreHandled, NEW i \in Id, Goroutine(i)
    PROVE  ClaimedAreHandled'
<1>0. TypeOK /\ invoices[i] \in Row
  BY IInvPerInvoice, FieldTypes
<1>1. /\ phase' = phase
      /\ \A j \in Id \ {i} : invoices'[j] = invoices[j] /\ job'[j] = job[j]
  BY <1>0, GoroutineFrame DEF OnlyRow
<1>2. \A j \in Id \ {i} : Handling(j)' <=> Handling(j)
  BY <1>1 DEF Handling, At
<1>3. invoices'[i].status = "PROCESSING" /\ Up => Handling(i)'
  <2>1. CASE Moves(i)
    BY <2>1 DEF Moves, ClaimedAreHandled, tableVars
  <2>2. CASE StaysOpen(i) \/ Settles(i, "FAILED") \/ Settles(i, "SENT")
    BY <2>2 DEF StaysOpen, Settles
  <2>3. CASE Tells(i)
    BY <2>3 DEF Tells, ClaimedAreHandled, Handling, tableVars
  <2>4. CASE Records(i)
    <3>1. invoices'[i].status = invoices[i].status /\ ~Handling(i)
      BY <1>0, <2>4 DEF Records, Handling, Row
    <3> QED
      BY <3>1 DEF ClaimedAreHandled
  <2> QED
    BY <2>1, <2>2, <2>3, <2>4, GoroutineKinds DEF GivesUp
<1> QED
  BY <1>1, <1>2, <1>3 DEF ClaimedAreHandled, Up

(* With a database that does not fail, whoever claims an invoice writes    *)
(* back what becomes of it, and a restart recovers what an end of the      *)
(* process left claimed: PROCESSING is never a dead end (cmd/sender.go).   *)
THEOREM NobodyIsStranded == ~DbErrors => (Spec => []NoneStranded)
<1> SUFFICES ASSUME ~DbErrors PROVE Spec => []NoneStranded
  OBVIOUS
<1>1. Init => ClaimedAreHandled
  BY DEF Init, SenderInit, ClaimedAreHandled, Up
<1>2. IInv /\ ClaimedAreHandled /\ [Next]_vars => ClaimedAreHandled'
  <2> SUFFICES ASSUME IInv, ClaimedAreHandled, [Next]_vars PROVE ClaimedAreHandled'
    OBVIOUS
  <2>0. TypeOK /\ invoices \in [Id -> Row]
    BY IInvPerInvoice DEF TypeOK, TableTypeOK
  <2>1. CASE Api
    <3>1. UNCHANGED <<phase, job>> /\ (Up' <=> Up) /\ \A j \in Id : Handling(j)' <=> Handling(j)
      BY <2>0, <2>1, ApiKinds DEF Up, Handling, At
    <3>2. \A j \in Id : invoices'[j].status \in {invoices[j].status, "PENDING", "ABSENT"}
      <4>1. ASSUME NEW i \in Id, Replaced(i) \/ Inserted(i) \/ Removed(i) \/ AttemptsReset(i),
                   NEW j \in Id
            PROVE  invoices'[j].status \in {invoices[j].status, "PENDING", "ABSENT"}
        BY <2>0, <4>1 DEF Replaced, Inserted, Removed, AttemptsReset, OnlyRow, NoRow, NewRow, Row
      <4> QED
        BY <2>0, <2>1, <4>1, ApiKinds
    <3> QED
      BY <3>1, <3>2 DEF ClaimedAreHandled
  <2>2. CASE LoopStep
    <3>1. ASSUME NEW j \in Id, invoices'[j].status = "PROCESSING" PROVE Handling(j)'
      <4>1. CASE Untouched(j)
        BY <2>2, <3>1, <4>1, LoopKinds DEF Untouched, ClaimedAreHandled, Up
      <4>2. CASE PickedUp(j)
        BY <3>1, <4>2 DEF PickedUp, WebhookDue
      <4> QED
        BY <2>2, <4>1, <4>2, LoopKinds DEF Claimed
    <3> QED
      BY <3>1 DEF ClaimedAreHandled
  <2>3. ASSUME NEW i \in Id, Goroutine(i) PROVE ClaimedAreHandled'
    BY <2>3, GoroutineKeepsClaims
  <2>4. CASE KsefDecides \/ UNCHANGED vars
    BY <2>4 DEF KsefDecides, tableVars, senderVars, vars, ClaimedAreHandled, Up, Handling, At
  <2>5. CASE ExitProcess
    BY <2>5 DEF ExitProcess, Exit, ClaimedAreHandled, Up
  <2>6. CASE RestartProcess
    <3>1. \A j \in Id : invoices'[j].status # "PROCESSING"
      BY <2>0, <2>6 DEF RestartProcess, Restart, RecoverProcessingInvoices, Row
    <3> QED
      BY <3>1 DEF ClaimedAreHandled
  <2> QED
    BY <2>1, <2>2, <2>3, <2>4, <2>5, <2>6 DEF Next, SenderStep
<1>3. ClaimedAreHandled => NoneStranded
  BY DEF ClaimedAreHandled, NoneStranded, Handling
<1> QED
  BY <1>1, <1>2, <1>3, Invariance, PTL DEF Spec

-----------------------------------------------------------------------------
(* The slots                                                               *)

(* The goroutines there are share one channel, that of the pass.  Nobody   *)
(* works before the session is open; if it could not be opened the loop    *)
(* takes the invoices one after the other.                                 *)
SlotsTaken ==
    /\ Cardinality(Working) <= SenderWorkerLimit
    /\ \A i \in Id : ~At(i, "none") =>
          job[i].chan = IF phase = "delivering" THEN "webhookChan" ELSE "taskChan"
    /\ phase = "opening" => Working = {}
    /\ phase \in {"paused", "refused"} =>
          \A j \in Working, k \in Id : k < j => At(k, "none")

(* The goroutines past the semaphore can be counted.                       *)
LEMMA WorkingIsFinite == IsFiniteSet(Working) /\ Cardinality(Working) \in Nat
<1>1. IsFiniteSet(Id)
  BY BoundAssumption, FS_Interval DEF Id
<1> QED
  BY <1>1, FS_Subset, FS_CardinalityType DEF Working

(* Nobody at work takes no slot.                                           *)
LEMMA NobodyWorks ==
    ASSUME Working' = {},
           \A i \in Id : ~At(i, "none")' =>
              job'[i].chan = IF phase' = "delivering" THEN "webhookChan" ELSE "taskChan"
    PROVE  SlotsTaken'
<1>1. Cardinality(Working)' = 0
  BY FS_EmptySet
<1> QED
  BY <1>1, ConfigAssumption DEF SlotsTaken, At

(* A goroutine stays with its channel.                                     *)
LEMMA ChannelKept ==
    ASSUME TypeOK, NEW i \in Id, Goroutine(i)
    PROVE  At(i, "none")' \/ job'[i].chan = job[i].chan
<1>0. job \in [Id -> Job] /\ job[i] \in Job /\ job[i].inv \in Row
  BY FieldTypes DEF TypeOK, SenderTypeOK
<1>1. ASSUME NEW pc, Goto(i, pc) PROVE job'[i].chan = job[i].chan
  BY <1>0, <1>1 DEF Goto, Job
<1>2. Finish(i) => At(i, "none")'
  BY <1>0 DEF Finish, NoJob, At
<1>3. ASSUME NEW s, Report(i, s) PROVE At(i, "none")' \/ job'[i].chan = job[i].chan
  BY <1>0, <1>2, <1>3 DEF Report, Job
<1>4. CASE TakeSlot(i) \/ ConfirmInvoice(i) \/ NotifyWebhook(i)
  BY <1>1, <1>4 DEF TakeSlot, ConfirmInvoice, NotifyWebhook
<1>5. CASE SendInvoice(i)
  <2>1. ASSUME NEW r, job' = [job EXCEPT ![i].pc = "writeUnknown", ![i].ref = r]
        PROVE  job'[i].chan = job[i].chan
    BY <1>0, <2>1 DEF Job
  <2> QED
    BY <1>1, <1>5, <2>1 DEF SendInvoice
<1>6. CASE WriteUnknown(i)
  <2>1. ASSUME job' = [job EXCEPT ![i].pc = "confirm", ![i].inv.status = "UNKNOWN",
                                  ![i].inv.ref = job[i].ref, ![i].ref = NoRef]
        PROVE  job'[i].chan = job[i].chan
    BY <1>0, <2>1 DEF Job
  <2> QED
    BY <1>2, <1>6, <2>1 DEF WriteUnknown
<1>7. CASE \/ WritePending(i) \/ WriteRetry(i) \/ RestoreUnknown(i)
           \/ WriteFailed(i) \/ WriteSent(i) \/ MarkDelivered(i) \/ MarkFailed(i)
  BY <1>2, <1>3, <1>7
     DEF WritePending, WriteRetry, RestoreUnknown, WriteFailed, WriteSent, MarkDelivered,
         MarkFailed
<1> QED
  BY <1>4, <1>5, <1>6, <1>7 DEF Goroutine

(* A goroutine that has its slot keeps it or leaves it.                    *)
LEMMA SlotKept ==
    ASSUME SlotsTaken, NEW i \in Id, ~At(i, "none"), ~At(i, "queued"), phase' = phase,
           \A j \in Id \ {i} : job'[j] = job[j],
           At(i, "none")' \/ job'[i].chan = job[i].chan
    PROVE  SlotsTaken'
<1>1. Working' \subseteq Working /\ i \in Working
  BY DEF Working, At
<1>2. Cardinality(Working)' <= Cardinality(Working) /\ Cardinality(Working)' \in Nat
  BY <1>1, WorkingIsFinite, FS_Subset, FS_CardinalityType
<1>3. phase \in {"paused", "refused"} =>
         \A j \in Working', k \in Id : k < j => At(k, "none")'
  BY <1>1 DEF SlotsTaken, At
<1>4. phase # "opening"
  BY <1>1 DEF SlotsTaken
<1>5. \A j \in Id : ~At(j, "none")' =>
         job'[j].chan = IF phase' = "delivering" THEN "webhookChan" ELSE "taskChan"
  BY DEF SlotsTaken, At
<1> QED
  BY <1>2, <1>3, <1>4, <1>5, WorkingIsFinite, ConfigAssumption DEF SlotsTaken, At

(* A goroutine gets a slot only if there is one for it.                    *)
LEMMA SlotTaken == ASSUME TypeOK, SlotsTaken, NEW i \in Id, TakeSlot(i) PROVE SlotsTaken'
<1>1. /\ At(i, "queued") /\ ~At(i, "queued")' /\ ~At(i, "none")'
      /\ phase' = phase /\ phase # "opening"
      /\ job'[i].chan = job[i].chan
      /\ \A j \in Id \ {i} : job'[j] = job[j]
  <2>1. FirstStep(i) \in Pc /\ FirstStep(i) \notin {"none", "queued"}
    BY FirstStepType DEF TakeSlot, FirstStep, HandleInvoiceFailure
  <2> QED
    BY <2>1, GotoEffect, ChannelKept DEF TakeSlot, Goroutine, At
<1>2. \A j \in Id : ~At(j, "none")' =>
         job'[j].chan = IF phase' = "delivering" THEN "webhookChan" ELSE "taskChan"
  BY <1>1 DEF SlotsTaken, At
<1>3. Working' = Working \cup {i} /\ i \notin Working
  BY <1>1 DEF Working, At
<1>4. CASE phase \in {"paused", "refused"}
  <2>1. \A j \in Id : j < i => At(j, "none")
    BY <1>4 DEF TakeSlot, SlotFree
  <2>2. ASSUME NEW j \in Working PROVE FALSE
    <3>1. j \in Id /\ ~At(j, "none") /\ j # i /\ (i < j => At(i, "none"))
      BY <1>3, <1>4, <2>2 DEF Working, SlotsTaken
    <3>2. j < i \/ i < j
      BY <3>1 DEF Id
    <3> QED
      BY <1>1, <2>1, <3>1, <3>2 DEF At
  <2>3. Working' = {i}
    BY <1>3, <2>2
  <2>4. Cardinality(Working)' = 1
    BY <2>3, FS_Singleton
  <2>5. \A k \in Id : k < i => At(k, "none")'
    BY <1>1, <2>1 DEF At, Id
  <2> QED
    BY <1>1, <1>2, <2>3, <2>4, <2>5, ConfigAssumption DEF SlotsTaken, At
<1>5. CASE phase \notin {"paused", "refused"}
  <2>0. \A j \in Working : job[j].chan = job[i].chan
    BY <1>1 DEF SlotsTaken, Working, At
  <2>1. Cardinality(Working) < SenderWorkerLimit
    <3>1. Holders(i) = Working
      BY <2>0 DEF Holders
    <3> QED
      BY <1>5, <3>1 DEF TakeSlot, SlotFree
  <2>2. Cardinality(Working)' = Cardinality(Working) + 1
    BY <1>3, WorkingIsFinite, FS_AddElement
  <2> QED
    BY <1>1, <1>5, <1>2, <2>1, <2>2, WorkingIsFinite, ConfigAssumption DEF SlotsTaken, At
<1> QED
  BY <1>4, <1>5

(* At most SenderWorkerLimit goroutines are at work, although there are    *)
(* two semaphore channels of that size, also when the loop itself puts a   *)
(* batch back: wg.Wait keeps the passes of a tick apart (startSender).     *)
THEOREM WorkersAreBounded == Spec => []WorkersBounded
<1>1. Init => SlotsTaken
  <2> SUFFICES ASSUME Init PROVE SlotsTaken
    OBVIOUS
  <2>1. Working = {}
    BY DEF Init, SenderInit, Working, NoJob, At
  <2>2. Cardinality(Working) = 0
    BY <2>1, FS_EmptySet
  <2> QED
    BY <2>1, <2>2, ConfigAssumption DEF SlotsTaken, Init, SenderInit, NoJob, At
<1>2. IInv /\ SlotsTaken /\ [Next]_vars => SlotsTaken'
  <2> SUFFICES ASSUME IInv, SlotsTaken, [Next]_vars PROVE SlotsTaken'
    OBVIOUS
  <2>0. TypeOK /\ \A i \in Id : JobSound(i)
    BY IInvPerInvoice
  <2>1. CASE UNCHANGED <<phase, job>>
    <3>1. Working' = Working /\ \A k \in Id : At(k, "none")' <=> At(k, "none")
      BY <2>1 DEF Working, At
    <3> QED
      BY <2>1, <3>1 DEF SlotsTaken
  <2>2. CASE LoopStep
    <3>1. CASE OpenInSession
      <4>1. Working' = {}
        BY <3>1 DEF OpenInSession, SlotsTaken, Working, At
      <4> QED
        BY <3>1, <4>1, NobodyWorks DEF OpenInSession, SlotsTaken, At
    <3>2. CASE ~OpenInSession
      <4>1. \A i \in Id : At(i, "none")
        BY <2>0, <2>2, <3>2
           DEF JobSound, LoopStep, CheckUnknownInvoices, ClaimPending, SendWebhooks, PassDone
      <4>2. ASSUME NEW i \in Id PROVE At(i, "none")' \/ At(i, "queued")'
        BY <2>2, <4>1, LoopKinds DEF Untouched, Claimed, PickedUp, At
      <4>3. Working' = {}
        BY <4>2 DEF Working
      <4>4. ASSUME NEW i \in Id, ~At(i, "none")'
            PROVE  job'[i].chan = IF phase' = "delivering" THEN "webhookChan" ELSE "taskChan"
        BY <2>2, <4>1, <4>4, LoopKinds DEF Untouched, Claimed, PickedUp, Handling, At
      <4> QED
        BY <4>3, <4>4, NobodyWorks
    <3> QED
      BY <3>1, <3>2
  <2>3. ASSUME NEW i \in Id, Goroutine(i) PROVE SlotsTaken'
    BY <2>0, <2>3, GoroutineFrame, ChannelKept, SlotKept, SlotTaken
  <2>4. CASE ExitProcess
    <3>1. Working' = {}
      BY <2>4 DEF ExitProcess, Exit, Working, NoJob, At
    <3> QED
      BY <2>4, <3>1, NobodyWorks DEF ExitProcess, Exit, NoJob, At
  <2>5. CASE RestartProcess
    <3>1. Working' = {}
      BY <2>0, <2>5 DEF RestartProcess, Restart, JobSound, Working, At
    <3> QED
      BY <2>0, <2>5, <3>1, NobodyWorks DEF RestartProcess, Restart, JobSound, At
  <2> QED
    BY <2>0, <2>1, <2>2, <2>3, <2>4, <2>5, ApiKinds
       DEF Next, SenderStep, KsefDecides, senderVars, vars
<1>3. SlotsTaken => WorkersBounded
  BY DEF SlotsTaken, WorkersBounded
<1> QED
  BY <1>1, <1>2, <1>3, Invariance, PTL DEF Spec

-----------------------------------------------------------------------------
(* What callbacks are told                                                 *)

Accepted(i, v) ==
    \E r \in Ref : /\ submissions[r].id = i /\ submissions[r].ver = v
                   /\ submissions[r].verdict = "accepted"

(* The event is the outcome of content v of i, now or once and for all:    *)
(* the row still shows it, or has got new content, or is gone.             *)
TrueEvent(i, v, event) ==
    /\ i < nextId
    /\ Live(i) => \/ v < invoices[i].ver
                  \/ /\ v = invoices[i].ver
                     /\ invoices[i].status =
                           IF event = "invoice.failed" THEN "FAILED" ELSE "SENT"
    /\ event = "invoice.accepted" => Accepted(i, v)

(* The goroutine of i is to report an outcome.                             *)
Reporting(i) == ~At(i, "none") /\ ~Handling(i)

(* What has been told of i is true and no two events contradict each       *)
(* other; what is about to be told fits in; and it is not written down     *)
(* before it arrived.                                                      *)
EventsSound(i) ==
    /\ ~Live(i) => invoices[i] = NoRow
    /\ \A v \in received : v.id = i => TrueEvent(i, v.ver, v.event)
    /\ \A v, w \in received : v.id = i /\ w.id = i /\ v.ver = w.ver => v.event = w.event
    /\ Reporting(i) =>
          /\ job[i].inv.status \in {"FAILED", "SENT"}
          /\ TrueEvent(i, job[i].inv.ver, EventOf(i).event)
          /\ \A v \in received : v.id = i /\ v.ver = job[i].inv.ver =>
                v.event = EventOf(i).event
    /\ At(i, "markDelivered") => EventOf(i) \in received
    /\ invoices[i].delivered => \E v \in received : v.id = i /\ v.ver <= invoices[i].ver

(* KSeF does not take an acceptance back.                                  *)
LEMMA AcceptedForGood ==
    ASSUME TypeOK, KsefGrows, NEW i, NEW v, Accepted(i, v)
    PROVE  Accepted(i, v)'
  BY DEF Accepted, KsefGrows, Used

(* An invoice that a step leaves alone stays sound, whatever the others    *)
(* are told and KSeF decides.                                              *)
LEMMA SameEvents ==
    ASSUME TypeOK, NEW j \in Id, EventsSound(j),
           invoices'[j] = invoices[j], job'[j] = job[j], Reporting(j)' => Reporting(j),
           nextId' \in {nextId, nextId + 1}, KsefGrows, received \subseteq received',
           \A v \in received' : v.id = j => v \in received
    PROVE  EventsSound(j)'
<1>1. (Live(j)' <=> Live(j)) /\ (At(j, "markDelivered")' <=> At(j, "markDelivered"))
      /\ EventOf(j)' = EventOf(j)
  BY DEF Live, At, EventOf
<1>2. ASSUME NEW v, NEW event, TrueEvent(j, v, event) PROVE TrueEvent(j, v, event)'
  <2>1. j < nextId'
    BY <1>2 DEF TrueEvent, TypeOK, TableTypeOK, Id
  <2> QED
    BY <1>1, <1>2, <2>1, AcceptedForGood DEF TrueEvent
<1> QED
  BY <1>1, <1>2 DEF EventsSound

(* Of an open row nothing has been told but earlier contents.              *)
LEMMA OpenRows ==
    ASSUME NEW i \in Id, EventsSound(i),
           invoices[i].status \in {"PENDING", "PROCESSING", "UNKNOWN"}
    PROVE  /\ \A v \in received : v.id = i =>
                 /\ v.ver < invoices[i].ver
                 /\ v.event = "invoice.accepted" => Accepted(i, v.ver)
           /\ Live(i)
  BY DEF EventsSound, TrueEvent, Live

(* A row that shows an outcome shows a true one.                           *)
LEMMA OutcomesShown ==
    ASSUME IInv, NEW i \in Id, invoices[i].status \in {"FAILED", "SENT"}
    PROVE  TrueEvent(i, invoices[i].ver,
                     IF invoices[i].status = "FAILED" THEN "invoice.failed"
                                                      ELSE "invoice.accepted")
<1>0. TypeOK /\ RowSound(i) /\ Live(i)
  BY IInvPerInvoice DEF Live
<1>1. i < nextId
  BY <1>0 DEF RowSound, TypeOK, TableTypeOK, Id
<1>2. invoices[i].status = "SENT" => Accepted(i, invoices[i].ver)
  BY <1>0, FieldTypes DEF RowSound, Accepted
<1> QED
  BY <1>0, <1>1, <1>2 DEF TrueEvent

(* A step of its goroutine keeps an invoice sound.                         *)
LEMMA GoroutineKeepsEvents ==
    ASSUME IInv, IInv', NEW i \in Id, EventsSound(i), Goroutine(i)
    PROVE  EventsSound(i)'
<1>0. /\ TypeOK /\ RowSound(i) /\ JobSound(i) /\ invoices[i] \in Row /\ job[i].inv \in Row
      /\ received \subseteq Event /\ nextId' = nextId /\ ~At(i, "none")
  BY IInvPerInvoice, FieldTypes, GoroutineFrame DEF OnlyRow, TypeOK, SenderTypeOK
<1>1. CASE Moves(i)
  <2>1. KsefGrows
    <3>1. CASE UNCHANGED submissions
      BY <3>1, SameKsef
    <3>2. ASSUME NEW r \in Ref, Submit(i, job[i].inv.ver, r) PROVE KsefGrows
      BY <1>0, <3>2, KsefActionsGrow
    <3> QED
      BY <1>1, <3>1, <3>2 DEF Moves
  <2>2. /\ invoices' = invoices /\ received' = received
        /\ Reporting(i)' <=> Reporting(i)
        /\ EventOf(i)' = EventOf(i) /\ ~At(i, "markDelivered")'
        /\ job'[i].inv = job[i].inv
    BY <1>0, <1>1 DEF Moves, tableVars, Reporting, EventOf
  <2>3. ASSUME NEW v, NEW event, TrueEvent(i, v, event) PROVE TrueEvent(i, v, event)'
    BY <1>0, <2>1, <2>2, <2>3, AcceptedForGood DEF TrueEvent, Live
  <2> QED
    BY <2>2, <2>3 DEF EventsSound, Live
<1>2. CASE StaysOpen(i)
  <2>1. /\ Handling(i) /\ received' = received /\ submissions' = submissions
        /\ Live(i)' /\ invoices'[i].ver = invoices[i].ver
        /\ invoices'[i].delivered = invoices[i].delivered
        /\ ~Reporting(i)' /\ ~At(i, "markDelivered")'
    BY <1>2 DEF StaysOpen, KeepsReport, Live, Reporting, At, Handling
  <2>2. \A v \in received : v.id = i => TrueEvent(i, v.ver, v.event)'
    BY <1>0, <2>1, OpenRows, HandledRows DEF TrueEvent, Accepted
  <2> QED
    BY <2>1, <2>2 DEF EventsSound
<1>3. ASSUME NEW s \in {"FAILED", "SENT"}, Settles(i, s) PROVE EventsSound(i)'
  <2>1. /\ Handling(i) /\ received' = received /\ submissions' = submissions
        /\ Live(i)' /\ invoices'[i].ver = invoices[i].ver
        /\ invoices'[i].delivered = invoices[i].delivered
        /\ ~At(i, "markDelivered")'
    BY <1>3 DEF Settles, KeepsReport, Live, At
  <2>2. \A v \in received : v.id = i =>
           v.ver # invoices[i].ver /\ TrueEvent(i, v.ver, v.event)'
    BY <1>0, <2>1, OpenRows, HandledRows DEF TrueEvent, Accepted, Event, Row, Version
  <2>3. ASSUME Reporting(i)'
        PROVE  /\ job'[i].inv.status = s
               /\ job'[i].inv.ver = invoices[i].ver
               /\ TrueEvent(i, job[i].inv.ver, EventOf(i).event)'
    <3>1. job'[i].inv.status = s /\ job'[i].inv.ver = invoices[i].ver
      BY <1>0, <1>3, <2>1, <2>3, HandledRows DEF Settles, Reporting, Row
    <3>2. invoices'[i].status = s /\ i < nextId'
      BY <1>0, <1>3, <2>1, HandledRows DEF Settles
    <3>3. s = "SENT" => Accepted(i, invoices[i].ver)'
      BY <1>0, <1>3, <2>1, FieldTypes DEF Settles, RowSound, Accepted
    <3> QED
      BY <2>1, <3>1, <3>2, <3>3 DEF TrueEvent, EventOf
  <2> QED
    BY <2>1, <2>2, <2>3 DEF EventsSound
<1>4. CASE GivesUp(i)
  BY <1>0, <1>4, SameKsef, AcceptedForGood
     DEF GivesUp, EventsSound, TrueEvent, Accepted, Reporting, At, Live, tableVars
<1>5. CASE Tells(i)
  <2>1. /\ invoices' = invoices /\ submissions' = submissions
        /\ job'[i].inv = job[i].inv /\ EventOf(i)' = EventOf(i)
        /\ Reporting(i) /\ EventOf(i).id = i /\ EventOf(i).ver = job[i].inv.ver
        /\ \A v \in received' : v \in received \/ v = EventOf(i)
        /\ received \subseteq received'
    BY <1>5 DEF Tells, tableVars, EventOf, Reporting, Handling, At
  <2>2. \A v, event : TrueEvent(i, v, event)' <=> TrueEvent(i, v, event)
    BY <1>0, <2>1 DEF TrueEvent, Accepted, Live
  <2>3. At(i, "markDelivered")' => EventOf(i) \in received'
    BY <1>5 DEF Tells, At
  <2> QED
    BY <2>1, <2>2, <2>3 DEF EventsSound, Live
<1>6. CASE Records(i)
  <2>1. /\ received' = received /\ submissions' = submissions /\ ~Reporting(i)'
        /\ ~At(i, "markDelivered")'
    BY <1>6 DEF Records, Reporting, At
  <2>2. /\ invoices'[i].status = invoices[i].status /\ invoices'[i].ver = invoices[i].ver
        /\ ~Live(i) => invoices'[i] = invoices[i]
    BY <1>0, <1>6 DEF Records, Row
  <2>3. \A v, event : TrueEvent(i, v, event)' <=> TrueEvent(i, v, event)
    BY <1>0, <2>1, <2>2 DEF TrueEvent, Accepted, Live
  <2>4. invoices'[i].delivered /\ ~invoices[i].delivered =>
           Live(i) /\ At(i, "markDelivered")
    BY <1>0, <1>6 DEF Records, Row
  <2>5. invoices'[i].delivered => \E v \in received : v.id = i /\ v.ver <= invoices[i].ver
    <3>1. CASE invoices[i].delivered
      BY <3>1 DEF EventsSound
    <3>2. CASE Live(i) /\ At(i, "markDelivered")
      <4>1. Reporting(i) /\ EventOf(i).id = i /\ EventOf(i).ver = job[i].inv.ver
        BY <3>2 DEF Reporting, Handling, At, EventOf
      <4>2. job[i].inv.ver <= invoices[i].ver
        BY <1>0, <3>2, <4>1 DEF EventsSound, TrueEvent, Row, Version
      <4> QED
        BY <3>2, <4>1, <4>2 DEF EventsSound
    <3> QED
      BY <2>4, <3>1, <3>2
  <2> QED
    BY <2>1, <2>2, <2>3, <2>5 DEF EventsSound, Live
<1> QED
  BY <1>1, <1>2, <1>3, <1>4, <1>5, <1>6, GoroutineKinds

(* A claimed row is open: nothing is told of its content.  What is picked  *)
(* up for its webhook shows its outcome.                                   *)
LEMMA LoopKeepsEvents ==
    ASSUME IInv, LoopStep, NEW i \in Id, EventsSound(i)
    PROVE  EventsSound(i)'
<1>0. /\ TypeOK /\ invoices[i] \in Row /\ nextId' = nextId /\ received \subseteq Event
      /\ submissions' = submissions /\ received' = received
  BY LoopKinds, IInvPerInvoice, FieldTypes DEF TypeOK, SenderTypeOK
<1>1. CASE Untouched(i)
  <2>1. invoices'[i] = invoices[i] /\ job'[i] = job[i] /\ (Reporting(i)' => Reporting(i))
    BY <1>1 DEF Untouched, Reporting, At
  <2> QED
    BY <1>0, <2>1, SameEvents, SameKsef
<1>2. CASE Claimed(i)
  <2>1. /\ ~Reporting(i)' /\ ~At(i, "markDelivered")' /\ Live(i)'
        /\ invoices'[i].ver = invoices[i].ver
        /\ invoices'[i].delivered = invoices[i].delivered
    BY <1>0, <1>2 DEF Claimed, Reporting, At, Live, Row
  <2>2. \A v \in received : v.id = i => TrueEvent(i, v.ver, v.event)'
    BY <1>0, <1>2, <2>1, OpenRows DEF Claimed, EventsSound, TrueEvent, Accepted
  <2> QED
    BY <1>0, <2>1, <2>2 DEF EventsSound
<1>3. CASE PickedUp(i)
  <2>1. /\ invoices'[i] = invoices[i] /\ ~At(i, "markDelivered")'
        /\ job'[i].inv = invoices[i]
        /\ invoices[i].status \in {"FAILED", "SENT"}
    BY <1>3 DEF PickedUp, WebhookDue, At
  <2>2. \A v, event : TrueEvent(i, v, event)' <=> TrueEvent(i, v, event)
    BY <1>0, <2>1 DEF TrueEvent, Accepted, Live
  <2>3. /\ TrueEvent(i, job[i].inv.ver, EventOf(i).event)'
        /\ EventOf(i)'.event = IF invoices[i].status = "FAILED" THEN "invoice.failed"
                                                               ELSE "invoice.accepted"
    BY <1>0, <2>1, OutcomesShown DEF EventOf, TrueEvent, Accepted, Live
  <2>4. \A v \in received : v.id = i /\ v.ver = invoices[i].ver =>
           v.event = IF invoices[i].status = "FAILED" THEN "invoice.failed"
                                                      ELSE "invoice.accepted"
    <3>1. ASSUME NEW v \in received, v.id = i, v.ver = invoices[i].ver
          PROVE  /\ v.event \in {"invoice.failed", "invoice.accepted"}
                 /\ invoices[i].status = IF v.event = "invoice.failed" THEN "FAILED" ELSE "SENT"
      BY <1>0, <2>1, <3>1 DEF EventsSound, TrueEvent, Live, Event, Row, Version
    <3> QED
      BY <3>1
  <2> QED
    BY <1>0, <2>1, <2>2, <2>3, <2>4 DEF EventsSound, Live
<1> QED
  BY <1>1, <1>2, <1>3, LoopKinds

(* A new content has a version of its own, a new row an id of its own.     *)
LEMMA ApiKeepsEvents ==
    ASSUME IInv, Api, NEW i \in Id, EventsSound(i)
    PROVE  EventsSound(i)'
<1>0. /\ TypeOK /\ invoices[i] \in Row /\ RowSound(i) /\ received \subseteq Event
      /\ job[i].inv \in Row
      /\ submissions' = submissions /\ received' = received /\ phase' = phase /\ job' = job
  BY ApiKinds, IInvPerInvoice, FieldTypes DEF TypeOK, SenderTypeOK
<1>1. /\ Reporting(i)' <=> Reporting(i)
      /\ At(i, "markDelivered")' <=> At(i, "markDelivered")
      /\ EventOf(i)' = EventOf(i)
      /\ \A v : Accepted(i, v)' <=> Accepted(i, v)
  BY <1>0 DEF Reporting, Handling, At, EventOf, Accepted
<1>2. CASE invoices'[i] = invoices[i] /\ nextId' \in {nextId, nextId + 1}
  BY <1>0, <1>1, <1>2, SameEvents, SameKsef
<1>3. CASE Replaced(i)
  <2>1. \A v, event : v \in Version /\ TrueEvent(i, v, event) => TrueEvent(i, v, event)'
    BY <1>0, <1>1, <1>3 DEF Replaced, TrueEvent, OnlyRow, Live, Row, Version
  <2>2. Live(i)' /\ ~invoices'[i].delivered
    BY <1>3 DEF Replaced, Live
  <2> QED
    BY <1>0, <1>1, <2>1, <2>2 DEF EventsSound, Event, Row
<1>4. CASE Inserted(i)
  <2>1. \A v, event : ~TrueEvent(i, v, event)
    BY <1>4 DEF Inserted, TrueEvent, Id
  <2>2. Live(i)' /\ ~invoices'[i].delivered
    BY <1>4 DEF Inserted, Live
  <2> QED
    BY <1>0, <1>1, <2>1, <2>2 DEF EventsSound
<1>5. CASE Removed(i)
  <2>1. /\ ~Live(i)' /\ invoices'[i] = NoRow /\ ~invoices'[i].delivered /\ i < nextId'
    BY <1>0, <1>5 DEF Removed, Live, NoRow, NewRow, OnlyRow, RowSound, TypeOK, TableTypeOK, Id
  <2>2. \A v, event : TrueEvent(i, v, event) => TrueEvent(i, v, event)'
    BY <1>1, <2>1 DEF TrueEvent
  <2> QED
    BY <1>0, <1>1, <2>1, <2>2 DEF EventsSound
<1>6. CASE AttemptsReset(i)
  <2>1. /\ invoices'[i].status = invoices[i].status /\ invoices'[i].ver = invoices[i].ver
        /\ invoices'[i].delivered = invoices[i].delivered /\ nextId' = nextId /\ Live(i)
    BY <1>0, <1>6 DEF AttemptsReset, OnlyRow, Row
  <2>2. \A v, event : TrueEvent(i, v, event)' <=> TrueEvent(i, v, event)
    BY <1>1, <2>1 DEF TrueEvent, Live
  <2> QED
    BY <1>0, <1>1, <2>1, <2>2 DEF EventsSound, Live
<1> QED
  <2>1. ASSUME NEW k \in Id \ {i},
               Replaced(k) \/ Inserted(k) \/ Removed(k) \/ AttemptsReset(k)
        PROVE  invoices'[i] = invoices[i] /\ nextId' \in {nextId, nextId + 1}
    BY <2>1 DEF Replaced, Inserted, Removed, AttemptsReset, OnlyRow
  <2> QED
    BY <1>0, <1>2, <1>3, <1>4, <1>5, <1>6, <2>1, ApiKinds

(* Every step keeps the events of every invoice sound.                     *)
LEMMA StepsKeepEvents ==
    ASSUME IInv, IInv', [Next]_vars, \A i \in Id : EventsSound(i)
    PROVE  \A i \in Id : EventsSound(i)'
<1> TAKE i \in Id
<1>0. TypeOK /\ invoices[i] \in Row /\ RowSound(i) /\ JobSound(i)
      /\ invoices \in [Id -> Row]
  BY IInvPerInvoice, FieldTypes DEF TypeOK, TableTypeOK
<1>1. CASE Api
  BY <1>1, ApiKeepsEvents
<1>2. CASE LoopStep
  BY <1>2, LoopKeepsEvents
<1>3. ASSUME NEW k \in Id, Goroutine(k) PROVE EventsSound(i)'
  <2>1. CASE k = i
    BY <1>3, <2>1, GoroutineKeepsEvents
  <2>2. CASE k # i
    <3>1. /\ invoices'[i] = invoices[i] /\ job'[i] = job[i] /\ nextId' = nextId
          /\ phase' = phase
      BY <1>0, <1>3, <2>2, GoroutineFrame DEF OnlyRow
    <3>2. Reporting(i)' <=> Reporting(i)
      BY <3>1 DEF Reporting, Handling, At
    <3>3. KsefGrows
      <4>1. ASSUME NEW r \in Ref, Submit(k, job[k].inv.ver, r) PROVE KsefGrows
        BY <1>0, <4>1, KsefActionsGrow
      <4> QED
        BY <1>3, <4>1, GoroutineKinds, SameKsef
           DEF Moves, StaysOpen, Settles, GivesUp, Tells, Records
    <3>4. received \subseteq received' /\ \A v \in received' : v.id = i => v \in received
      <4>1. received' = received \/ received' = received \cup {EventOf(k)}
        BY <1>3, GoroutineKinds DEF Moves, StaysOpen, Settles, GivesUp, Tells, Records
      <4>2. EventOf(k).id = k
        BY DEF EventOf
      <4> QED
        BY <2>2, <4>1, <4>2
    <3> QED
      BY <1>0, <3>1, <3>2, <3>3, <3>4, SameEvents
  <2> QED
    BY <2>1, <2>2
<1>4. CASE KsefDecides
  <2>1. KsefGrows /\ UNCHANGED <<tableVars, senderVars>>
    BY <1>0, <1>4, KsefActionsGrow DEF KsefDecides
  <2>2. Reporting(i)' <=> Reporting(i)
    BY <2>1 DEF senderVars, Reporting, Handling, At
  <2> QED
    BY <1>0, <2>1, <2>2, SameEvents DEF tableVars, senderVars
<1>5. CASE ExitProcess
  <2>1. /\ invoices' = invoices /\ nextId' = nextId /\ submissions' = submissions
        /\ received' = received /\ ~Reporting(i)' /\ ~At(i, "markDelivered")'
    BY <1>5 DEF ExitProcess, Exit, tableVars, NoJob, Reporting, At
  <2>2. \A v, event : TrueEvent(i, v, event)' <=> TrueEvent(i, v, event)
    BY <2>1 DEF TrueEvent, Accepted, Live
  <2> QED
    BY <2>1, <2>2 DEF EventsSound, Live
<1>6. CASE RestartProcess
  <2>1. /\ nextId' = nextId /\ submissions' = submissions /\ received' = received
        /\ At(i, "none")'
    BY <1>0, <1>6 DEF RestartProcess, Restart, RecoverProcessingInvoices, JobSound, At
  <2>2. ~Reporting(i)' /\ ~At(i, "markDelivered")'
    BY <2>1 DEF Reporting, At
  <2>3. CASE invoices[i].status # "PROCESSING"
    <3>1. invoices'[i] = invoices[i]
      BY <1>0, <1>6, <2>3 DEF RestartProcess, Restart, RecoverProcessingInvoices
    <3>2. \A v, event : TrueEvent(i, v, event)' <=> TrueEvent(i, v, event)
      BY <2>1, <3>1 DEF TrueEvent, Accepted, Live
    <3> QED
      BY <2>1, <2>2, <3>1, <3>2 DEF EventsSound, Live
  <2>4. CASE invoices[i].status = "PROCESSING"
    <3>1. /\ Live(i)' /\ invoices'[i].ver = invoices[i].ver
          /\ invoices'[i].delivered = invoices[i].delivered
      BY <1>0, <1>6, <2>4 DEF RestartProcess, Restart, RecoverProcessingInvoices, Row, Live
    <3>2. \A v \in received : v.id = i => TrueEvent(i, v.ver, v.event)'
      BY <2>1, <2>4, <3>1, OpenRows DEF EventsSound, TrueEvent, Accepted
    <3> QED
      BY <2>1, <2>2, <3>1, <3>2 DEF EventsSound
  <2> QED
    BY <2>3, <2>4
<1>7. CASE UNCHANGED vars
  <2>1. Reporting(i)' <=> Reporting(i)
    BY <1>7 DEF vars, Reporting, Handling, At
  <2> QED
    BY <1>0, <1>7, <2>1, SameEvents, SameKsef DEF vars
<1> QED
  BY <1>1, <1>2, <1>3, <1>4, <1>5, <1>6, <1>7 DEF Next, SenderStep

(* Whatever has been told of an invoice is the outcome KSeF or the service *)
(* gave that content of it (deliverWebhook in cmd/webhook.go).             *)
THEOREM EventsAreSound == Spec => [](\A i \in Id : EventsSound(i))
<1>1. Init => \A i \in Id : EventsSound(i)
  BY DEF Init, TableInit, SenderInit, EventsSound, Live, Reporting, At, NoJob, NoRow, NewRow
<1>2. IInv /\ IInv' /\ (\A i \in Id : EventsSound(i)) /\ [Next]_vars
      => (\A i \in Id : EventsSound(i))'
  BY StepsKeepEvents
<1> QED
  BY <1>1, <1>2, Invariance, PTL DEF Spec

(* No callback is told both outcomes of one content of an invoice, and of  *)
(* an acceptance only if KSeF gave it, although events are sent twice, get *)
(* lost, and are sent for copies that were replaced or deleted meanwhile   *)
(* (deliverWebhook in cmd/webhook.go).                                     *)
THEOREM EventsAreConsistent == Spec => []EventsConsistent
<1>1. TypeOK /\ (\A i \in Id : EventsSound(i)) => EventsConsistent
  <2> SUFFICES ASSUME TypeOK, \A i \in Id : EventsSound(i), NEW v \in received
               PROVE  /\ \A w \in received : v.id = w.id /\ v.ver = w.ver => v.event = w.event
                      /\ v.event = "invoice.accepted" =>
                            \E r \in Ref : submissions[r] = [id |-> v.id, ver |-> v.ver,
                                                             verdict |-> "accepted"]
    BY DEF EventsConsistent
  <2>1. v.id \in Id
    BY DEF TypeOK, SenderTypeOK, Event
  <2>2. ASSUME v.event = "invoice.accepted"
        PROVE  \E r \in Ref : submissions[r] = [id |-> v.id, ver |-> v.ver,
                                                verdict |-> "accepted"]
    <3>1. Accepted(v.id, v.ver)
      BY <2>1, <2>2 DEF EventsSound, TrueEvent
    <3>2. PICK r \in Ref : /\ submissions[r].id = v.id /\ submissions[r].ver = v.ver
                           /\ submissions[r].verdict = "accepted"
      BY <3>1 DEF Accepted
    <3>3. submissions[r] \in Submission
      BY DEF TypeOK, KsefTypeOK
    <3> QED
      BY <3>2, <3>3 DEF Submission
  <2> QED
    BY <2>1, <2>2 DEF EventsSound
<1> QED
  BY <1>1, EventsAreSound, TypeCorrect, PTL

(* A row is marked as delivered only after its callback received an        *)
(* outcome of this invoice, never one of an invoice whose id it took over  *)
(* (UpdateWebhookDelivered after a 2xx answer).                            *)
THEOREM DeliveredWasReceived == Spec => []DeliveredIsReceived
<1>1. (\A i \in Id : EventsSound(i)) => DeliveredIsReceived
  BY DEF EventsSound, DeliveredIsReceived
<1> QED
  BY <1>1, EventsAreSound, PTL

-----------------------------------------------------------------------------
(* The retries                                                             *)

(* Who is about to count a retry has one left; who is about to give up an  *)
(* invoice that has no submission has none.                                *)
RetriesLeft(i) ==
    /\ invoices[i].attempts <= Max_retries
    /\ At(i, "writeRetry") => job[i].inv.attempts < Max_retries
    /\ At(i, "writeFailed") /\ job[i].inv.ref = NoRef => job[i].inv.attempts >= Max_retries

(* What RetriesCounted says of one invoice.                                *)
CountsRetry(i) ==
    KeepsContent(i) =>
       /\ IF At(i, "writeRetry") /\ invoices'[i].status = "PENDING"
          THEN /\ invoices'[i].attempts = invoices[i].attempts + 1
               /\ invoices'[i].attempts <= Max_retries
          ELSE invoices'[i].attempts = invoices[i].attempts
       /\ (/\ invoices'[i].status = "FAILED" /\ invoices[i].status # "FAILED"
           /\ invoices'[i].ref = NoRef) => invoices[i].attempts = Max_retries

(* A step of nobody or of somebody else counts nothing.                    *)
LEMMA NothingCounted ==
    ASSUME IInv, NEW i \in Id, RetriesLeft(i),
           invoices'[i].attempts = invoices[i].attempts,
           invoices'[i].status = invoices[i].status, job'[i] = job[i]
    PROVE  RetriesLeft(i)' /\ CountsRetry(i)
<1>1. At(i, "writeRetry") => invoices[i].status # "PENDING"
  BY StepsOfHandling, HandledRows DEF At
<1> QED
  BY <1>1 DEF RetriesLeft, CountsRetry, At

(* The goroutine of i counts a retry only where it puts i back, and gives  *)
(* up only what has none left or was submitted.                            *)
LEMMA GoroutineCounts ==
    ASSUME IInv, NEW i \in Id, RetriesLeft(i), Goroutine(i)
    PROVE  RetriesLeft(i)' /\ CountsRetry(i)
<1>0. /\ TypeOK /\ RowSound(i) /\ JobSound(i)
      /\ job[i] \in Job /\ job[i].inv \in Row /\ job \in [Id -> Job]
      /\ invoices[i] \in Row /\ invoices \in [Id -> Row]
      /\ invoices[i].attempts \in Nat /\ job[i].inv.attempts \in Nat /\ Max_retries \in Nat
  BY IInvPerInvoice, FieldTypes, ConfigAssumption
     DEF TypeOK, TableTypeOK, SenderTypeOK, Row
<1>1. /\ HandleInvoiceFailure(i) = "writeFailed" => job[i].inv.attempts >= Max_retries
      /\ HandleInvoiceFailure(i) = "writeRetry" => job[i].inv.attempts < Max_retries
      /\ HandleInvoiceFailure(i) \in {"writeFailed", "writeRetry"}
  BY <1>0 DEF HandleInvoiceFailure
<1>2. ASSUME NEW pc \in Pc, Goto(i, pc), UNCHANGED tableVars, ~At(i, "writeRetry"),
             pc = "writeRetry" => job[i].inv.attempts < Max_retries,
             pc = "writeFailed" /\ job[i].inv.ref = NoRef => job[i].inv.attempts >= Max_retries
      PROVE  RetriesLeft(i)' /\ CountsRetry(i)
  <2>1. job'[i].pc = pc /\ job'[i].inv = job[i].inv /\ invoices'[i] = invoices[i]
    BY <1>0, <1>2, GotoEffect DEF tableVars
  <2> QED
    BY <1>2, <2>1 DEF RetriesLeft, CountsRetry, At
<1>3. ASSUME ~At(i, "writeRetry"), invoices'[i].attempts = invoices[i].attempts,
             job'[i].pc \notin {"writeRetry", "writeFailed"},
             (/\ invoices'[i].status = "FAILED" /\ invoices[i].status # "FAILED"
              /\ invoices'[i].ref = NoRef) => invoices[i].attempts = Max_retries
      PROVE  RetriesLeft(i)' /\ CountsRetry(i)
  BY <1>3 DEF RetriesLeft, CountsRetry, At
<1>4. CASE TakeSlot(i)
  <2>1. /\ FirstStep(i) \in Pc /\ Goto(i, FirstStep(i)) /\ UNCHANGED tableVars
        /\ ~At(i, "writeRetry")
        /\ FirstStep(i) \in {"writeRetry", "writeFailed"} =>
              FirstStep(i) = HandleInvoiceFailure(i)
    BY <1>4, FirstStepType DEF TakeSlot, FirstStep, At
  <2> QED
    BY <1>1, <1>2, <2>1
<1>5. CASE SendInvoice(i)
  <2>0. UNCHANGED tableVars /\ ~At(i, "writeRetry")
    BY <1>5 DEF SendInvoice, At
  <2>1. ASSUME NEW r \in Ref, job' = [job EXCEPT ![i].pc = "writeUnknown", ![i].ref = r]
        PROVE  RetriesLeft(i)' /\ CountsRetry(i)
    <3>1. job'[i].pc = "writeUnknown"
      BY <1>0, <2>1 DEF Job
    <3> QED
      BY <1>3, <2>0, <3>1 DEF tableVars
  <2>2. ASSUME Goto(i, "writePending") PROVE RetriesLeft(i)' /\ CountsRetry(i)
    BY <1>2, <2>0, <2>2 DEF Pc
  <2>3. ASSUME Goto(i, HandleInvoiceFailure(i)) PROVE RetriesLeft(i)' /\ CountsRetry(i)
    BY <1>1, <1>2, <2>0, <2>3 DEF Pc
  <2> QED
    BY <1>5, <2>1, <2>2, <2>3 DEF SendInvoice
<1>6. CASE ConfirmInvoice(i)
  <2>1. job[i].inv.ref # NoRef /\ UNCHANGED tableVars /\ ~At(i, "writeRetry")
    BY <1>0, <1>6, StepsOfHandling DEF ConfirmInvoice, JobSound, At
  <2>2. \E pc \in {"writeFailed", "writeSent", "restoreUnknown"} : Goto(i, pc)
    BY <1>6 DEF ConfirmInvoice
  <2> QED
    BY <1>2, <2>1, <2>2 DEF Pc
<1>7. CASE NotifyWebhook(i)
  <2>1. UNCHANGED tableVars /\ ~At(i, "writeRetry")
        /\ \E pc \in {"markDelivered", "markFailed"} : Goto(i, pc)
    BY <1>7 DEF NotifyWebhook, At
  <2> QED
    BY <1>2, <2>1 DEF Pc
<1>8. UNCHANGED tableVars => invoices'[i] = invoices[i]
  BY DEF tableVars
<1>9. CASE WritePending(i) \/ RestoreUnknown(i) \/ MarkDelivered(i) \/ MarkFailed(i)
  <2>1. ~At(i, "writeRetry") /\ At(i, "none")'
    BY <1>0, <1>9, FinishEffect
       DEF WritePending, RestoreUnknown, MarkDelivered, MarkFailed, At
  <2>2. /\ invoices'[i].attempts = invoices[i].attempts
        /\ invoices'[i].status = "FAILED" => invoices[i].status = "FAILED"
    BY <1>0, <1>8, <1>9, UpdateEffect
       DEF WritePending, RestoreUnknown, MarkDelivered, MarkFailed, OrFails,
           UpdatePendingInvoice, RestoreUnknownInvoice, UpdateWebhookDelivered,
           UpdateWebhookFailed, Row
  <2> QED
    BY <1>3, <2>1, <2>2 DEF At
<1>10. CASE WriteRetry(i)
  <2>1. At(i, "writeRetry") /\ Handling(i) /\ At(i, "none")' /\ Live(i)
        /\ invoices[i].status # "PENDING" /\ invoices[i].attempts = job[i].inv.attempts
    BY <1>0, <1>10, FinishEffect, StepsOfHandling, HandledRows
       DEF WriteRetry, At, JobSound
  <2>2. CASE UNCHANGED tableVars
    BY <1>8, <2>1, <2>2 DEF RetriesLeft, CountsRetry, At
  <2>3. CASE UpdateRetryInvoice(i)
    <3>1. invoices'[i] = [invoices[i] EXCEPT !.status = "PENDING", !.attempts = @ + 1]
      BY <1>0, <2>1, <2>3, UpdateEffect DEF UpdateRetryInvoice
    <3>2. /\ invoices'[i].status = "PENDING"
          /\ invoices'[i].attempts = invoices[i].attempts + 1
      BY <1>0, <3>1 DEF Row
    <3> QED
      BY <1>0, <2>1, <3>2 DEF RetriesLeft, CountsRetry, At
  <2> QED
    BY <1>10, <2>2, <2>3 DEF WriteRetry, OrFails
<1>11. CASE WriteUnknown(i)
  <2>1. ~At(i, "writeRetry") /\ job'[i].pc \in {"none", "confirm"}
    BY <1>0, <1>11, FinishEffect DEF WriteUnknown, At, Job
  <2>2. /\ invoices'[i].attempts = invoices[i].attempts
        /\ invoices'[i].status = "FAILED" => invoices[i].status = "FAILED"
    <3>1. CASE UpdateUnknownInvoice(i, job[i].ref)
      <4>1. \/ invoices'[i] = invoices[i]
            \/ invoices'[i] = [invoices[i] EXCEPT !.status = "UNKNOWN", !.ref = job[i].ref]
        BY <1>0, <3>1, UpdateEffect DEF UpdateUnknownInvoice
      <4> QED
        BY <1>0, <4>1 DEF Row
    <3> QED
      BY <1>8, <1>11, <3>1 DEF WriteUnknown
  <2> QED
    BY <1>3, <2>1, <2>2
<1>12. CASE WriteSent(i)
  <2>1. ~At(i, "writeRetry") /\ job'[i].pc \in {"none", "notify"}
    BY <1>0, <1>12, FinishEffect, ReportEffect DEF WriteSent, At
  <2>2. /\ invoices'[i].attempts = invoices[i].attempts
        /\ invoices'[i].status = "FAILED" => invoices[i].status = "FAILED"
    <3>1. CASE UpdateSentInvoice(i, job[i].inv.ref)
      <4>1. \/ invoices'[i] = invoices[i]
            \/ invoices'[i] = [invoices[i] EXCEPT !.status = "SENT", !.ksefId = TRUE,
                                                 !.ref = job[i].inv.ref]
        BY <1>0, <3>1, UpdateEffect DEF UpdateSentInvoice
      <4> QED
        BY <1>0, <4>1 DEF Row
    <3> QED
      BY <1>8, <1>12, <3>1 DEF WriteSent
  <2> QED
    BY <1>3, <2>1, <2>2
<1>13. CASE WriteFailed(i)
  <2>1. At(i, "writeFailed") /\ ~At(i, "writeRetry") /\ job'[i].pc \in {"none", "notify"}
    BY <1>0, <1>13, FinishEffect, ReportEffect DEF WriteFailed, At
  <2>2. /\ invoices'[i].attempts = invoices[i].attempts
        /\ invoices'[i].ref = invoices[i].ref
    BY <1>0, <1>8, <1>13, UpdateEffect DEF WriteFailed, UpdateFailedInvoice, Row
  <2>3. invoices[i].ref = job[i].inv.ref /\ invoices[i].attempts = job[i].inv.attempts
    BY <1>0, <2>1, StepsOfHandling, HandledRows DEF At, JobSound
  <2>4. invoices'[i].ref = NoRef => invoices[i].attempts = Max_retries
    BY <1>0, <2>1, <2>2, <2>3 DEF RetriesLeft
  <2> QED
    BY <1>3, <2>1, <2>2, <2>4
<1> QED
  BY <1>4, <1>5, <1>6, <1>7, <1>9, <1>10, <1>11, <1>12, <1>13 DEF Goroutine

(* Nor does anybody else count a retry, or forget one.                     *)
LEMMA StepsCountRetries ==
    ASSUME IInv, [Next]_vars, NEW i \in Id, RetriesLeft(i)
    PROVE  RetriesLeft(i)' /\ CountsRetry(i)
<1>0. /\ TypeOK /\ invoices[i] \in Row /\ RowSound(i) /\ JobSound(i)
      /\ invoices \in [Id -> Row] /\ Max_retries \in Nat
  BY IInvPerInvoice, FieldTypes, ConfigAssumption DEF TypeOK, TableTypeOK
<1>1. CASE invoices'[i] = invoices[i] /\ job'[i] = job[i]
  BY <1>1, NothingCounted
<1>2. CASE Api
  <2>1. UNCHANGED job
    BY <1>0, <1>2, ApiKinds
  <2>2. CASE ~Live(i) \/ ~Live(i)' \/ invoices'[i].ver # invoices[i].ver
    <3>1. invoices'[i] = invoices[i] \/ invoices'[i].attempts \in {0, invoices[i].attempts}
      <4>1. CASE UNCHANGED <<invoices, nextId>>
        BY <4>1
      <4>2. ASSUME NEW k \in Id, Replaced(k) \/ Inserted(k) \/ Removed(k)
            PROVE  <3>1
        <5>1. k # i => invoices'[i] = invoices[i]
          BY <4>2 DEF Replaced, Inserted, Removed, OnlyRow
        <5>2. CASE k = i
          <6>1. invoices'[i].attempts = 0 \/ invoices'[i] = NoRow
            BY <4>2, <5>2 DEF Replaced, Inserted, Removed
          <6>2. NoRow.attempts = 0
            BY DEF NoRow, NewRow
          <6> QED
            BY <6>1, <6>2
        <5> QED
          BY <5>1, <5>2
      <4>3. ASSUME NEW k \in Id, AttemptsReset(k) PROVE <3>1
        BY <1>0, <4>3 DEF AttemptsReset, OnlyRow, Row
      <4> QED
        BY <1>0, <1>2, <4>1, <4>2, <4>3, ApiKinds
    <3>2. RetriesLeft(i)'
      BY <1>0, <2>1, <3>1 DEF RetriesLeft, At
    <3> QED
      BY <2>2, <3>2 DEF CountsRetry, KeepsContent
  <2>3. CASE Live(i) /\ Live(i)' /\ invoices'[i].ver = invoices[i].ver
    <3>0. invoices[i].ver \in Nat /\ i < nextId
      BY <1>0, <2>3 DEF Row, Version, RowSound, Live, TypeOK, TableTypeOK, Id
    <3>1. /\ invoices'[i].attempts = invoices[i].attempts
          /\ invoices'[i].status = invoices[i].status
      <4>1. CASE UNCHANGED <<invoices, nextId>>
        BY <4>1
      <4>2. ASSUME NEW k \in Id, Replaced(k) \/ Inserted(k) \/ Removed(k)
            PROVE  <3>1
        <5>1. CASE k = i
          <6>1. invoices'[i] # NoRow
            BY <2>3 DEF NoRow, NewRow, Live
          <6>2. ~Replaced(i)
            BY <2>3, <3>0 DEF Replaced
          <6>3. ~Inserted(i)
            BY <3>0 DEF Inserted, Id
          <6> QED
            BY <4>2, <5>1, <6>1, <6>2, <6>3 DEF Removed
        <5>2. CASE k # i
          BY <4>2, <5>2 DEF Replaced, Inserted, Removed, OnlyRow
        <5> QED
          BY <5>1, <5>2
      <4>3. ASSUME NEW k \in Id, AttemptsReset(k) PROVE <3>1
        BY <1>0, <4>3 DEF AttemptsReset, OnlyRow, Row
      <4> QED
        BY <1>0, <1>2, <4>1, <4>2, <4>3, ApiKinds
    <3> QED
      BY <2>1, <3>1, NothingCounted
  <2> QED
    BY <2>2, <2>3
<1>3. CASE LoopStep
  <2>1. CASE Untouched(i)
    BY <1>1, <2>1 DEF Untouched
  <2>2. CASE Claimed(i) \/ PickedUp(i)
    <3>1. /\ invoices'[i].attempts = invoices[i].attempts
          /\ invoices'[i].status = "FAILED" => invoices[i].status = "FAILED"
          /\ At(i, "none") /\ At(i, "queued")'
      BY <1>0, <2>2 DEF Claimed, PickedUp, Row
    <3> QED
      BY <3>1 DEF RetriesLeft, CountsRetry, At
  <2> QED
    BY <1>3, <2>1, <2>2, LoopKinds
<1>4. ASSUME NEW k \in Id, Goroutine(k) PROVE RetriesLeft(i)' /\ CountsRetry(i)
  <2>1. k # i => invoices'[i] = invoices[i] /\ job'[i] = job[i]
    BY <1>0, <1>4, GoroutineFrame DEF OnlyRow
  <2> QED
    BY <1>1, <1>4, <2>1, GoroutineCounts
<1>5. CASE KsefDecides \/ UNCHANGED vars
  BY <1>1, <1>5 DEF KsefDecides, tableVars, senderVars, vars
<1>6. CASE ExitProcess
  <2>1. invoices'[i] = invoices[i] /\ At(i, "none")'
    BY <1>6 DEF ExitProcess, Exit, tableVars, NoJob, At
  <2>2. At(i, "writeRetry") => invoices[i].status # "PENDING"
    BY StepsOfHandling, HandledRows DEF At
  <2> QED
    BY <2>1, <2>2 DEF RetriesLeft, CountsRetry, At
<1>7. CASE RestartProcess
  <2>1. At(i, "none") /\ job' = job
    BY <1>0, <1>7 DEF RestartProcess, Restart, JobSound, At
  <2>2. /\ invoices'[i].attempts = invoices[i].attempts
        /\ invoices'[i].status = "FAILED" => invoices[i].status = "FAILED"
    BY <1>0, <1>7 DEF RestartProcess, Restart, RecoverProcessingInvoices, Row
  <2> QED
    BY <2>1, <2>2 DEF RetriesLeft, CountsRetry, At
<1> QED
  BY <1>2, <1>3, <1>4, <1>5, <1>6, <1>7 DEF Next, SenderStep

(* A content's attempts are counted by the put-back after a failed         *)
(* submission alone, at most Max_retries of them, and are never forgotten, *)
(* whatever users, KSeF and restarts do meanwhile; what has no submission  *)
(* is given up only with all of them used up (handleInvoiceFailure).       *)
THEOREM RetriesAreCounted == Spec => RetriesCounted
<1>1. Init => \A i \in Id : RetriesLeft(i)
  BY ConfigAssumption
     DEF Init, TableInit, SenderInit, RetriesLeft, NoRow, NewRow, NoJob, At
<1>2. IInv /\ (\A i \in Id : RetriesLeft(i)) /\ [Next]_vars
      => (\A i \in Id : RetriesLeft(i))'
  BY StepsCountRetries
<1>3. IInv /\ (\A i \in Id : RetriesLeft(i)) /\ [Next]_vars
      => [\A i \in Id : CountsRetry(i)]_vars
  BY StepsCountRetries
<1>4. [\A i \in Id : CountsRetry(i)]_vars
      => [\A i \in Id : KeepsContent(i) =>
            /\ IF At(i, "writeRetry") /\ invoices'[i].status = "PENDING"
               THEN /\ invoices'[i].attempts = invoices[i].attempts + 1
                    /\ invoices'[i].attempts <= Max_retries
               ELSE invoices'[i].attempts = invoices[i].attempts
            /\ (/\ invoices'[i].status = "FAILED" /\ invoices[i].status # "FAILED"
                /\ invoices'[i].ref = NoRef) => invoices[i].attempts = Max_retries]_vars
  BY DEF CountsRetry
<1> QED
  BY <1>1, <1>2, <1>3, <1>4, Invariance, PTL DEF Spec, RetriesCounted

-----------------------------------------------------------------------------
(* The attempts at a webhook                                               *)

OpenRow(i) == invoices[i].status \in {"PENDING", "PROCESSING", "UNKNOWN"}

(* An open row has at most the late failure of an earlier content on its   *)
(* account, and that one is still to come while an old copy is reported.   *)
AttemptsSound(i) ==
    /\ invoices[i].whAttempts <= MostFailures
    /\ OpenRow(i) => invoices[i].whAttempts <= 1
    /\ Reporting(i) => /\ invoices[i].whAttempts < MostFailures
                       /\ OpenRow(i) => invoices[i].whAttempts = 0

(* The limit of the failures is a number, and not below one.               *)
LEMMA MostFailuresType ==
    /\ MostFailures \in Nat /\ 2 <= MostFailures /\ Max_retries <= MostFailures
  BY ConfigAssumption DEF MostFailures

(* A step of its goroutine counts at most the attempt it reports.          *)
LEMMA GoroutineKeepsAttempts ==
    ASSUME IInv, NEW i \in Id, AttemptsSound(i), Goroutine(i)
    PROVE  AttemptsSound(i)'
<1>0. /\ TypeOK /\ invoices[i] \in Row /\ invoices[i].whAttempts \in Nat
      /\ ~At(i, "none")
  BY IInvPerInvoice, FieldTypes, GoroutineFrame DEF Row
<1>1. CASE Moves(i) \/ GivesUp(i) \/ Tells(i)
  <2>1. invoices' = invoices /\ (Reporting(i)' => Reporting(i))
    BY <1>0, <1>1 DEF Moves, GivesUp, Tells, tableVars, Reporting, Handling, At
  <2> QED
    BY <2>1 DEF AttemptsSound, OpenRow
<1>2. CASE StaysOpen(i)
  <2>1. ~Reporting(i)' /\ invoices'[i].whAttempts = invoices[i].whAttempts /\ OpenRow(i)
    BY <1>2, HandledRows DEF StaysOpen, KeepsReport, Reporting, OpenRow
  <2> QED
    BY <1>0, <2>1, MostFailuresType DEF AttemptsSound
<1>3. CASE Settles(i, "FAILED") \/ Settles(i, "SENT")
  <2>1. invoices'[i].whAttempts = invoices[i].whAttempts /\ OpenRow(i) /\ ~OpenRow(i)'
    BY <1>3, HandledRows DEF Settles, KeepsReport, OpenRow
  <2> QED
    BY <1>0, <2>1, MostFailuresType DEF AttemptsSound
<1>4. CASE Records(i)
  <2>1. ~Reporting(i)' /\ Reporting(i)
    BY <1>4 DEF Records, Reporting, Handling, At
  <2>2. /\ invoices'[i].status = invoices[i].status
        /\ invoices'[i].whAttempts \in {invoices[i].whAttempts, invoices[i].whAttempts + 1}
    BY <1>0, <1>4 DEF Records, Row
  <2> QED
    BY <1>0, <2>1, <2>2, MostFailuresType DEF AttemptsSound, OpenRow
<1> QED
  BY <1>1, <1>2, <1>3, <1>4, GoroutineKinds

(* No step of anybody counts more attempts than that.                      *)
LEMMA StepsKeepAttempts ==
    ASSUME IInv, IInv', [Next]_vars, \A i \in Id : AttemptsSound(i)
    PROVE  \A i \in Id : AttemptsSound(i)'
<1> TAKE i \in Id
<1>0. /\ TypeOK /\ invoices[i] \in Row /\ RowSound(i) /\ JobSound(i)
      /\ invoices \in [Id -> Row] /\ invoices[i].whAttempts \in Nat
  BY IInvPerInvoice, FieldTypes DEF TypeOK, TableTypeOK, Row
<1>1. CASE invoices'[i] = invoices[i] /\ (Reporting(i)' => Reporting(i))
  BY <1>1 DEF AttemptsSound, OpenRow
<1>2. CASE Api
  <2>1. Reporting(i)' <=> Reporting(i)
    BY <1>0, <1>2, ApiKinds DEF Reporting, Handling, At
  <2>2. CASE invoices'[i].whAttempts = 0
    BY <2>2, MostFailuresType DEF AttemptsSound
  <2>3. ASSUME NEW k \in Id, Replaced(k) \/ Inserted(k) \/ Removed(k) \/ AttemptsReset(k)
        PROVE  invoices'[i] = invoices[i] \/ invoices'[i].whAttempts = 0
    BY <1>0, <2>3
       DEF Replaced, Inserted, Removed, AttemptsReset, OnlyRow, NoRow, NewRow, Row
  <2> QED
    BY <1>0, <1>1, <1>2, <2>1, <2>2, <2>3, ApiKinds
<1>3. CASE LoopStep
  <2>1. CASE Untouched(i)
    BY <1>1, <2>1 DEF Untouched, Reporting, At
  <2>2. CASE Claimed(i)
    <3>1. /\ invoices'[i].whAttempts = invoices[i].whAttempts
          /\ OpenRow(i) /\ ~Reporting(i)'
      BY <1>0, <2>2 DEF Claimed, Reporting, OpenRow, Row
    <3> QED
      BY <3>1 DEF AttemptsSound
  <2>3. CASE PickedUp(i)
    <3>1. /\ invoices'[i] = invoices[i] /\ invoices[i].whAttempts < Max_retries
          /\ ~OpenRow(i)'
      BY <2>3 DEF PickedUp, WebhookDue, OpenRow
    <3> QED
      BY <1>0, <3>1, MostFailuresType, ConfigAssumption DEF AttemptsSound
  <2> QED
    BY <1>3, <2>1, <2>2, <2>3, LoopKinds
<1>4. ASSUME NEW k \in Id, Goroutine(k) PROVE AttemptsSound(i)'
  <2>1. CASE k = i
    BY <1>4, <2>1, GoroutineKeepsAttempts
  <2>2. CASE k # i
    <3>1. invoices'[i] = invoices[i] /\ job'[i] = job[i] /\ phase' = phase
      BY <1>0, <1>4, <2>2, GoroutineFrame DEF OnlyRow
    <3> QED
      BY <1>1, <3>1 DEF Reporting, Handling, At
  <2> QED
    BY <2>1, <2>2
<1>5. CASE KsefDecides \/ UNCHANGED vars
  BY <1>1, <1>5 DEF KsefDecides, tableVars, senderVars, vars, Reporting, Handling, At
<1>6. CASE ExitProcess
  BY <1>1, <1>6 DEF ExitProcess, Exit, tableVars, NoJob, Reporting, At
<1>7. CASE RestartProcess
  <2>1. ~Reporting(i)'
    BY <1>0, <1>7 DEF RestartProcess, Restart, JobSound, Reporting, At
  <2>2. /\ invoices'[i].whAttempts = invoices[i].whAttempts
        /\ OpenRow(i)' => OpenRow(i)
    BY <1>0, <1>7 DEF RestartProcess, Restart, RecoverProcessingInvoices, OpenRow, Row
  <2> QED
    BY <2>1, <2>2 DEF AttemptsSound
<1> QED
  BY <1>2, <1>3, <1>4, <1>5, <1>6, <1>7 DEF Next, SenderStep

(* No step of the sender, no exit and no restart lowers a counter.         *)
LEMMA OnlyUsersLower ==
    ASSUME IInv, [Next]_vars, NEW i \in Id, invoices'[i].whAttempts < invoices[i].whAttempts
    PROVE  UNCHANGED senderVars
<1>0. /\ TypeOK /\ invoices[i] \in Row /\ invoices[i].whAttempts \in Nat
  BY IInvPerInvoice, FieldTypes DEF Row
<1>1. invoices'[i] # invoices[i] /\ invoices'[i].whAttempts # invoices[i].whAttempts
  BY <1>0
<1>2. CASE Api
  BY <1>0, <1>2, ApiKinds DEF senderVars
<1>3. CASE LoopStep
  BY <1>0, <1>1, <1>3, LoopKinds DEF Untouched, Claimed, PickedUp, Row
<1>4. ASSUME NEW k \in Id, Goroutine(k) PROVE FALSE
  <2>1. k = i
    BY <1>0, <1>1, <1>4, GoroutineFrame DEF OnlyRow
  <2>2. invoices'[i].whAttempts \in {invoices[i].whAttempts, invoices[i].whAttempts + 1}
    BY <1>0, <1>4, <2>1, GoroutineKinds
       DEF Moves, StaysOpen, Settles, GivesUp, Tells, Records, KeepsReport, tableVars, Row
  <2> QED
    BY <1>0, <2>2
<1>5. CASE RestartProcess
  BY <1>0, <1>1, <1>5 DEF RestartProcess, Restart, RecoverProcessingInvoices, TypeOK,
                          TableTypeOK, Row
<1>6. CASE KsefDecides \/ ExitProcess \/ UNCHANGED vars
  BY <1>1, <1>6 DEF KsefDecides, ExitProcess, Exit, tableVars, vars
<1> QED
  BY <1>2, <1>3, <1>4, <1>5, <1>6 DEF Next, SenderStep

(* A callback is called only while its row counts fewer than Max_retries   *)
(* failures, or two if that is less: the call right after the outcome      *)
(* looks at no counter, and the failure of an old copy lands on the        *)
(* content that replaced it.  Nothing but a request of a user lowers the   *)
(* counter (UpdateWebhookFailed, GetInvoicesToWebhook).                    *)
THEOREM CallbacksAreLimited == Spec => CallbacksLimited
<1>1. Init => \A i \in Id : AttemptsSound(i)
  BY MostFailuresType
     DEF Init, TableInit, SenderInit, AttemptsSound, Reporting, At, NoJob, NoRow, NewRow
<1>2. IInv /\ IInv' /\ (\A i \in Id : AttemptsSound(i)) /\ [Next]_vars
      => (\A i \in Id : AttemptsSound(i))'
  BY StepsKeepAttempts
<1>3. IInv /\ (\A i \in Id : AttemptsSound(i)) /\ [Next]_vars
      => [\A i \in Id :
            /\ Tries(i) => invoices[i].whAttempts < MostFailures
            /\ invoices'[i].whAttempts < invoices[i].whAttempts => UNCHANGED senderVars]_vars
  <2> SUFFICES ASSUME IInv, \A i \in Id : AttemptsSound(i), [Next]_vars, NEW i \in Id
               PROVE  /\ Tries(i) => invoices[i].whAttempts < MostFailures
                      /\ invoices'[i].whAttempts < invoices[i].whAttempts
                            => UNCHANGED senderVars
    OBVIOUS
  <2>1. Tries(i) => invoices[i].whAttempts < MostFailures
    BY DEF Tries, AttemptsSound, Reporting, Handling, At
  <2> QED
    BY <2>1, OnlyUsersLower
<1> QED
  BY <1>1, <1>2, <1>3, Invariance, PTL DEF Spec, CallbacksLimited

-----------------------------------------------------------------------------
(* The promise: the variables of Lifecycle, as Service shows them.         *)

Stages == [i \in Id |-> StageOf(i)]
Contents == [i \in Id |-> invoices[i].ver]
OfferedContents == ContentsWith({"processing", "accepted", "rejected"})
AcceptedContents == ContentsWith({"accepted"})

(* A step keeps what the client and KSeF see of the invoices.              *)
StagesKept == UNCHANGED <<Stages, Contents>>
KsefKept == UNCHANGED <<OfferedContents, AcceptedContents>>

(* A step gives i another stage, or another content, and no other invoice. *)
StageBecomes(i, stage) == Stages' = [Stages EXCEPT ![i] = stage]
ContentBecomes(i, content) == Contents' = [Contents EXCEPT ![i] = content]

(* The actions of Lifecycle, in these terms.                               *)
LEMMA PromiseSteps ==
    /\ StagesKept /\ KsefKept => UNCHANGED Promise!vars
    /\ \A i \in Id :
         /\ Stages[i] = "unborn" /\ StageBecomes(i, "open") /\ UNCHANGED Contents /\ KsefKept
            => Promise!Create(i)
         /\ Stages[i] = "failed" /\ StageBecomes(i, "open")
            /\ ContentBecomes(i, Contents[i] + 1) /\ KsefKept
            => Promise!Replace(i)
         /\ Stages[i] = "failed" /\ StageBecomes(i, "removed")
            /\ ContentBecomes(i, 1) /\ KsefKept
            => Promise!Remove(i)
         /\ Stages[i] = "open" /\ StagesKept /\ UNCHANGED AcceptedContents
            /\ OfferedContents' = OfferedContents \cup {<<i, Contents[i]>>}
            => Promise!Offer(i)
         /\ Stages[i] = "open" /\ StageBecomes(i, "failed") /\ UNCHANGED Contents /\ KsefKept
            => Promise!Fail(i)
         /\ Stages[i] = "open" /\ StageBecomes(i, "sent") /\ UNCHANGED Contents /\ KsefKept
            /\ <<i, Contents[i]>> \in AcceptedContents
            => Promise!Send(i)
    /\ StagesKept /\ UNCHANGED OfferedContents
       /\ (\E o \in OfferedContents : AcceptedContents' = AcceptedContents \cup {o})
       => Promise!Accept
<1>1. StagesKept /\ KsefKept => UNCHANGED Promise!vars
  BY DEF StagesKept, KsefKept, Stages, Contents, OfferedContents, AcceptedContents,
         Promise!vars
<1>2. ASSUME NEW i \in Id
      PROVE  Stages[i] = "unborn" /\ StageBecomes(i, "open") /\ UNCHANGED Contents /\ KsefKept
             => Promise!Create(i)
  BY DEF StageBecomes, KsefKept, Stages, Contents, OfferedContents, AcceptedContents,
         Promise!Create
<1>3. ASSUME NEW i \in Id
      PROVE  Stages[i] = "failed" /\ StageBecomes(i, "open")
             /\ ContentBecomes(i, Contents[i] + 1) /\ KsefKept
             => Promise!Replace(i)
  BY DEF StageBecomes, ContentBecomes, KsefKept, Stages, Contents, OfferedContents,
         AcceptedContents, Promise!Replace
<1>4. ASSUME NEW i \in Id
      PROVE  Stages[i] = "failed" /\ StageBecomes(i, "removed")
             /\ ContentBecomes(i, 1) /\ KsefKept
             => Promise!Remove(i)
  BY DEF StageBecomes, ContentBecomes, KsefKept, Stages, Contents, OfferedContents,
         AcceptedContents, Promise!Remove
<1>5. ASSUME NEW i \in Id
      PROVE  Stages[i] = "open" /\ StagesKept /\ UNCHANGED AcceptedContents
             /\ OfferedContents' = OfferedContents \cup {<<i, Contents[i]>>}
             => Promise!Offer(i)
  BY DEF StagesKept, Stages, Contents, OfferedContents, AcceptedContents, Promise!Offer
<1>6. ASSUME NEW i \in Id
      PROVE  Stages[i] = "open" /\ StageBecomes(i, "failed") /\ UNCHANGED Contents /\ KsefKept
             => Promise!Fail(i)
  BY DEF StageBecomes, KsefKept, Stages, Contents, OfferedContents, AcceptedContents,
         Promise!Fail
<1>7. ASSUME NEW i \in Id
      PROVE  Stages[i] = "open" /\ StageBecomes(i, "sent") /\ UNCHANGED Contents /\ KsefKept
             /\ <<i, Contents[i]>> \in AcceptedContents
             => Promise!Send(i)
  BY DEF StageBecomes, KsefKept, Stages, Contents, OfferedContents, AcceptedContents,
         Promise!Send
<1>8. StagesKept /\ UNCHANGED OfferedContents
      /\ (\E o \in OfferedContents : AcceptedContents' = AcceptedContents \cup {o})
      => Promise!Accept
  BY DEF StagesKept, Stages, Contents, OfferedContents, AcceptedContents, Promise!Accept
<1> QED
  BY <1>1, <1>2, <1>3, <1>4, <1>5, <1>6, <1>7, <1>8

(* The stage of an invoice goes by the status of its row, and of an id     *)
(* without a row by whether it was used.                                   *)
LEMMA StageByStatus ==
    ASSUME TypeOK, NEW i \in Id
    PROVE  /\ OpenRow(i) => StageOf(i) = "open"
           /\ invoices[i].status = "FAILED" => StageOf(i) = "failed"
           /\ invoices[i].status = "SENT" => StageOf(i) = "sent"
           /\ ~Live(i) /\ i >= nextId => StageOf(i) = "unborn"
           /\ ~Live(i) /\ i < nextId => StageOf(i) = "removed"
<1>1. i \in Nat /\ nextId \in Nat
  BY DEF TypeOK, TableTypeOK, Id
<1> QED
  BY <1>1 DEF StageOf, OpenRow, Live

(* A step that leaves all rows but one alone changes one stage.            *)
LEMMA OneStage ==
    ASSUME NEW i \in Id, NEW stage, NEW content,
           \A j \in Id \ {i} : StageOf(j)' = StageOf(j) /\ invoices'[j].ver = invoices[j].ver
    PROVE  /\ StageOf(i)' = stage => StageBecomes(i, stage)
           /\ invoices'[i].ver = content => ContentBecomes(i, content)
           /\ StageOf(i)' = StageOf(i) => UNCHANGED Stages
           /\ invoices'[i].ver = invoices[i].ver => UNCHANGED Contents
  BY DEF StageBecomes, ContentBecomes, Stages, Contents

(* An unchanged row shows the same stage and content.                      *)
LEMMA SameStage ==
    ASSUME NEW j \in Id, invoices'[j] = invoices[j], nextId' = nextId
    PROVE  StageOf(j)' = StageOf(j) /\ invoices'[j].ver = invoices[j].ver
  BY DEF StageOf

(* What KSeF has only changes with its submissions.                        *)
LEMMA SameContents == UNCHANGED submissions => KsefKept
  BY DEF KsefKept, OfferedContents, AcceptedContents, ContentsWith

(* What KSeF took in, and what it accepted, grows as Lifecycle says.       *)
LEMMA KsefSteps ==
    ASSUME TypeOK, NEW r \in Ref
    PROVE  /\ \A i \in Id, v \in Version : Submit(i, v, r) =>
                 /\ OfferedContents' = OfferedContents \cup {<<i, v>>}
                 /\ UNCHANGED AcceptedContents
           /\ Decide(r) =>
                 /\ UNCHANGED OfferedContents
                 /\ \/ UNCHANGED AcceptedContents
                    \/ \E o \in OfferedContents : AcceptedContents' = AcceptedContents \cup {o}
<1> DEFINE content(q) == <<submissions[q].id, submissions[q].ver>>
<1>0. submissions \in [Ref -> Submission]
  BY DEF TypeOK, KsefTypeOK
<1>1. /\ OfferedContents = {content(q) : q \in {p \in Ref : Used(p)}}
      /\ AcceptedContents = {content(q) : q \in {p \in Ref : submissions[p].verdict = "accepted"}}
  BY <1>0 DEF OfferedContents, AcceptedContents, ContentsWith, Used, Submission, Verdict
<1>2. ASSUME NEW i \in Id, NEW v \in Version, Submit(i, v, r)
      PROVE  /\ OfferedContents' = OfferedContents \cup {<<i, v>>}
             /\ UNCHANGED AcceptedContents
  <2>1. /\ ~Used(r)
        /\ submissions' = [submissions EXCEPT ![r] =
                              [id |-> i, ver |-> v, verdict |-> "processing"]]
    BY <1>2 DEF Submit
  <2>2. \A q \in Ref : /\ Used(q)' <=> Used(q) \/ q = r
                       /\ q # r => content(q)' = content(q)
    BY <1>0, <2>1 DEF Used
  <2>3. content(r)' = <<i, v>>
    BY <1>0, <2>1
  <2>4. OfferedContents' = {content(q)' : q \in {p \in Ref : Used(p)'}}
    BY <1>0, <1>2, KsefType
       DEF TypeOK, KsefTypeOK, OfferedContents, ContentsWith, Used, Submission, Verdict
  <2>5. OfferedContents' = OfferedContents \cup {<<i, v>>}
    BY <1>1, <2>1, <2>2, <2>3, <2>4
  <2>6. \A q \in Ref : /\ submissions'[q].verdict = "accepted" <=>
                             submissions[q].verdict = "accepted"
                       /\ submissions[q].verdict = "accepted" => q # r
    BY <1>0, <2>1 DEF Used
  <2>7. UNCHANGED AcceptedContents
    BY <2>2, <2>6 DEF AcceptedContents, ContentsWith
  <2> QED
    BY <2>5, <2>7
<1>3. ASSUME Decide(r)
      PROVE  /\ UNCHANGED OfferedContents
             /\ \/ UNCHANGED AcceptedContents
                \/ \E o \in OfferedContents : AcceptedContents' = AcceptedContents \cup {o}
  <2>1. PICK v \in {"accepted", "rejected"} :
           submissions' = [submissions EXCEPT ![r].verdict = v]
    BY <1>3 DEF Decide
  <2>2. /\ submissions[r].verdict = "processing"
        /\ submissions'[r].verdict = v /\ content(r)' = content(r)
        /\ \A q \in Ref \ {r} : submissions'[q] = submissions[q]
    BY <1>0, <1>3, <2>1 DEF Decide, Submission
  <2>3. \A q \in Ref : /\ content(q)' = content(q)
                       /\ submissions'[q].verdict \in {"processing", "accepted", "rejected"} <=>
                          submissions[q].verdict \in {"processing", "accepted", "rejected"}
    BY <2>2
  <2>4. UNCHANGED OfferedContents
    BY <2>3 DEF OfferedContents, ContentsWith
  <2>5. CASE v = "rejected"
    <3>1. \A q \in Ref : submissions'[q].verdict = "accepted" <=>
                         submissions[q].verdict = "accepted"
      BY <2>2, <2>5
    <3> QED
      BY <2>3, <2>4, <3>1 DEF AcceptedContents, ContentsWith
  <2>6. CASE v = "accepted"
    <3>1. \A q \in Ref : submissions'[q].verdict = "accepted" <=>
                         submissions[q].verdict = "accepted" \/ q = r
      BY <2>2, <2>6
    <3>2. AcceptedContents' = AcceptedContents \cup {content(r)}
      BY <2>3, <3>1 DEF AcceptedContents, ContentsWith
    <3>3. content(r) \in OfferedContents
      BY <2>2 DEF OfferedContents, ContentsWith
    <3> QED
      BY <2>4, <3>2, <3>3
  <2> QED
    BY <2>5, <2>6
<1> QED
  BY <1>2, <1>3

PromiseStep == Promise!Next \/ UNCHANGED Promise!vars

(* Each action of Lifecycle, and a stutter, is a step of the promise.      *)
LEMMA ActionsArePromised ==
    /\ Promise!Accept => PromiseStep
    /\ \A i \in Id :
          Promise!Create(i) \/ Promise!Replace(i) \/ Promise!Remove(i)
          \/ Promise!Offer(i) \/ Promise!Fail(i) \/ Promise!Send(i) => PromiseStep
    /\ StagesKept /\ KsefKept => PromiseStep
  BY PromiseSteps DEF PromiseStep, Promise!Next

(* A goroutine offers, fails or sends the invoice it handles, or does      *)
(* nothing a client sees.                                                  *)
LEMMA GoroutineIsPromised ==
    ASSUME IInv, IInv', NEW i \in Id, Goroutine(i)
    PROVE  PromiseStep
<1>a. /\ TypeOK /\ TypeOK' /\ RowSound(i)
      /\ invoices[i] \in Row /\ job[i].inv \in Row
  BY IInvPerInvoice, FieldTypes DEF IInv, Job
<1>b. OnlyRow(i)
  BY <1>a, GoroutineFrame
<1>c. \A j \in Id \ {i} : StageOf(j)' = StageOf(j) /\ invoices'[j].ver = invoices[j].ver
  BY <1>b, SameStage DEF OnlyRow
<1>0. /\ TypeOK /\ TypeOK' /\ RowSound(i)
      /\ invoices[i] \in Row /\ job[i].inv \in Row
      /\ nextId' = nextId
      /\ \A j \in Id \ {i} : StageOf(j)' = StageOf(j) /\ invoices'[j].ver = invoices[j].ver
  BY <1>a, <1>b, <1>c DEF OnlyRow
<1>1. Handling(i) => OpenRow(i) /\ Stages[i] = "open" /\ StageOf(i) = "open"
  BY <1>0, HandledRows, StageByStatus DEF OpenRow, Stages
<1>2. UNCHANGED tableVars => StagesKept
  BY SameStage, <1>0 DEF tableVars, StagesKept, Stages, Contents
<1>3. CASE Moves(i)
  <2>1. StagesKept
    BY <1>2, <1>3 DEF Moves
  <2>2. CASE UNCHANGED submissions
    BY <2>1, <2>2, SameContents, ActionsArePromised
  <2>3. ASSUME NEW r \in Ref, Handling(i), Submit(i, job[i].inv.ver, r)
        PROVE  PromiseStep
    <3>1. job[i].inv.ver = Contents[i] /\ job[i].inv.ver \in Version
      BY <1>0, <2>3, HandledRows DEF Contents, Row
    <3>2. Promise!Offer(i)
      BY <1>0, <1>1, <2>1, <2>3, <3>1, KsefSteps, PromiseSteps
    <3> QED
      BY <3>2, ActionsArePromised
  <2> QED
    BY <1>3, <2>2, <2>3 DEF Moves
<1>4. CASE StaysOpen(i)
  <2>1. OpenRow(i)' /\ invoices'[i].ver = invoices[i].ver /\ Handling(i)
        /\ UNCHANGED submissions
    BY <1>4 DEF StaysOpen, KeepsReport, OpenRow
  <2>2. StageOf(i)' = StageOf(i)
    BY <1>0, <1>1, <2>1, StageByStatus DEF StageOf, OpenRow
  <2>3. StagesKept
    BY <1>0, <2>1, <2>2, OneStage DEF StagesKept
  <2> QED
    BY <2>1, <2>3, SameContents, ActionsArePromised
<1>5. CASE Settles(i, "FAILED")
  <2>1. invoices'[i].status = "FAILED" /\ invoices'[i].ver = invoices[i].ver /\ Handling(i)
        /\ UNCHANGED submissions
    BY <1>5 DEF Settles, KeepsReport
  <2>2. StageOf(i)' = "failed"
    BY <2>1 DEF StageOf
  <2>3. Promise!Fail(i)
    BY <1>0, <1>1, <2>1, <2>2, OneStage, SameContents, PromiseSteps
  <2> QED
    BY <2>3, ActionsArePromised
<1>6. CASE Settles(i, "SENT")
  <2>1. /\ invoices'[i].status = "SENT" /\ invoices'[i].ver = invoices[i].ver /\ Handling(i)
        /\ UNCHANGED submissions
        /\ invoices[i].ref # NoRef /\ submissions[invoices[i].ref].verdict = "accepted"
    BY <1>6 DEF Settles, KeepsReport
  <2>2. StageOf(i)' = "sent"
    BY <2>1 DEF StageOf
  <2>3. <<i, Contents[i]>> \in AcceptedContents
    BY <1>0, <2>1, FieldTypes DEF RowSound, Contents, AcceptedContents, ContentsWith
  <2>4. Promise!Send(i)
    BY <1>0, <1>1, <2>1, <2>2, <2>3, OneStage, SameContents, PromiseSteps
  <2> QED
    BY <2>4, ActionsArePromised
<1>7. CASE GivesUp(i) \/ Tells(i)
  <2>1. UNCHANGED <<tableVars, submissions>>
    BY <1>7 DEF GivesUp, Tells
  <2> QED
    BY <1>2, <2>1, SameContents, ActionsArePromised
<1>8. CASE Records(i)
  <2>1. /\ invoices'[i].status = invoices[i].status /\ invoices'[i].ver = invoices[i].ver
        /\ UNCHANGED submissions
    BY <1>0, <1>8 DEF Records, Row
  <2>2. StageOf(i)' = StageOf(i)
    BY <1>0, <2>1 DEF StageOf
  <2>3. StagesKept
    BY <1>0, <2>1, <2>2, OneStage DEF StagesKept
  <2> QED
    BY <2>1, <2>3, SameContents, ActionsArePromised
<1> QED
  BY <1>3, <1>4, <1>5, <1>6, <1>7, <1>8, GoroutineKinds

(* A handler creates, replaces or removes an invoice.                      *)
LEMMA ApiIsPromised ==
    ASSUME IInv, IInv', \A i \in Id : EventsSound(i), Api
    PROVE  PromiseStep
<1>0. TypeOK /\ TypeOK' /\ UNCHANGED submissions /\ KsefKept
  BY ApiKinds, IInvPerInvoice, SameContents DEF IInv
<1>1. CASE UNCHANGED <<invoices, nextId>>
  <2>1. StagesKept
    BY <1>1, SameStage DEF StagesKept, Stages, Contents
  <2> QED
    BY <1>0, <2>1, ActionsArePromised
<1>2. ASSUME NEW i \in Id, Replaced(i) PROVE PromiseStep
  <2>1. \A j \in Id \ {i} : StageOf(j)' = StageOf(j) /\ invoices'[j].ver = invoices[j].ver
    BY <1>2, SameStage DEF Replaced, OnlyRow
  <2>2. /\ Stages[i] = "failed" /\ StageOf(i)' = "open"
        /\ invoices'[i].ver = Contents[i] + 1
    BY <1>2 DEF Replaced, Stages, Contents, StageOf
  <2>3. Promise!Replace(i)
    BY <1>0, <2>1, <2>2, OneStage, PromiseSteps
  <2> QED
    BY <2>3, ActionsArePromised
<1>3. ASSUME NEW i \in Id, Inserted(i) PROVE PromiseStep
  <2>1. ASSUME NEW j \in Id \ {i}
        PROVE  StageOf(j)' = StageOf(j) /\ invoices'[j].ver = invoices[j].ver
    <3>1. /\ invoices'[j] = invoices[j] /\ nextId' = nextId + 1 /\ j # nextId
          /\ j \in Nat /\ nextId \in Nat
      BY <1>0, <1>3 DEF Inserted, TypeOK, TableTypeOK, Id
    <3>2. (j >= nextId') <=> (j >= nextId)
      BY <3>1
    <3>3. (j < nextId') <=> (j < nextId)
      BY <3>1
    <3> QED
      BY <3>1, <3>2, <3>3 DEF StageOf
  <2>2. ~Live(i) /\ i >= nextId
    BY <1>0, <1>3, IInvPerInvoice DEF Inserted, RowSound, TypeOK, TableTypeOK, Id
  <2>3. invoices[i] = NoRow
    BY <2>2 DEF EventsSound
  <2>4. /\ Stages[i] = "unborn" /\ StageOf(i)' = "open"
        /\ invoices'[i].ver = invoices[i].ver
    BY <1>0, <1>3, <2>2, <2>3, StageByStatus
       DEF Inserted, Stages, StageOf, NoRow, NewRow
  <2>5. Promise!Create(i)
    BY <1>0, <2>1, <2>4, OneStage, PromiseSteps
  <2> QED
    BY <2>5, ActionsArePromised
<1>4. ASSUME NEW i \in Id, Removed(i) PROVE PromiseStep
  <2>1. \A j \in Id \ {i} : StageOf(j)' = StageOf(j) /\ invoices'[j].ver = invoices[j].ver
    BY <1>4, SameStage DEF Removed, OnlyRow
  <2>2. Live(i) /\ i < nextId /\ nextId' = nextId
    BY <1>0, <1>4, IInvPerInvoice
       DEF Removed, OnlyRow, Live, RowSound, TypeOK, TableTypeOK, Id
  <2>3. /\ Stages[i] = "failed" /\ invoices'[i].ver = 1 /\ invoices'[i].status = "ABSENT"
    BY <1>4 DEF Removed, Stages, StageOf, NoRow, NewRow
  <2>4. StageOf(i)' = "removed"
    BY <1>0, <2>2, <2>3 DEF StageOf, TypeOK, TableTypeOK, Id
  <2>5. Promise!Remove(i)
    BY <1>0, <2>1, <2>3, <2>4, OneStage, PromiseSteps
  <2> QED
    BY <2>5, ActionsArePromised
<1>5. ASSUME NEW i \in Id, AttemptsReset(i) PROVE PromiseStep
  <2>1. \A j \in Id \ {i} : StageOf(j)' = StageOf(j) /\ invoices'[j].ver = invoices[j].ver
    BY <1>5, SameStage DEF AttemptsReset, OnlyRow
  <2>2. /\ invoices'[i].status = invoices[i].status /\ invoices'[i].ver = invoices[i].ver
        /\ nextId' = nextId
    BY <1>0, <1>5, FieldTypes DEF AttemptsReset, OnlyRow, Row
  <2>3. StageOf(i)' = StageOf(i)
    BY <2>2 DEF StageOf
  <2>4. StagesKept
    BY <2>1, <2>2, <2>3, OneStage DEF StagesKept
  <2> QED
    BY <1>0, <2>4, ActionsArePromised
<1> QED
  BY <1>0, <1>1, <1>2, <1>3, <1>4, <1>5, ApiKinds

(* The loop changes nothing a client sees: a claimed invoice stays open.   *)
LEMMA LoopIsPromised ==
    ASSUME IInv, LoopStep
    PROVE  PromiseStep
<1>0. TypeOK /\ UNCHANGED <<submissions, nextId>>
  BY LoopKinds, IInvPerInvoice
<1>1. ASSUME NEW i \in Id
      PROVE  StageOf(i)' = StageOf(i) /\ invoices'[i].ver = invoices[i].ver
  <2>0. invoices[i] \in Row
    BY <1>0 DEF TypeOK, TableTypeOK
  <2>1. CASE Untouched(i) \/ PickedUp(i)
    <3>1. invoices'[i] = invoices[i]
      BY <2>1 DEF Untouched, PickedUp
    <3> QED
      BY <1>0, <3>1, SameStage
  <2>2. CASE Claimed(i)
    <3>1. /\ OpenRow(i) /\ invoices'[i].status = "PROCESSING"
          /\ invoices'[i].ver = invoices[i].ver
      BY <2>0, <2>2 DEF Claimed, OpenRow, Row
    <3>2. StageOf(i) = "open" /\ StageOf(i)' = "open"
      BY <1>0, <3>1, StageByStatus DEF StageOf
    <3> QED
      BY <3>1, <3>2
  <2> QED
    BY <2>1, <2>2, LoopKinds
<1>2. StagesKept
  BY <1>1 DEF StagesKept, Stages, Contents
<1> QED
  BY <1>0, <1>2, SameContents, ActionsArePromised

(* A restart changes nothing a client sees: a recovered invoice stays open.*)
LEMMA RestartIsPromised ==
    ASSUME IInv, Restart
    PROVE  PromiseStep
<1>0. TypeOK /\ RecoverProcessingInvoices /\ UNCHANGED submissions
  BY IInvPerInvoice DEF Restart
<1>1. ASSUME NEW i \in Id
      PROVE  StageOf(i)' = StageOf(i) /\ invoices'[i].ver = invoices[i].ver
  <2>0. invoices[i] \in Row /\ nextId' = nextId
    BY <1>0 DEF TypeOK, TableTypeOK, RecoverProcessingInvoices
  <2>1. CASE invoices[i].status = "PROCESSING"
    <3>1. /\ OpenRow(i) /\ invoices'[i].status \in {"PENDING", "UNKNOWN"}
          /\ invoices'[i].ver = invoices[i].ver
      BY <1>0, <2>0, <2>1 DEF RecoverProcessingInvoices, OpenRow, Row
    <3>2. StageOf(i) = "open" /\ StageOf(i)' = "open"
      BY <1>0, <3>1, StageByStatus DEF StageOf
    <3> QED
      BY <3>1, <3>2
  <2>2. CASE invoices[i].status # "PROCESSING"
    <3>1. invoices'[i] = invoices[i]
      BY <1>0, <2>2 DEF RecoverProcessingInvoices
    <3> QED
      BY <2>0, <3>1, SameStage
  <2> QED
    BY <2>1, <2>2
<1>2. StagesKept
  BY <1>1 DEF StagesKept, Stages, Contents
<1> QED
  BY <1>0, <1>2, SameContents, ActionsArePromised

(* Every step of the service is a step of the promise, or nothing changes  *)
(* that Lifecycle speaks of.                                               *)
LEMMA StepsArePromised ==
    ASSUME IInv, IInv', \A i \in Id : EventsSound(i), [Next]_vars
    PROVE  PromiseStep
<1>1. UNCHANGED <<tableVars, submissions>> => PromiseStep
  <2>1. UNCHANGED tableVars => StagesKept
    BY SameStage DEF tableVars, StagesKept, Stages, Contents
  <2> QED
    BY <2>1, SameContents, ActionsArePromised
<1>2. CASE KsefDecides
  <2>1. PICK r \in Ref : Decide(r)
    BY <1>2 DEF KsefDecides
  <2>2. StagesKept
    BY <1>2, SameStage DEF KsefDecides, tableVars, StagesKept, Stages, Contents
  <2>3. /\ UNCHANGED OfferedContents
        /\ \/ UNCHANGED AcceptedContents
           \/ \E o \in OfferedContents : AcceptedContents' = AcceptedContents \cup {o}
    BY <2>1, KsefSteps, IInvPerInvoice
  <2> QED
    BY <2>2, <2>3, PromiseSteps, ActionsArePromised DEF KsefKept
<1>3. CASE SenderStep
  BY <1>3, LoopIsPromised, GoroutineIsPromised DEF SenderStep
<1>4. CASE ExitProcess
  BY <1>1, <1>4 DEF ExitProcess, Exit
<1>5. CASE UNCHANGED vars
  BY <1>1, <1>5 DEF vars, tableVars
<1> QED
  BY <1>2, <1>3, <1>4, <1>5, ApiIsPromised, RestartIsPromised DEF Next, RestartProcess

(* The service keeps the promise of Lifecycle: an open invoice keeps its   *)
(* content, only that content is offered to KSeF, `sent` is final and comes*)
(* after the acceptance of the content shown, only a failed invoice is     *)
(* replaced or removed, and no id is used twice (sender.go, routes.go,     *)
(* invoice_model.go).                                                      *)
THEOREM ServiceKeepsPromise == Spec => KeepsPromise
<1>1. Init => Promise!Init
  <2> SUFFICES ASSUME Init PROVE Promise!Init
    OBVIOUS
  <2>1. \A i \in Id : StageOf(i) = "unborn" /\ invoices[i].ver = 1
    BY DEF Init, TableInit, NoRow, NewRow, StageOf, Id
  <2>2. OfferedContents = {} /\ AcceptedContents = {}
    BY DEF Init, KsefInit, OfferedContents, AcceptedContents, ContentsWith
  <2> QED
    BY <2>1, <2>2 DEF Promise!Init, OfferedContents, AcceptedContents
<1>2. IInv /\ IInv' /\ (\A i \in Id : EventsSound(i)) /\ [Next]_vars
      => [Promise!Next]_(Promise!vars)
  BY StepsArePromised DEF PromiseStep
<1> QED
  BY <1>1, <1>2, Invariance, EventsAreSound, PTL DEF Spec, KeepsPromise, Promise!Spec

=============================================================================
