------------------------------- MODULE Sender -------------------------------
(***************************************************************************)
(* The sender: the goroutine of cmd/sender.go that ticks for ever, the     *)
(* goroutines it starts for the invoices of a batch, and the webhooks of   *)
(* cmd/webhook.go.  `phase` says where the loop is, `job` what the         *)
(* goroutine of an invoice does next, with its in-memory copy of the row.  *)
(* The loop waits for all goroutines of a batch before it goes on, so an   *)
(* invoice has at most one.                                                *)
(*                                                                         *)
(* A call to KSeF, a call to a callback URL and a write of the table are   *)
(* steps of their own: anything may happen between two of them.            *)
(***************************************************************************)
EXTENDS Ksef

CONSTANTS
    Max_retries,          \* configuration: resubmissions, and webhook attempts
    SenderBatchSize,      \* configuration: invoices of one batch
    SenderWorkerLimit,    \* configuration: goroutines at work at a time
    DbErrors              \* whether a statement may fail

ASSUME ConfigAssumption == /\ Max_retries \in Nat
                           /\ SenderBatchSize \in Nat \ {0}
                           /\ SenderWorkerLimit \in Nat \ {0}
                           /\ DbErrors \in BOOLEAN

VARIABLES
    phase,        \* where the sender loop is
    job,          \* the goroutine of every invoice
    received      \* history: the events that reached a callback URL

senderVars == <<phase, job, received>>

Phase == {"down",           \* the process does not run
          "idle",           \* waiting for the ticker
          "confirming",     \* checkUnknownInvoices waits for its goroutines
          "pending",        \* sendInvoice begins
          "opening",        \* the batch is claimed, OpenInSession runs
          "sending",        \* sendInvoice waits for its goroutines
          "paused",         \* OpenInSession failed, KSeF is out of reach
          "refused",        \* OpenInSession failed, KSeF said no
          "hooks",          \* sendWebhooks begins
          "delivering"}     \* sendWebhooks waits for its goroutines

Pc == {"none", "queued", "send", "confirm", "writePending", "writeRetry",
       "writeFailed", "writeUnknown", "writeSent", "restoreUnknown",
       "notify", "markDelivered", "markFailed"}

(* The semaphore channel a goroutine was given.                            *)
Chan == {"none", "taskChan", "webhookChan"}

Job == [pc : Pc, inv : Row, ref : Ref \cup {NoRef}, chan : Chan]

NoJob == [pc |-> "none", inv |-> NoRow, ref |-> NoRef, chan |-> "none"]

Event == [id : Id, ver : Version, event : {"invoice.failed", "invoice.accepted"}]

SenderTypeOK ==
    /\ phase \in Phase
    /\ job \in [Id -> Job]
    /\ received \subseteq Event

SenderInit ==
    /\ phase = "down"
    /\ job = [i \in Id |-> NoJob]
    /\ received = {}

-----------------------------------------------------------------------------

At(i, pc) == job[i].pc = pc

Goto(i, pc) == job' = [job EXCEPT ![i].pc = pc]

Finish(i) == job' = [job EXCEPT ![i] = NoJob]

(* Goroutines past their semaphore channel.                                *)
Working == {i \in Id : ~At(i, "none") /\ ~At(i, "queued")}

StartBatch(batch, chan) ==
    job' = [i \in Id |-> IF i \in batch
                         THEN [pc |-> "queued", inv |-> invoices[i], ref |-> NoRef,
                               chan |-> chan]
                         ELSE job[i]]

(* A statement that changes the table, or fails and does not.              *)
OrFails(update) == update \/ (DbErrors /\ UNCHANGED tableVars)

-----------------------------------------------------------------------------
(* The loop.                                                               *)

CheckUnknownInvoices ==
    /\ phase = "idle"
    /\ LET batch == GetUnknown(SenderBatchSize)
       IN  \/ /\ batch # {}
              /\ Claim(batch)
              /\ StartBatch(batch, "taskChan")
              /\ phase' = "confirming"
           \/ /\ batch = {} \/ DbErrors
              /\ phase' = "pending"
              /\ UNCHANGED <<tableVars, job>>
    /\ UNCHANGED <<submissions, received>>

ClaimPending ==
    /\ phase = "pending"
    /\ LET batch == GetPending(SenderBatchSize)
       IN  \/ /\ batch # {}
              /\ Claim(batch)
              /\ StartBatch(batch, "taskChan")
              /\ phase' = "opening"
           \/ /\ batch = {} \/ DbErrors
              /\ phase' = "hooks"
              /\ UNCHANGED <<tableVars, job>>
    /\ UNCHANGED <<submissions, received>>

(* MUTANT of OpenInSession: without a session the batch is dropped.        *)
OpenOrDrop ==
    /\ phase = "opening"
    /\ \/ phase' = "sending" /\ UNCHANGED job
       \/ phase' = "hooks" /\ job' = [i \in Id |-> NoJob]
    /\ UNCHANGED <<tableVars, submissions, received>>

OpenInSession ==
    /\ phase = "opening"
    /\ phase' \in {"sending", "paused", "refused"}
    /\ UNCHANGED <<tableVars, submissions, job, received>>

SendWebhooks ==
    /\ phase = "hooks"
    /\ \/ \E batch \in GetInvoicesToWebhook(Max_retries, SenderBatchSize) :
             /\ batch # {}
             /\ StartBatch(batch, "webhookChan")
             /\ phase' = "delivering"
       \/ /\ WebhookDue(Max_retries) = {} \/ DbErrors
          /\ phase' = "idle"
          /\ UNCHANGED job
    /\ UNCHANGED <<tableVars, submissions, received>>

(* MUTANT of PassDone: no wg.Wait.                                         *)
PassNotAwaited ==
    /\ \/ phase = "confirming" /\ phase' = "pending"
       \/ phase \in {"sending", "paused", "refused"} /\ phase' = "hooks"
       \/ phase = "delivering" /\ phase' = "idle"
    /\ UNCHANGED <<tableVars, submissions, job, received>>

(* wg.Wait returns.  Whether CloseInSession succeeds changes nothing here. *)
PassDone ==
    /\ \A i \in Id : At(i, "none")
    /\ \/ phase = "confirming" /\ phase' = "pending"
       \/ phase \in {"sending", "paused", "refused"} /\ phase' = "hooks"
       \/ phase = "delivering" /\ phase' = "idle"
    /\ UNCHANGED <<tableVars, submissions, job, received>>

-----------------------------------------------------------------------------
(* The goroutine of invoice i.                                             *)

(* MUTANT of HandleInvoiceFailure: off by one.                             *)
FailureOffByOne(i) ==
    IF job[i].inv.attempts > Max_retries THEN "writeFailed" ELSE "writeRetry"

(* handleInvoiceFailure: which statement it will execute.                  *)
HandleInvoiceFailure(i) ==
    IF job[i].inv.attempts >= Max_retries THEN "writeFailed" ELSE "writeRetry"

FirstStep(i) ==
    CASE phase = "confirming" -> "confirm"
      [] phase = "sending"    -> "send"
      [] phase = "delivering" -> "notify"
      [] phase = "paused"     -> "writePending"
      [] phase = "refused"    -> HandleInvoiceFailure(i)

(* Who holds a slot of the channel of i.                                   *)
Holders(i) == {j \in Working : job[j].chan = job[i].chan}

(* MUTANT of SlotFree: a slot too few.                                     *)
SlotOfSmallerChannel(i) == Cardinality(Holders(i)) < SenderWorkerLimit - 1

(* The channel has a slot for the goroutine.  If the session could not be  *)
(* opened there is none: the loop takes the invoices itself, in order.     *)
SlotFree(i) ==
    IF phase \in {"paused", "refused"}
    THEN \A j \in Id : j < i => At(j, "none")
    ELSE Cardinality(Holders(i)) < SenderWorkerLimit

TakeSlot(i) ==
    /\ At(i, "queued")
    /\ phase \in {"confirming", "sending", "delivering", "paused", "refused"}
    /\ SlotFree(i)
    /\ Goto(i, FirstStep(i))
    /\ UNCHANGED <<tableVars, submissions, phase, received>>

(* KSeF may take the invoice in and the answer still be lost on the way    *)
(* (a url.Error) or be unreadable (any other error).                       *)
SendInvoice(i) ==
    /\ At(i, "send")
    /\ \/ \E r \in Ref :
             /\ Submit(i, job[i].inv.ver, r)
             /\ \/ job' = [job EXCEPT ![i].pc = "writeUnknown", ![i].ref = r]
                \/ Goto(i, "writePending")
                \/ Goto(i, HandleInvoiceFailure(i))
       \/ /\ \/ Goto(i, "writePending")        \* no network, or 21180
             \/ Goto(i, HandleInvoiceFailure(i))
          /\ UNCHANGED submissions
    /\ UNCHANGED <<tableVars, phase, received>>

(* MUTANT of ConfirmInvoice: what is not rejected counts as accepted.      *)
ConfirmUnlessRejected(i) ==
    /\ At(i, "confirm")
    /\ Goto(i, IF submissions[job[i].inv.ref].verdict = "rejected"
               THEN "writeFailed" ELSE "writeSent")
    /\ UNCHANGED <<tableVars, submissions, phase, received>>

(* WaitForSendingConfirmation and DownloadUPO.                             *)
ConfirmInvoice(i) ==
    /\ At(i, "confirm")
    /\ IF job[i].inv.ref = NoRef
       THEN Goto(i, "writeFailed")
       ELSE LET verdict == submissions[job[i].inv.ref].verdict
            IN  \/ verdict = "rejected" /\ Goto(i, "writeFailed")
                \/ verdict = "accepted" /\ Goto(i, "writeSent")
                \/ Goto(i, "restoreUnknown")
    /\ UNCHANGED <<tableVars, submissions, phase, received>>

WritePending(i) ==
    /\ At(i, "writePending")
    /\ OrFails(UpdatePendingInvoice(i))
    /\ Finish(i)
    /\ UNCHANGED <<submissions, phase, received>>

WriteRetry(i) ==
    /\ At(i, "writeRetry")
    /\ OrFails(UpdateRetryInvoice(i))
    /\ Finish(i)
    /\ UNCHANGED <<submissions, phase, received>>

RestoreUnknown(i) ==
    /\ At(i, "restoreUnknown")
    /\ OrFails(RestoreUnknownInvoice(i))
    /\ Finish(i)
    /\ UNCHANGED <<submissions, phase, received>>

WriteUnknown(i) ==
    /\ At(i, "writeUnknown")
    /\ \/ /\ UpdateUnknownInvoice(i, job[i].ref)
          /\ job' = [job EXCEPT ![i].pc = "confirm", ![i].inv.status = "UNKNOWN",
                                ![i].inv.ref = job[i].ref, ![i].ref = NoRef]
       \/ DbErrors /\ UNCHANGED tableVars /\ Finish(i)
    /\ UNCHANGED <<submissions, phase, received>>

(* An outcome with a callback is reported at once, except for an invoice   *)
(* that was to be confirmed and has no references.                         *)
Report(i, status) ==
    IF job[i].inv.callback /\ (phase = "confirming" => job[i].inv.ref # NoRef)
    THEN job' = [job EXCEPT ![i].pc = "notify", ![i].inv.status = status]
    ELSE Finish(i)

WriteFailed(i) ==
    /\ At(i, "writeFailed")
    /\ \/ UpdateFailedInvoice(i) /\ Report(i, "FAILED")
       \/ DbErrors /\ UNCHANGED tableVars /\ Finish(i)
    /\ UNCHANGED <<submissions, phase, received>>

WriteSent(i) ==
    /\ At(i, "writeSent")
    /\ \/ UpdateSentInvoice(i, job[i].inv.ref) /\ Report(i, "SENT")
       \/ DbErrors /\ UNCHANGED tableVars /\ Finish(i)
    /\ UNCHANGED <<submissions, phase, received>>

-----------------------------------------------------------------------------
(* deliverWebhook                                                          *)

(* MUTANT of EventOf: goes by the references and not by the status.        *)
EventByReference(i) == [id |-> i, ver |-> job[i].inv.ver,
                        event |-> IF job[i].inv.ref = NoRef
                                  THEN "invoice.failed" ELSE "invoice.accepted"]

EventOf(i) == [id |-> i, ver |-> job[i].inv.ver,
               event |-> IF job[i].inv.status = "FAILED"
                         THEN "invoice.failed" ELSE "invoice.accepted"]

(* MUTANT of NotifyWebhook: no look at the answer.                         *)
NotifyUnchecked(i) ==
    /\ At(i, "notify")
    /\ received' \in {received, received \cup {EventOf(i)}}
    /\ Goto(i, "markDelivered")
    /\ UNCHANGED <<tableVars, submissions, phase>>

(* The callback may receive the event and the answer be lost or not 2xx.   *)
NotifyWebhook(i) ==
    /\ At(i, "notify")
    /\ IF job[i].inv.callback /\ job[i].inv.status \in {"FAILED", "SENT"}
       THEN \/ /\ received' = received \cup {EventOf(i)}
               /\ Goto(i, "markDelivered") \/ Goto(i, "markFailed")
            \/ Goto(i, "markFailed") /\ UNCHANGED received
       ELSE Goto(i, "markFailed") /\ UNCHANGED received
    /\ UNCHANGED <<tableVars, submissions, phase>>

MarkDelivered(i) ==
    /\ At(i, "markDelivered")
    /\ OrFails(UpdateWebhookDelivered(i))
    /\ Finish(i)
    /\ UNCHANGED <<submissions, phase, received>>

MarkFailed(i) ==
    /\ At(i, "markFailed")
    /\ OrFails(UpdateWebhookFailed(i))
    /\ Finish(i)
    /\ UNCHANGED <<submissions, phase, received>>

-----------------------------------------------------------------------------

LoopStep == CheckUnknownInvoices \/ ClaimPending \/ OpenInSession
            \/ SendWebhooks \/ PassDone

Goroutine(i) ==
    \/ TakeSlot(i) \/ SendInvoice(i) \/ ConfirmInvoice(i)
    \/ WritePending(i) \/ WriteRetry(i) \/ WriteFailed(i) \/ WriteUnknown(i)
    \/ WriteSent(i) \/ RestoreUnknown(i)
    \/ NotifyWebhook(i) \/ MarkDelivered(i) \/ MarkFailed(i)

(* The process ends: a signal at a tick, the shutdown timeout of main, a   *)
(* crash.  Nothing in memory survives.                                     *)
Exit ==
    /\ phase # "down"
    /\ phase' = "down"
    /\ job' = [i \in Id |-> NoJob]
    /\ UNCHANGED <<tableVars, submissions, received>>

(* main recovers the table before it starts the sender and the server; if  *)
(* the statement fails the process ends again.                             *)
Restart ==
    /\ phase = "down"
    /\ RecoverProcessingInvoices
    /\ phase' = "idle"
    /\ UNCHANGED <<submissions, job, received>>

=============================================================================
