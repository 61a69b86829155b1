------------------------------ MODULE Service -------------------------------
(***************************************************************************)
(* The whole service: API clients and dashboard users (cmd/routes.go), the *)
(* sender and KSeF, over the one table they share.                         *)
(***************************************************************************)
EXTENDS Sender

CONSTANT Callbacks        \* whether requests give a callback URL

ASSUME CallbacksAssumption == Callbacks \subseteq BOOLEAN /\ Callbacks # {}

VARIABLE inserting        \* external ids some createInvoice found no FAILED
                          \* row for, and is about to INSERT

vars == <<invoices, nextId, submissions, phase, job, received, inserting>>

TypeOK ==
    /\ TableTypeOK
    /\ KsefTypeOK
    /\ SenderTypeOK
    /\ inserting \subseteq Ext

Init ==
    /\ TableInit
    /\ KsefInit
    /\ SenderInit
    /\ inserting = {}

-----------------------------------------------------------------------------
(* HTTP handlers, served while the process runs.                           *)

Up == phase # "down"

(* createInvoice after validation: replace a FAILED row or else insert.    *)
CreateReplace(e) ==
    /\ Up
    /\ IF Replaceable(e) # {}
       THEN /\ \E i \in Replaceable(e), cb \in Callbacks : ReplaceInvoice(i, cb)
            /\ UNCHANGED inserting
       ELSE /\ inserting' = inserting \cup {e}
            /\ UNCHANGED tableVars
    /\ UNCHANGED <<submissions, senderVars>>

(* The INSERT of the same request, or UNIQUE fails it.  More requests for  *)
(* the same external id may be between the two statements.                 *)
CreateInsert(e) ==
    /\ Up
    /\ e \in inserting
    /\ IF WithExt(e) = {}
       THEN \E cb \in Callbacks : InsertInvoice(e, cb)
       ELSE UNCHANGED tableVars
    /\ inserting' \in {inserting, inserting \ {e}}
    /\ UNCHANGED <<submissions, senderVars>>

DeleteInvoiceRequest(e) ==
    /\ Up
    /\ DeleteInvoiceExternalId(e)
    /\ UNCHANGED <<submissions, senderVars, inserting>>

DeleteDashboardInvoice(i) ==
    /\ Up
    /\ DeleteInvoice(i)
    /\ UNCHANGED <<submissions, senderVars, inserting>>

RetryWebhook(i) ==
    /\ Up
    /\ ResetWebhookAttemptCount(i)
    /\ UNCHANGED <<submissions, senderVars, inserting>>

-----------------------------------------------------------------------------

KsefDecides ==
    /\ \E r \in Ref : Decide(r)
    /\ UNCHANGED <<tableVars, senderVars, inserting>>

Api == \/ \E e \in Ext : CreateReplace(e) \/ CreateInsert(e) \/ DeleteInvoiceRequest(e)
       \/ \E i \in Id : DeleteDashboardInvoice(i) \/ RetryWebhook(i)

SenderStep == /\ LoopStep \/ \E i \in Id : Goroutine(i)
              /\ UNCHANGED inserting

ExitProcess == Exit /\ inserting' = {}

RestartProcess == Restart /\ UNCHANGED inserting

Next == Api \/ SenderStep \/ KsefDecides \/ ExitProcess \/ RestartProcess

Spec == Init /\ [][Next]_vars

-----------------------------------------------------------------------------
(* Properties                                                              *)

(* The goroutine of i is to submit or to confirm the invoice (and not to   *)
(* report an outcome).                                                     *)
Handling(i) ==
    /\ ~At(i, "none")
    /\ ~At(i, "notify") /\ ~At(i, "markDelivered") /\ ~At(i, "markFailed")
    /\ phase # "delivering"

(* While the sender handles an invoice, the row it will write is there, is *)
(* in flight, and holds the content, the attempts and the references of    *)
(* the sender's copy: no UPDATE by id, which checks no status, hits a row  *)
(* that a user replaced or deleted meanwhile (cmd/sender.go).              *)
CopyIsCurrent ==
    \A i \in Id : Handling(i) =>
        /\ invoices[i].status \in {"PROCESSING", "UNKNOWN"}
        /\ invoices[i].ver = job[i].inv.ver
        /\ invoices[i].attempts = job[i].inv.attempts
        /\ invoices[i].callback = job[i].inv.callback
        /\ invoices[i].ref = job[i].inv.ref

(* A row that waits to be submitted has no references of an earlier        *)
(* submission, one that waits for a verdict or has it has some             *)
(* (confirmInvoice never meets an invoice without them).                   *)
ReferencesFitStatus ==
    \A i \in Id :
        /\ invoices[i].status = "PENDING" => invoices[i].ref = NoRef
        /\ invoices[i].status \in {"UNKNOWN", "SENT"} => invoices[i].ref # NoRef

(* The references of a row are those of a submission of this very row and  *)
(* of the content it holds now.                                            *)
ReferencesOwned ==
    \A i \in Id : invoices[i].ref # NoRef =>
        /\ Used(invoices[i].ref)
        /\ submissions[invoices[i].ref].id = i
        /\ submissions[invoices[i].ref].ver = invoices[i].ver

(* SENT, and a KSeF number, are shown only for content KSeF has accepted.  *)
SentIsAccepted ==
    \A i \in Id : invoices[i].status = "SENT" \/ invoices[i].ksefId =>
        /\ invoices[i].status = "SENT"
        /\ invoices[i].ref # NoRef
        /\ submissions[invoices[i].ref].verdict = "accepted"

(* With a database that does not fail, PROCESSING means somebody works on  *)
(* the invoice: nothing leaves a claimed invoice behind.                   *)
NoneStranded ==
    \A i \in Id : invoices[i].status = "PROCESSING" /\ Up => ~At(i, "none")

(* At most SenderWorkerLimit goroutines are at work, to KSeF and callbacks *)
(* together: there are two channels of this size, but no goroutine of one  *)
(* pass is at work when those of the next one begin (cmd/sender.go).       *)
WorkersBounded == Cardinality(Working) <= SenderWorkerLimit

(* No callback is told both outcomes of one content, and none is told of   *)
(* an acceptance that KSeF did not give.                                   *)
EventsConsistent ==
    \A v \in received :
        /\ \A w \in received : v.id = w.id /\ v.ver = w.ver => v.event = w.event
        /\ v.event = "invoice.accepted" =>
              \E r \in Ref : submissions[r] = [id |-> v.id, ver |-> v.ver,
                                               verdict |-> "accepted"]

(* A row says "delivered" only if the callback received an outcome of this *)
(* row before; an id is not used again, so not one of another invoice.     *)
DeliveredIsReceived ==
    \A i \in Id : invoices[i].delivered =>
        \E v \in received : v.id = i /\ v.ver <= invoices[i].ver

KeepsContent(i) == Live(i) /\ Live(i)' /\ invoices'[i].ver = invoices[i].ver

(* A content's attempts are counted by one step only, the put-back after a *)
(* failed submission (handleInvoiceFailure), up to Max_retries, and are    *)
(* not forgotten; without a submission of its own that KSeF rejects, an    *)
(* invoice is given up only when they are used up.  Put-backs without      *)
(* network, after error 21180 or an unreachable session, by the recovery   *)
(* at start and those whose UPDATE fails are not counted, nor limited.     *)
RetriesCounted ==
    [][\A i \in Id : KeepsContent(i) =>
         /\ IF At(i, "writeRetry") /\ invoices'[i].status = "PENDING"
            THEN /\ invoices'[i].attempts = invoices[i].attempts + 1
                 /\ invoices'[i].attempts <= Max_retries
            ELSE invoices'[i].attempts = invoices[i].attempts
         /\ (/\ invoices'[i].status = "FAILED" /\ invoices[i].status # "FAILED"
             /\ invoices'[i].ref = NoRef) => invoices[i].attempts = Max_retries]_vars

Tries(i) == At(i, "notify") /\ (At(i, "markDelivered")' \/ At(i, "markFailed")')

MostFailures == IF Max_retries > 2 THEN Max_retries ELSE 2

(* A callback is called, also without a record of it afterwards, only      *)
(* while the row counts fewer than Max_retries failures, or two if that is *)
(* less: the call right after the outcome looks at no counter, which may   *)
(* hold the late failure of a replaced content.  No step of the sender, no *)
(* crash and no restart takes a failure off the counter.  Calls that are   *)
(* not recorded (the UPDATE fails, the process ends) are not counted.      *)
CallbacksLimited ==
    [][\A i \in Id :
         /\ Tries(i) => invoices[i].whAttempts < MostFailures
         /\ invoices'[i].whAttempts < invoices[i].whAttempts => UNCHANGED senderVars]_vars

(* An invoice whose references are stored is never submitted again.        *)
NoResubmission ==
    [][\A r \in Ref : ~Used(r) /\ Used(r)' => invoices[submissions'[r].id].ref = NoRef]_vars

-----------------------------------------------------------------------------
(* What the documents and the dashboard say, and the code does not keep.   *)

(* The dashboard lists FAILED invoices as "Niewysłane", not sent           *)
(* (ui/html/index.html).                                                   *)
FailedIsNotAccepted ==
    \A i \in Id : invoices[i].status = "FAILED" =>
        ~\E r \in Ref : submissions[r] = [id |-> i, ver |-> invoices[i].ver,
                                          verdict |-> "accepted"]

(* The dashboard says "Dostarczony: TAK", delivered, next to an invoice    *)
(* (ui/html/invoice_view.html): its callback received an outcome of it.    *)
ShownDeliveredIsTrue ==
    \A i \in Id : invoices[i].delivered =>
        \E v \in received : v.id = i /\ v.ver = invoices[i].ver

-----------------------------------------------------------------------------
(* The inductive invariant behind the safety properties                    *)

(* No goroutine outlives the pass that started it.                         *)
PassesAreClosed ==
    /\ phase \in {"down", "idle", "pending", "hooks"} => \A i \in Id : At(i, "none")
    /\ phase = "delivering" => \A i \in Id :
          job[i].pc \in {"none", "queued", "notify", "markDelivered", "markFailed"}

(* The copy has references exactly if it went through a submission.        *)
CopyKnowsSubmission ==
    \A i \in Id : Handling(i) =>
        /\ At(i, "queued") => (job[i].inv.ref # NoRef <=> phase = "confirming")
        /\ job[i].pc \in {"send", "writePending", "writeRetry", "writeUnknown"} =>
              job[i].inv.ref = NoRef
        /\ job[i].pc \in {"confirm", "restoreUnknown", "writeSent"} =>
              job[i].inv.ref # NoRef

(* What KSeF answered is what the goroutine is about to write.             *)
AnswerIsKept ==
    \A i \in Id :
        /\ At(i, "writeUnknown") =>
              /\ job[i].ref # NoRef
              /\ Used(job[i].ref)
              /\ submissions[job[i].ref].id = i
              /\ submissions[job[i].ref].ver = job[i].inv.ver
        /\ At(i, "writeSent") => submissions[job[i].inv.ref].verdict = "accepted"

(* AUTOINCREMENT: the next id was never used.                              *)
IdsAreFresh == \A i \in Id : i >= nextId => ~Live(i)

IInv ==
    /\ TypeOK
    /\ PassesAreClosed
    /\ CopyIsCurrent
    /\ CopyKnowsSubmission
    /\ AnswerIsKept
    /\ ReferencesFitStatus
    /\ ReferencesOwned
    /\ SentIsAccepted
    /\ IdsAreFresh

-----------------------------------------------------------------------------
(* The promise                                                             *)

StageOf(i) ==
    CASE invoices[i].status = "ABSENT" /\ i >= nextId             -> "unborn"
      [] invoices[i].status = "ABSENT" /\ i < nextId              -> "removed"
      [] invoices[i].status \in {"PENDING", "PROCESSING", "UNKNOWN"} -> "open"
      [] invoices[i].status = "FAILED"                            -> "failed"
      [] invoices[i].status = "SENT"                              -> "sent"

ContentsWith(verdicts) ==
    {<<submissions[r].id, submissions[r].ver>> :
        r \in {q \in Ref : submissions[q].verdict \in verdicts}}

Promise == INSTANCE Lifecycle WITH
    stage    <- [i \in Id |-> StageOf(i)],
    content  <- [i \in Id |-> invoices[i].ver],
    offered  <- ContentsWith({"processing", "accepted", "rejected"}),
    accepted <- ContentsWith({"accepted"})

(* The service keeps the promise of Lifecycle.                             *)
KeepsPromise == Promise!Spec

-----------------------------------------------------------------------------
(* Progress                                                                *)

(* The loop and its goroutines are scheduled, every HTTP call returns (all *)
(* clients have a timeout), main is started again after it ends.  Of KSeF  *)
(* it is assumed that it decides, and that its answer comes through in the *)
(* end if it is asked again and again.                                     *)
Fairness ==
    /\ WF_vars(LoopStep /\ UNCHANGED inserting)
    /\ WF_vars(RestartProcess)
    /\ \A i \in Id : WF_vars(Goroutine(i) /\ UNCHANGED inserting)

KsefFairness ==
    /\ \A r \in Ref : WF_vars(Decide(r) /\ UNCHANGED <<tableVars, senderVars, inserting>>)
    /\ \A i \in Id : SF_vars(/\ ConfirmInvoice(i)
                             /\ job'[i].pc \in {"writeSent", "writeFailed"}
                             /\ UNCHANGED inserting)

FairSpec == Spec /\ Fairness /\ KsefFairness

StaysUp == <>[]Up

(* No tick hangs: the goroutines of a batch never wait for each other, or  *)
(* for a slot, for ever (startSender).                                     *)
TicksEnd == StaysUp => []<>(phase = "idle")

(* An invoice that waits to be submitted is taken by the sender, if the    *)
(* batches are large enough for all that wait.                             *)
PendingIsTaken ==
    StaysUp => \A i \in Id : invoices[i].status = "PENDING" ~> invoices[i].status # "PENDING"

(* A submitted invoice does not stay without an outcome: the sender learns *)
(* the verdict, whatever was lost on the way before.                       *)
VerdictIsLearnt ==
    StaysUp => \A i \in Id :
        invoices[i].status \in {"PROCESSING", "UNKNOWN"} /\ invoices[i].ref # NoRef
            ~> invoices[i].status \in {"SENT", "FAILED"}

Unreported(i) == /\ invoices[i].status \in {"FAILED", "SENT"}
                 /\ invoices[i].callback
                 /\ ~invoices[i].delivered

(* The dashboard's retry button: "the counter is reset and the sending is  *)
(* tried again" (ui/html/invoice_view.html).  With a counter of zero, and  *)
(* no attempt under way that raises it, an unreported outcome is tried.    *)
RetryIsTried ==
    StaysUp => \A i \in Id :
        Unreported(i) /\ invoices[i].whAttempts = 0 /\ At(i, "none")
            ~> At(i, "notify") \/ ~Unreported(i)

=============================================================================
