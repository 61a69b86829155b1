---------------------------- MODULE ServiceProofs ---------------------------
(***************************************************************************)
(* Proofs about Service, for every value of the constants.                 *)
(***************************************************************************)
EXTENDS Service, TableProofs

-----------------------------------------------------------------------------
(* Type correctness                                                        *)

(* Goto, Finish and StartBatch keep the type of job.                       *)
LEMMA JobType ==
    ASSUME job \in [Id -> Job], invoices \in [Id -> Row]
    PROVE  /\ \A i \in Id, pc \in Pc : Goto(i, pc) => job' \in [Id -> Job]
           /\ \A i \in Id : Finish(i) => job' \in [Id -> Job]
           /\ \A batch : StartBatch(batch, "taskChan") \/ StartBatch(batch, "webhookChan")
                          => job' \in [Id -> Job]
           /\ NoJob \in Job
<1>1. NoJob \in Job
  BY BlankRows DEF NoJob, Job, Pc, Chan
<1>2. ASSUME NEW i \in Id, NEW pc \in Pc, Goto(i, pc) PROVE job' \in [Id -> Job]
  BY <1>2 DEF Goto, Job
<1>3. ASSUME NEW i \in Id, Finish(i) PROVE job' \in [Id -> Job]
  BY <1>1, <1>3 DEF Finish
<1>4. ASSUME NEW batch, NEW chan \in {"taskChan", "webhookChan"}, StartBatch(batch, chan)
      PROVE  job' \in [Id -> Job]
  <2>1. \A i \in Id : [pc |-> "queued", inv |-> invoices[i], ref |-> NoRef, chan |-> chan]
                      \in Job
    BY DEF Job, Pc, Chan
  <2> QED
    BY <1>4, <2>1 DEF StartBatch
<1> QED
  BY <1>1, <1>2, <1>3, <1>4

(* Reporting an outcome keeps it too.                                      *)
LEMMA ReportType ==
    ASSUME job \in [Id -> Job], invoices \in [Id -> Row], NEW i \in Id,
           NEW s \in Status, Report(i, s)
    PROVE  job' \in [Id -> Job]
<1>1. job[i] \in Job /\ job[i].inv \in Row
  BY SMTT(30) DEF Job
<1>2. [job[i].inv EXCEPT !.status = s] \in Row
  BY <1>1, WrittenRows DEF NoRef
<1>3. CASE Finish(i)
  BY <1>3, JobType
<1>4. CASE job' = [job EXCEPT ![i].pc = "notify", ![i].inv.status = s]
  BY <1>1, <1>2, <1>4 DEF Job, Pc
<1> QED
  BY <1>3, <1>4 DEF Report

(* The first step of a goroutine is one of its steps.                      *)
LEMMA FirstStepType ==
    ASSUME NEW i \in Id,
           phase \in {"confirming", "sending", "delivering", "paused", "refused"}
    PROVE  /\ FirstStep(i) \in Pc
           /\ HandleInvoiceFailure(i) \in Pc
  BY DEF FirstStep, HandleInvoiceFailure, Pc

(* KSeF's record keeps its type.                                           *)
LEMMA KsefType ==
    ASSUME KsefTypeOK
    PROVE  /\ \A i \in Id, v \in Version, r \in Ref : Submit(i, v, r) => KsefTypeOK'
           /\ \A r \in Ref : Decide(r) => KsefTypeOK'
<1>1. ASSUME NEW i \in Id, NEW v \in Version, NEW r \in Ref, Submit(i, v, r)
      PROVE  KsefTypeOK'
  BY <1>1 DEF KsefTypeOK, Submit, Submission, Verdict
<1>2. ASSUME NEW r \in Ref, Decide(r) PROVE KsefTypeOK'
  BY <1>2 DEF KsefTypeOK, Decide, Submission, Verdict
<1> QED
  BY <1>1, <1>2

(* Every step of the loop, of a goroutine, of a handler keeps the types.   *)
LEMMA LoopType == ASSUME TypeOK, LoopStep, UNCHANGED inserting PROVE TypeOK'
<1> USE DEF TypeOK, SenderTypeOK, TableTypeOK
<1>1. CASE CheckUnknownInvoices
  <2>1. TableTypeOK' /\ job' \in [Id -> Job]
    BY <1>1, BatchesType, JobType DEF CheckUnknownInvoices, tableVars
  <2> QED
    BY <1>1, <2>1 DEF CheckUnknownInvoices, KsefTypeOK, Phase
<1>2. CASE ClaimPending
  <2>1. TableTypeOK' /\ job' \in [Id -> Job]
    BY <1>2, BatchesType, JobType DEF ClaimPending, tableVars
  <2> QED
    BY <1>2, <2>1 DEF ClaimPending, KsefTypeOK, Phase
<1>3. CASE OpenInSession
  BY <1>3 DEF OpenInSession, KsefTypeOK, Phase, tableVars
<1>4. CASE SendWebhooks
  <2>1. job' \in [Id -> Job]
    BY <1>4, JobType DEF SendWebhooks
  <2> QED
    BY <1>4, <2>1 DEF SendWebhooks, KsefTypeOK, Phase, tableVars
<1>5. CASE PassDone
  BY <1>5 DEF PassDone, KsefTypeOK, Phase, tableVars
<1> QED
  BY <1>1, <1>2, <1>3, <1>4, <1>5 DEF LoopStep

(* So does every step of the goroutine of an invoice.                      *)
LEMMA GoroutineType ==
    ASSUME TypeOK, NEW i \in Id, Goroutine(i), UNCHANGED inserting
    PROVE  TypeOK'
<1> DEFINE frame == UNCHANGED <<submissions, phase, received>>
<1>0. /\ job[i] \in Job /\ job[i].inv \in Row
      /\ job[i].inv.ver \in Version /\ job[i].inv.ref \in Ref \cup {NoRef}
      /\ job[i].ref \in Ref \cup {NoRef}
      /\ job \in [Id -> Job] /\ invoices \in [Id -> Row] /\ nextId \in 1 .. (MaxId + 1)
      /\ HandleInvoiceFailure(i) \in Pc
      /\ {"writePending", "writeUnknown", "writeFailed", "writeSent",
          "restoreUnknown", "markDelivered", "markFailed"} \subseteq Pc
      /\ {"FAILED", "SENT"} \subseteq Status
  BY DEF TypeOK, SenderTypeOK, TableTypeOK, Job, Row, Pc, Status, HandleInvoiceFailure
<1>1. ASSUME TableTypeOK', job' \in [Id -> Job], frame PROVE TypeOK'
  BY <1>1 DEF TypeOK, SenderTypeOK, KsefTypeOK
<1>2. UNCHANGED tableVars => TableTypeOK'
  BY DEF TypeOK, TableTypeOK, tableVars
<1>3. CASE TakeSlot(i)
  BY <1>0, <1>1, <1>2, <1>3, FirstStepType, JobType DEF TakeSlot
<1>4. CASE SendInvoice(i)
  <2>1. KsefTypeOK'
    BY <1>0, <1>4, KsefType DEF SendInvoice, TypeOK, KsefTypeOK
  <2>2. ASSUME NEW r \in Ref, job' = [job EXCEPT ![i].pc = "writeUnknown", ![i].ref = r]
        PROVE  job' \in [Id -> Job]
    BY <1>0, <2>2 DEF Job, Pc
  <2>3. job' \in [Id -> Job]
    BY <1>0, <1>4, <2>2, JobType DEF SendInvoice
  <2> QED
    BY <1>2, <1>4, <2>1, <2>3 DEF SendInvoice, TypeOK, SenderTypeOK
<1>5. CASE ConfirmInvoice(i)
  <2>1. job' \in [Id -> Job]
    BY <1>0, <1>5, JobType DEF ConfirmInvoice
  <2> QED
    BY <1>1, <1>2, <1>5, <2>1 DEF ConfirmInvoice
<1>6. CASE WritePending(i) \/ WriteRetry(i) \/ RestoreUnknown(i)
           \/ MarkDelivered(i) \/ MarkFailed(i)
  <2>1. TableTypeOK'
    BY <1>0, <1>2, <1>6, StatementsType
       DEF WritePending, WriteRetry, RestoreUnknown, MarkDelivered, MarkFailed,
           OrFails, TypeOK
  <2> QED
    BY <1>0, <1>1, <1>6, <2>1, JobType
       DEF WritePending, WriteRetry, RestoreUnknown, MarkDelivered, MarkFailed
<1>7. CASE WriteUnknown(i)
  <2>1. TableTypeOK'
    BY <1>0, <1>2, <1>7, StatementsType, SMTT(30) DEF WriteUnknown, TypeOK
  <2>2. [job[i].inv EXCEPT !.status = "UNKNOWN", !.ref = job[i].ref] \in Row
    BY <1>0, WrittenRows
  <2>3. job' \in [Id -> Job]
    <3>1. CASE Finish(i)
      BY <1>0, <3>1, JobType
    <3>2. CASE job' = [job EXCEPT ![i].pc = "confirm", ![i].inv.status = "UNKNOWN",
                                  ![i].inv.ref = job[i].ref, ![i].ref = NoRef]
      BY <1>0, <2>2, <3>2 DEF Job, Pc
    <3> QED
      BY <1>7, <3>1, <3>2 DEF WriteUnknown
  <2> QED
    BY <1>1, <1>7, <2>1, <2>3 DEF WriteUnknown
<1>8. CASE WriteFailed(i)
  <2>1. TableTypeOK'
    BY <1>0, <1>2, <1>8, StatementsType DEF WriteFailed, TypeOK
  <2>2. job' \in [Id -> Job]
    BY <1>0, <1>8, JobType, ReportType DEF WriteFailed
  <2> QED
    BY <1>1, <1>8, <2>1, <2>2 DEF WriteFailed
<1>9. CASE WriteSent(i)
  <2>1. TableTypeOK'
    BY <1>0, <1>2, <1>9, StatementsType DEF WriteSent, TypeOK
  <2>2. job' \in [Id -> Job]
    BY <1>0, <1>9, JobType, ReportType DEF WriteSent
  <2> QED
    BY <1>1, <1>9, <2>1, <2>2 DEF WriteSent
<1>10. CASE NotifyWebhook(i)
  <2>1. job' \in [Id -> Job]
    BY <1>0, <1>10, JobType DEF NotifyWebhook
  <2>2. EventOf(i) \in Event
    BY <1>0 DEF EventOf, Event
  <2>3. received' \subseteq Event
    BY <1>10, <2>2 DEF NotifyWebhook, TypeOK, SenderTypeOK
  <2> QED
    BY <1>2, <1>10, <2>1, <2>3 DEF NotifyWebhook, TypeOK, SenderTypeOK, KsefTypeOK
<1> QED
  BY <1>3, <1>4, <1>5, <1>6, <1>7, <1>8, <1>9, <1>10 DEF Goroutine

(* And every handler.                                                      *)
LEMMA ApiType == ASSUME TypeOK, Api PROVE TypeOK'
<1> USE DEF TypeOK, senderVars
<1>1. ASSUME TableTypeOK', UNCHANGED <<submissions, senderVars>>,
             inserting' \subseteq Ext
      PROVE  TypeOK'
  BY <1>1 DEF SenderTypeOK, KsefTypeOK
<1>2. UNCHANGED tableVars => TableTypeOK'
  BY DEF TableTypeOK, tableVars
<1>3. ASSUME NEW e \in Ext, CreateReplace(e) PROVE TypeOK'
  BY <1>1, <1>2, <1>3, StatementsType, CallbacksAssumption
     DEF CreateReplace, Replaceable, WithExt, NoRef
<1>4. ASSUME NEW e \in Ext, CreateInsert(e) PROVE TypeOK'
  BY <1>1, <1>2, <1>4, BatchesType, CallbacksAssumption DEF CreateInsert
<1>5. ASSUME NEW e \in Ext, DeleteInvoiceRequest(e) PROVE TypeOK'
  BY <1>1, <1>5, BatchesType DEF DeleteInvoiceRequest, DeleteInvoiceExternalId, WithExt
<1>6. ASSUME NEW i \in Id, DeleteDashboardInvoice(i) PROVE TypeOK'
  BY <1>1, <1>6, BatchesType DEF DeleteDashboardInvoice, DeleteInvoice
<1>7. ASSUME NEW i \in Id, RetryWebhook(i) PROVE TypeOK'
  BY <1>1, <1>7, StatementsType DEF RetryWebhook, NoRef
<1> QED
  BY <1>3, <1>4, <1>5, <1>6, <1>7 DEF Api

(* The variables have their types at the start.                            *)
LEMMA InitType == Init => TypeOK
<1>1. [id |-> 1, ver |-> 1, verdict |-> "unused"] \in Submission
  BY BoundAssumption DEF Submission, Id, Version, Verdict
<1> QED
  BY <1>1, BlankRows, BoundAssumption
     DEF Init, TableInit, KsefInit, SenderInit, TypeOK, TableTypeOK, KsefTypeOK,
         SenderTypeOK, NoJob, Job, Pc, Chan, Phase

(* Every variable has its type in every reachable state.                   *)
THEOREM TypeCorrect == Spec => []TypeOK
<1>1. Init => TypeOK
  BY InitType
<1>2. TypeOK /\ [Next]_vars => TypeOK'
  <2> SUFFICES ASSUME TypeOK, [Next]_vars PROVE TypeOK'
    OBVIOUS
  <2>1. CASE Api
    BY <2>1, ApiType
  <2>2. CASE SenderStep
    BY <2>2, LoopType, GoroutineType DEF SenderStep
  <2>3. CASE KsefDecides
    BY <2>3, KsefType
       DEF KsefDecides, TypeOK, TableTypeOK, SenderTypeOK, tableVars, senderVars
  <2>4. CASE ExitProcess
    BY <2>4, JobType
       DEF ExitProcess, Exit, TypeOK, TableTypeOK, SenderTypeOK, KsefTypeOK,
           tableVars, Phase
  <2>5. CASE RestartProcess
    BY <2>5, BatchesType
       DEF RestartProcess, Restart, TypeOK, SenderTypeOK, KsefTypeOK, Phase
  <2>6. CASE UNCHANGED vars
    BY <2>6 DEF vars, TypeOK, TableTypeOK, SenderTypeOK, KsefTypeOK
  <2> QED
    BY <2>1, <2>2, <2>3, <2>4, <2>5, <2>6 DEF Next
<1> QED
  BY <1>1, <1>2, PTL DEF Spec

-----------------------------------------------------------------------------
(* The inductive invariant, one invoice at a time                          *)

(* What IInv says of the row of an invoice.                                *)
RowSound(i) ==
    /\ invoices[i].status = "PENDING" => invoices[i].ref = NoRef
    /\ invoices[i].status \in {"UNKNOWN", "SENT"} => invoices[i].ref # NoRef
    /\ invoices[i].ref # NoRef =>
        /\ Used(invoices[i].ref)
        /\ submissions[invoices[i].ref].id = i
        /\ submissions[invoices[i].ref].ver = invoices[i].ver
    /\ invoices[i].status = "SENT" \/ invoices[i].ksefId =>
        /\ invoices[i].status = "SENT"
        /\ invoices[i].ref # NoRef
        /\ submissions[invoices[i].ref].verdict = "accepted"
    /\ i >= nextId => ~Live(i)

(* What IInv says of its goroutine.                                        *)
JobSound(i) ==
    /\ phase \in {"down", "idle", "pending", "hooks"} => At(i, "none")
    /\ phase = "delivering" =>
          job[i].pc \in {"none", "queued", "notify", "markDelivered", "markFailed"}
    /\ Handling(i) =>
        /\ invoices[i].status \in {"PROCESSING", "UNKNOWN"}
        /\ invoices[i].ver = job[i].inv.ver
        /\ invoices[i].attempts = job[i].inv.attempts
        /\ invoices[i].callback = job[i].inv.callback
        /\ invoices[i].ref = job[i].inv.ref
        /\ At(i, "queued") => (job[i].inv.ref # NoRef <=> phase = "confirming")
        /\ job[i].pc \in {"send", "writePending", "writeRetry", "writeUnknown"} =>
              job[i].inv.ref = NoRef
        /\ job[i].pc \in {"confirm", "restoreUnknown", "writeSent"} =>
              job[i].inv.ref # NoRef
    /\ At(i, "writeUnknown") =>
              /\ job[i].ref # NoRef
              /\ Used(job[i].ref)
              /\ submissions[job[i].ref].id = i
              /\ submissions[job[i].ref].ver = job[i].inv.ver
    /\ At(i, "writeSent") => submissions[job[i].inv.ref].verdict = "accepted"

(* The inductive invariant is the types and these two, for every invoice.  *)
LEMMA IInvPerInvoice ==
    IInv <=> TypeOK /\ \A i \in Id : RowSound(i) /\ JobSound(i)
  BY DEF IInv, RowSound, JobSound, PassesAreClosed, CopyIsCurrent, CopyKnowsSubmission,
         AnswerIsKept, ReferencesFitStatus, ReferencesOwned, SentIsAccepted, IdsAreFresh

(* KSeF forgets nothing and does not take back an acceptance.              *)
KsefGrows ==
    \A r \in Ref : Used(r) =>
        /\ Used(r)'
        /\ submissions'[r].id = submissions[r].id
        /\ submissions'[r].ver = submissions[r].ver
        /\ submissions[r].verdict = "accepted" => submissions'[r].verdict = "accepted"

(* A row and a copy of a row are rows; references are NoRef or in Ref.     *)
LEMMA FieldTypes ==
    ASSUME TypeOK, NEW i \in Id
    PROVE  /\ invoices[i] \in Row /\ job[i] \in Job /\ job[i].inv \in Row
           /\ invoices[i].ref # NoRef => invoices[i].ref \in Ref
           /\ job[i].inv.ref # NoRef => job[i].inv.ref \in Ref
           /\ job[i].ref # NoRef => job[i].ref \in Ref
  BY DEF TypeOK, TableTypeOK, SenderTypeOK, Row, Job

(* A step that does not reach KSeF changes nothing there.                  *)
LEMMA SameKsef == UNCHANGED submissions => KsefGrows
  BY DEF KsefGrows, Used

(* Taking in an invoice and deciding on one only add to what KSeF knows.   *)
LEMMA KsefActionsGrow ==
    ASSUME TypeOK, NEW r \in Ref
    PROVE  /\ Decide(r) => KsefGrows
           /\ \A i, v : Submit(i, v, r) =>
                  /\ KsefGrows
                  /\ Used(r)' /\ submissions'[r].id = i /\ submissions'[r].ver = v
<1> USE DEF TypeOK, KsefTypeOK
<1>1. Decide(r) => KsefGrows
  BY DEF Decide, KsefGrows, Used, Submission
<1>2. ASSUME NEW i, NEW v, Submit(i, v, r)
      PROVE  /\ KsefGrows
             /\ Used(r)' /\ submissions'[r].id = i /\ submissions'[r].ver = v
  BY <1>2 DEF Submit, KsefGrows, Used, Submission
<1> QED
  BY <1>1, <1>2

(* A row that a step leaves alone stays sound.                             *)
LEMMA SameRow ==
    ASSUME TypeOK, NEW j \in Id, RowSound(j), invoices'[j] = invoices[j],
           nextId' = nextId, KsefGrows
    PROVE  RowSound(j)'
  BY FieldTypes DEF RowSound, KsefGrows, Used, Live

(* So does a goroutine that a step leaves alone.                           *)
LEMMA SameJob ==
    ASSUME TypeOK, NEW j \in Id, JobSound(j), invoices'[j] = invoices[j],
           job'[j] = job[j], phase' = phase, KsefGrows
    PROVE  JobSound(j)'
<1>1. At(j, "writeSent") => Handling(j)
  BY DEF Handling, JobSound, At
<1> QED
  BY FieldTypes, <1>1 DEF JobSound, KsefGrows, Used, At, Handling

(* An invariant of the next state is shown one invoice at a time, too.     *)
LEMMA SoundAgain ==
    ASSUME TypeOK', \A i \in Id : RowSound(i)' /\ JobSound(i)'
    PROVE  IInv'
  BY DEF IInv, RowSound, JobSound, PassesAreClosed, CopyIsCurrent, CopyKnowsSubmission,
         AnswerIsKept, ReferencesFitStatus, ReferencesOwned, SentIsAccepted, IdsAreFresh

(* So a step of the goroutine of i needs a look at i only.                 *)
LEMMA OneInvoice ==
    ASSUME IInv, TypeOK', NEW i \in Id,
           \A j \in Id \ {i} : invoices'[j] = invoices[j] /\ job'[j] = job[j],
           phase' = phase, nextId' = nextId, KsefGrows,
           RowSound(i)', JobSound(i)'
    PROVE  IInv'
<1>1. \A j \in Id \ {i} : RowSound(j)' /\ JobSound(j)'
  BY IInvPerInvoice, SameRow, SameJob
<1> QED
  BY <1>1, SoundAgain

(* Goto moves the goroutine of i and nothing else.                         *)
LEMMA GotoEffect ==
    ASSUME TypeOK, NEW i \in Id, NEW pc \in Pc, Goto(i, pc)
    PROVE  /\ job'[i].pc = pc /\ job'[i].inv = job[i].inv /\ job'[i].ref = job[i].ref
           /\ \A j \in Id \ {i} : job'[j] = job[j]
  BY DEF TypeOK, SenderTypeOK, Goto, Job

(* Finish ends the goroutine of i and no other.                            *)
LEMMA FinishEffect ==
    ASSUME TypeOK, NEW i \in Id, Finish(i)
    PROVE  /\ job'[i].pc = "none"
           /\ \A j \in Id \ {i} : job'[j] = job[j]
  BY DEF TypeOK, SenderTypeOK, Finish, NoJob

(* Report ends it or goes on to the webhook.                               *)
LEMMA ReportEffect ==
    ASSUME TypeOK, NEW i \in Id, NEW s, Report(i, s)
    PROVE  /\ job'[i].pc \in {"none", "notify"}
           /\ \A j \in Id \ {i} : job'[j] = job[j]
<1>1. CASE Finish(i)
  BY <1>1, FinishEffect
<1>2. CASE job' = [job EXCEPT ![i].pc = "notify", ![i].inv.status = s]
  BY <1>2 DEF TypeOK, SenderTypeOK, Job
<1> QED
  BY <1>1, <1>2 DEF Report

OnlyRow(i) ==
    /\ \A j \in Id \ {i} : invoices'[j] = invoices[j]
    /\ nextId' = nextId

SameContent(i) ==
    /\ invoices'[i].ver = invoices[i].ver
    /\ invoices'[i].ksefId = invoices[i].ksefId

(* UPDATE ... WHERE id = i changes at most the row i.                      *)
LEMMA UpdateEffect ==
    ASSUME TypeOK, NEW i \in Id, NEW row, UpdateRow(i, row)
    PROVE  /\ OnlyRow(i)
           /\ invoices'[i] = IF Live(i) THEN row ELSE invoices[i]
  BY DEF TypeOK, TableTypeOK, UpdateRow, OnlyRow

(* What each statement of the sender leaves of a row, and what it changes. *)
LEMMA StatementEffects ==
    ASSUME TypeOK, NEW i \in Id, NEW ref
    PROVE  /\ UpdatePendingInvoice(i) \/ UpdateRetryInvoice(i) =>
                 /\ OnlyRow(i)
                 /\ Live(i) => /\ SameContent(i)
                               /\ invoices'[i].status = "PENDING"
                               /\ invoices'[i].ref = invoices[i].ref
           /\ UpdateFailedInvoice(i) =>
                 /\ OnlyRow(i)
                 /\ Live(i) => /\ SameContent(i)
                               /\ invoices'[i].status = "FAILED"
                               /\ invoices'[i].ref = invoices[i].ref
           /\ RestoreUnknownInvoice(i) =>
                 /\ OnlyRow(i)
                 /\ Live(i) => /\ SameContent(i)
                               /\ invoices'[i].status = "UNKNOWN"
                               /\ invoices'[i].ref = invoices[i].ref
           /\ UpdateUnknownInvoice(i, ref) =>
                 /\ OnlyRow(i)
                 /\ Live(i) => /\ SameContent(i)
                               /\ invoices'[i].status = "UNKNOWN"
                               /\ invoices'[i].ref = ref
                               /\ invoices'[i].attempts = invoices[i].attempts
                               /\ invoices'[i].callback = invoices[i].callback
           /\ UpdateSentInvoice(i, ref) =>
                 /\ OnlyRow(i)
                 /\ Live(i) => /\ invoices'[i].ver = invoices[i].ver
                               /\ invoices'[i].status = "SENT"
                               /\ invoices'[i].ref = ref
           /\ UpdateWebhookDelivered(i) \/ UpdateWebhookFailed(i) \/ ResetWebhookAttemptCount(i) =>
                 /\ OnlyRow(i)
                 /\ SameContent(i)
                 /\ invoices'[i].status = invoices[i].status
                 /\ invoices'[i].ref = invoices[i].ref
                 /\ invoices'[i].attempts = invoices[i].attempts
                 /\ invoices'[i].callback = invoices[i].callback
<1>1. invoices[i] \in Row
  BY FieldTypes
<1>2. ASSUME UpdatePendingInvoice(i) \/ UpdateRetryInvoice(i), Live(i)
      PROVE  /\ SameContent(i)
             /\ invoices'[i].status = "PENDING"
             /\ invoices'[i].ref = invoices[i].ref
  <2>1. CASE UpdatePendingInvoice(i)
    BY <1>1, <1>2, <2>1, UpdateEffect DEF UpdatePendingInvoice, SameContent, Row
  <2>2. CASE UpdateRetryInvoice(i)
    <3>1. invoices'[i] = [invoices[i] EXCEPT !.status = "PENDING", !.attempts = @ + 1]
      BY <1>2, <2>2, UpdateEffect DEF UpdateRetryInvoice
    <3> QED
      BY <1>1, <3>1 DEF SameContent, Row
  <2> QED
    BY <1>2, <2>1, <2>2
<1>3. ASSUME UpdateFailedInvoice(i), Live(i)
      PROVE  /\ SameContent(i)
             /\ invoices'[i].status = "FAILED"
             /\ invoices'[i].ref = invoices[i].ref
  BY <1>1, <1>3, UpdateEffect DEF UpdateFailedInvoice, SameContent, Row
<1>4. ASSUME RestoreUnknownInvoice(i), Live(i)
      PROVE  /\ SameContent(i)
             /\ invoices'[i].status = "UNKNOWN"
             /\ invoices'[i].ref = invoices[i].ref
  BY <1>1, <1>4, UpdateEffect DEF RestoreUnknownInvoice, SameContent, Row
<1>5. ASSUME UpdateUnknownInvoice(i, ref), Live(i)
      PROVE  /\ SameContent(i)
             /\ invoices'[i].status = "UNKNOWN"
             /\ invoices'[i].ref = ref
             /\ invoices'[i].attempts = invoices[i].attempts
             /\ invoices'[i].callback = invoices[i].callback
  <2>1. invoices'[i] = [invoices[i] EXCEPT !.status = "UNKNOWN", !.ref = ref]
    BY <1>5, UpdateEffect DEF UpdateUnknownInvoice
  <2> QED
    BY <1>1, <2>1 DEF SameContent, Row
<1>6. ASSUME UpdateSentInvoice(i, ref), Live(i)
      PROVE  /\ invoices'[i].ver = invoices[i].ver
             /\ invoices'[i].status = "SENT"
             /\ invoices'[i].ref = ref
  <2>1. invoices'[i] = [invoices[i] EXCEPT !.status = "SENT", !.ksefId = TRUE, !.ref = ref]
    BY <1>6, UpdateEffect DEF UpdateSentInvoice
  <2> QED
    BY <1>1, <2>1 DEF Row
<1>7. ASSUME UpdateWebhookDelivered(i) \/ UpdateWebhookFailed(i) \/ ResetWebhookAttemptCount(i)
      PROVE  /\ SameContent(i)
             /\ invoices'[i].status = invoices[i].status
             /\ invoices'[i].ref = invoices[i].ref
             /\ invoices'[i].attempts = invoices[i].attempts
             /\ invoices'[i].callback = invoices[i].callback
  <2>1. CASE UpdateWebhookDelivered(i)
    BY <1>1, <2>1, UpdateEffect DEF UpdateWebhookDelivered, SameContent, Row
  <2>2. CASE UpdateWebhookFailed(i)
    BY <1>1, <2>2, UpdateEffect DEF UpdateWebhookFailed, SameContent, Row
  <2>3. CASE ResetWebhookAttemptCount(i)
    BY <1>1, <2>3, UpdateEffect DEF ResetWebhookAttemptCount, SameContent, Row
  <2> QED
    BY <1>7, <2>1, <2>2, <2>3
<1>8. /\ UpdatePendingInvoice(i) \/ UpdateRetryInvoice(i) => OnlyRow(i)
      /\ UpdateFailedInvoice(i) => OnlyRow(i)
      /\ RestoreUnknownInvoice(i) => OnlyRow(i)
      /\ UpdateUnknownInvoice(i, ref) => OnlyRow(i)
      /\ UpdateSentInvoice(i, ref) => OnlyRow(i)
      /\ UpdateWebhookDelivered(i) \/ UpdateWebhookFailed(i) \/ ResetWebhookAttemptCount(i) =>
            OnlyRow(i)
  BY UpdateEffect
     DEF UpdatePendingInvoice, UpdateRetryInvoice, UpdateFailedInvoice,
         RestoreUnknownInvoice, UpdateUnknownInvoice, UpdateSentInvoice,
         UpdateWebhookDelivered, UpdateWebhookFailed, ResetWebhookAttemptCount
<1> QED
  BY <1>2, <1>3, <1>4, <1>5, <1>6, <1>7, <1>8

-----------------------------------------------------------------------------
(* Every step keeps the inductive invariant.                               *)

(* A step of the goroutine of i keeps the inductive invariant.             *)
LEMMA GoroutineKeepsIInv ==
    ASSUME IInv, TypeOK', NEW i \in Id, Goroutine(i)
    PROVE  IInv'
<1>0. TypeOK /\ RowSound(i) /\ JobSound(i)
  BY IInvPerInvoice
<1>1. /\ HandleInvoiceFailure(i) \in {"writeFailed", "writeRetry"}
      /\ {"send", "confirm", "writePending", "writeFailed", "writeRetry", "writeUnknown",
          "writeSent", "restoreUnknown", "notify", "markDelivered", "markFailed"} \subseteq Pc
  BY DEF HandleInvoiceFailure, Pc
<1>2. UNCHANGED tableVars => /\ \A j \in Id : invoices'[j] = invoices[j]
                             /\ OnlyRow(i) /\ nextId' = nextId
  BY DEF tableVars, OnlyRow
<1>3. Handling(i) => Live(i) /\ i < nextId
  BY <1>0, FieldTypes DEF JobSound, RowSound, Live, TypeOK, TableTypeOK, Id
<1>4. CASE TakeSlot(i)
  <2>1. /\ FirstStep(i) \in Pc
        /\ Goto(i, FirstStep(i)) /\ At(i, "queued") /\ UNCHANGED tableVars
        /\ UNCHANGED <<submissions, phase>>
        /\ phase \in {"confirming", "sending", "delivering", "paused", "refused"}
    BY <1>4, FirstStepType DEF TakeSlot
  <2>2. /\ phase = "confirming" => FirstStep(i) = "confirm"
        /\ phase = "sending" => FirstStep(i) = "send"
        /\ phase = "delivering" => FirstStep(i) = "notify"
        /\ phase = "paused" => FirstStep(i) = "writePending"
        /\ phase = "refused" => FirstStep(i) \in {"writeFailed", "writeRetry"}
    BY <1>1 DEF FirstStep
  <2>3. RowSound(i)'
    BY <1>0, <1>2, <2>1, SameRow, SameKsef
  <2>4. JobSound(i)'
    BY <1>0, <1>2, <2>1, <2>2, GotoEffect DEF JobSound, Handling, At
  <2> QED
    BY <1>0, <1>2, <2>1, <2>3, <2>4, GotoEffect, OneInvoice, SameKsef
<1>5. CASE SendInvoice(i)
  <2>1. At(i, "send") /\ Handling(i) /\ UNCHANGED tableVars /\ UNCHANGED phase
    BY <1>0, <1>5 DEF SendInvoice, Handling, At, JobSound
  <2>2. CASE \E r \in Ref : /\ Submit(i, job[i].inv.ver, r)
                           /\ job' = [job EXCEPT ![i].pc = "writeUnknown", ![i].ref = r]
    <3>1. PICK r \in Ref : /\ Submit(i, job[i].inv.ver, r)
                           /\ job' = [job EXCEPT ![i].pc = "writeUnknown", ![i].ref = r]
      BY <2>2
    <3>2. /\ job'[i].pc = "writeUnknown" /\ job'[i].ref = r /\ job'[i].inv = job[i].inv
          /\ \A j \in Id \ {i} : job'[j] = job[j]
      BY <1>0, <3>1 DEF TypeOK, SenderTypeOK, Job
    <3>3. KsefGrows /\ Used(r)' /\ submissions'[r].id = i /\ submissions'[r].ver = job[i].inv.ver
      BY <1>0, <3>1, KsefActionsGrow
    <3>4. RowSound(i)'
      BY <1>0, <1>2, <2>1, <3>3, SameRow
    <3>5. JobSound(i)'
      BY <1>0, <1>2, <2>1, <3>2, <3>3 DEF JobSound, Handling, At, Used, NoRef, Ref
    <3> QED
      BY <1>2, <2>1, <3>2, <3>3, <3>4, <3>5, OneInvoice
  <2>3. CASE Goto(i, "writePending") \/ Goto(i, HandleInvoiceFailure(i))
    <3>1. KsefGrows
      BY <1>0, <1>5, KsefActionsGrow, SameKsef DEF SendInvoice
    <3>2. /\ job'[i].pc \in {"writePending", "writeFailed", "writeRetry"}
          /\ job'[i].inv = job[i].inv
          /\ \A j \in Id \ {i} : job'[j] = job[j]
      BY <1>0, <1>1, <2>3, GotoEffect
    <3>3. RowSound(i)'
      BY <1>0, <1>2, <2>1, <3>1, SameRow
    <3>4. JobSound(i)'
      BY <1>0, <1>2, <2>1, <3>2 DEF JobSound, Handling, At
    <3> QED
      BY <1>2, <2>1, <3>1, <3>2, <3>3, <3>4, OneInvoice
  <2> QED
    BY <1>5, <2>2, <2>3 DEF SendInvoice
<1>6. CASE ConfirmInvoice(i)
  <2>1. At(i, "confirm") /\ Handling(i) /\ UNCHANGED tableVars
        /\ UNCHANGED <<submissions, phase>>
    BY <1>0, <1>6 DEF ConfirmInvoice, Handling, At, JobSound
  <2>2. /\ job'[i].pc \in {"writeFailed", "writeSent", "restoreUnknown"}
        /\ job'[i].inv = job[i].inv
        /\ job'[i].pc = "writeSent" => submissions[job[i].inv.ref].verdict = "accepted"
        /\ \A j \in Id \ {i} : job'[j] = job[j]
    BY <1>0, <1>1, <1>6, GotoEffect DEF ConfirmInvoice
  <2>3. RowSound(i)'
    BY <1>0, <1>2, <2>1, SameRow, SameKsef
  <2>4. JobSound(i)'
    BY <1>0, <1>2, <2>1, <2>2 DEF JobSound, Handling, At
  <2> QED
    BY <1>2, <2>1, <2>2, <2>3, <2>4, OneInvoice, SameKsef
<1>7. CASE WritePending(i) \/ WriteRetry(i)
  <2>1. /\ Handling(i) /\ job[i].inv.ref = NoRef /\ UNCHANGED <<submissions, phase>>
        /\ Finish(i)
    BY <1>0, <1>7 DEF WritePending, WriteRetry, Handling, At, JobSound
  <2>2. /\ OnlyRow(i)
        /\ \/ UNCHANGED tableVars
           \/ /\ SameContent(i)
              /\ invoices'[i].status = "PENDING"
              /\ invoices'[i].ref = NoRef
    BY <1>0, <1>2, <1>3, <1>7, <2>1, StatementEffects DEF WritePending, WriteRetry, OrFails, JobSound
  <2>3. RowSound(i)'
    <3>1. CASE UNCHANGED tableVars
      BY <1>0, <1>2, <2>1, <3>1, SameRow, SameKsef
    <3>2. CASE invoices'[i].status = "PENDING" /\ invoices'[i].ref = NoRef /\ SameContent(i)
      BY <1>0, <1>3, <2>1, <2>2, <3>2 DEF RowSound, JobSound, SameContent, OnlyRow, Live, Id, TypeOK, TableTypeOK
    <3> QED
      BY <2>2, <3>1, <3>2
  <2>4. JobSound(i)'
    BY <1>0, <2>1, FinishEffect DEF JobSound, Handling, At
  <2> QED
    BY <1>0, <2>1, <2>2, <2>3, <2>4, FinishEffect, OneInvoice, SameKsef DEF OnlyRow
<1>8. CASE RestoreUnknown(i)
  <2>1. /\ Handling(i) /\ invoices[i].ref # NoRef /\ UNCHANGED <<submissions, phase>>
        /\ Finish(i)
    BY <1>0, <1>8 DEF RestoreUnknown, Handling, At, JobSound
  <2>2. /\ OnlyRow(i)
        /\ \/ UNCHANGED tableVars
           \/ /\ SameContent(i)
              /\ invoices'[i].status = "UNKNOWN"
              /\ invoices'[i].ref = invoices[i].ref
    BY <1>0, <1>2, <1>3, <1>8, <2>1, StatementEffects DEF RestoreUnknown, OrFails
  <2>3. RowSound(i)'
    <3>1. CASE UNCHANGED tableVars
      BY <1>0, <1>2, <2>1, <3>1, SameRow, SameKsef
    <3>2. CASE /\ SameContent(i)
               /\ invoices'[i].status = "UNKNOWN"
               /\ invoices'[i].ref = invoices[i].ref
      BY <1>0, <1>3, <2>1, <2>2, <3>2
         DEF RowSound, JobSound, SameContent, OnlyRow, Live, Used, Id, TypeOK, TableTypeOK
    <3> QED
      BY <2>2, <3>1, <3>2
  <2>4. JobSound(i)'
    BY <1>0, <2>1, FinishEffect DEF JobSound, Handling, At
  <2> QED
    BY <1>0, <2>1, <2>2, <2>3, <2>4, FinishEffect, OneInvoice, SameKsef DEF OnlyRow
<1>9. CASE WriteUnknown(i)
  <2>1. /\ Handling(i) /\ UNCHANGED <<submissions, phase>>
        /\ At(i, "writeUnknown") /\ phase # "delivering"
        /\ phase \notin {"down", "idle", "pending", "hooks"}
    BY <1>0, <1>9 DEF WriteUnknown, Handling, At, JobSound
  <2>2. CASE UNCHANGED tableVars /\ Finish(i)
    <3>1. RowSound(i)'
      BY <1>0, <1>2, <2>1, <2>2, SameRow, SameKsef
    <3>2. JobSound(i)'
      BY <1>0, <2>1, <2>2, FinishEffect DEF JobSound, Handling, At
    <3> QED
      BY <1>0, <1>2, <2>1, <2>2, <3>1, <3>2, FinishEffect, OneInvoice, SameKsef
  <2>3. CASE /\ UpdateUnknownInvoice(i, job[i].ref)
             /\ job' = [job EXCEPT ![i].pc = "confirm", ![i].inv.status = "UNKNOWN",
                                   ![i].inv.ref = job[i].ref, ![i].ref = NoRef]
    <3>1. /\ job'[i].pc = "confirm" /\ job'[i].inv.ref = job[i].ref
          /\ job'[i].inv.ver = job[i].inv.ver
          /\ job'[i].inv.attempts = job[i].inv.attempts
          /\ job'[i].inv.callback = job[i].inv.callback
          /\ \A j \in Id \ {i} : job'[j] = job[j]
      BY <1>0, <2>3 DEF TypeOK, SenderTypeOK, Job, Row
    <3>2. /\ OnlyRow(i) /\ SameContent(i)
          /\ invoices'[i].status = "UNKNOWN"
          /\ invoices'[i].ref = job[i].ref
          /\ invoices'[i].attempts = invoices[i].attempts
          /\ invoices'[i].callback = invoices[i].callback
      BY <1>0, <1>3, <2>1, <2>3, StatementEffects
    <3>3. RowSound(i)'
      BY <1>0, <1>3, <2>1, <3>2
         DEF RowSound, JobSound, SameContent, OnlyRow, Live, Used, Id, TypeOK, TableTypeOK
    <3>4. JobSound(i)'
      BY <1>0, <2>1, <3>1, <3>2 DEF JobSound, Handling, At, SameContent
    <3> QED
      BY <2>1, <3>1, <3>2, <3>3, <3>4, OneInvoice, SameKsef DEF OnlyRow
  <2> QED
    BY <1>9, <2>2, <2>3 DEF WriteUnknown
<1>10. CASE WriteFailed(i) \/ WriteSent(i)
  <2>1. /\ Handling(i) /\ UNCHANGED <<submissions, phase>>
        /\ phase # "delivering" /\ phase \notin {"down", "idle", "pending", "hooks"}
    BY <1>0, <1>10 DEF WriteFailed, WriteSent, Handling, At, JobSound
  <2>2. /\ job'[i].pc \in {"none", "notify"}
        /\ \A j \in Id \ {i} : job'[j] = job[j]
    BY <1>0, <1>10, FinishEffect, ReportEffect DEF WriteFailed, WriteSent
  <2>3. CASE UNCHANGED tableVars
    <3>1. RowSound(i)'
      BY <1>0, <1>2, <2>1, <2>3, SameRow, SameKsef
    <3>2. JobSound(i)'
      BY <1>0, <2>1, <2>2 DEF JobSound, Handling, At
    <3> QED
      BY <1>2, <2>1, <2>2, <2>3, <3>1, <3>2, OneInvoice, SameKsef
  <2>4. CASE WriteFailed(i) /\ UpdateFailedInvoice(i)
    <3>1. /\ OnlyRow(i) /\ SameContent(i)
          /\ invoices'[i].status = "FAILED"
          /\ invoices'[i].ref = invoices[i].ref
      BY <1>0, <1>3, <2>1, <2>4, StatementEffects
    <3>2. RowSound(i)'
      BY <1>0, <1>3, <2>1, <3>1
         DEF RowSound, JobSound, SameContent, OnlyRow, Live, Used, Id, TypeOK, TableTypeOK
    <3>3. JobSound(i)'
      BY <1>0, <2>1, <2>2 DEF JobSound, Handling, At
    <3> QED
      BY <2>1, <2>2, <3>1, <3>2, <3>3, OneInvoice, SameKsef DEF OnlyRow
  <2>5. CASE WriteSent(i) /\ UpdateSentInvoice(i, job[i].inv.ref)
    <3>1. /\ OnlyRow(i) /\ invoices'[i].ver = invoices[i].ver
          /\ invoices'[i].status = "SENT"
          /\ invoices'[i].ref = invoices[i].ref
          /\ invoices[i].ref # NoRef
          /\ submissions[invoices[i].ref].verdict = "accepted"
      BY <1>0, <1>3, <2>1, <2>5, StatementEffects DEF WriteSent, At, JobSound
    <3>2. RowSound(i)'
      BY <1>0, <1>3, <2>1, <3>1
         DEF RowSound, OnlyRow, Live, Used, Id, TypeOK, TableTypeOK
    <3>3. JobSound(i)'
      BY <1>0, <2>1, <2>2 DEF JobSound, Handling, At
    <3> QED
      BY <2>1, <2>2, <3>1, <3>2, <3>3, OneInvoice, SameKsef DEF OnlyRow
  <2> QED
    BY <1>10, <2>3, <2>4, <2>5 DEF WriteFailed, WriteSent
<1>11. CASE NotifyWebhook(i)
  <2>1. /\ At(i, "notify") /\ UNCHANGED tableVars /\ UNCHANGED <<submissions, phase>>
        /\ Goto(i, "markDelivered") \/ Goto(i, "markFailed")
    BY <1>11 DEF NotifyWebhook
  <2>2. RowSound(i)'
    BY <1>0, <1>2, <2>1, SameRow, SameKsef
  <2>3. JobSound(i)'
    BY <1>0, <1>1, <2>1, GotoEffect DEF JobSound, Handling, At
  <2> QED
    BY <1>0, <1>1, <1>2, <2>1, <2>2, <2>3, GotoEffect, OneInvoice, SameKsef
<1>12. CASE MarkDelivered(i) \/ MarkFailed(i)
  <2>1. Finish(i) /\ UNCHANGED <<submissions, phase>>
    BY <1>12 DEF MarkDelivered, MarkFailed
  <2>2. /\ OnlyRow(i)
        /\ \/ invoices'[i] = invoices[i]
           \/ /\ SameContent(i)
              /\ invoices'[i].status = invoices[i].status
              /\ invoices'[i].ref = invoices[i].ref
    BY <1>0, <1>2, <1>12, StatementEffects DEF MarkDelivered, MarkFailed, OrFails
  <2>3. RowSound(i)'
    BY <1>0, <2>1, <2>2 DEF RowSound, SameContent, OnlyRow, Live, Used
  <2>4. JobSound(i)'
    BY <1>0, <2>1, FinishEffect DEF JobSound, Handling, At
  <2> QED
    BY <1>0, <2>1, <2>2, <2>3, <2>4, FinishEffect, OneInvoice, SameKsef DEF OnlyRow
<1> QED
  BY <1>4, <1>5, <1>6, <1>7, <1>8, <1>9, <1>10, <1>11, <1>12 DEF Goroutine

(* The claims: of a claimed row only the status changes, and the copy is   *)
(* the row as it was.                                                      *)
LEMMA ClaimKeepsIInv ==
    ASSUME IInv, TypeOK', NEW from, NEW batch, NEW next,
           \/ from = "UNKNOWN" /\ next = "confirming"
           \/ from = "PENDING" /\ next = "opening",
           batch \subseteq WithStatus(from), Claim(batch), StartBatch(batch, "taskChan"),
           \A i \in Id : At(i, "none"), phase' = next, UNCHANGED submissions
    PROVE  IInv'
<1>1. ASSUME NEW i \in Id PROVE RowSound(i)' /\ JobSound(i)'
  <2>0. TypeOK /\ RowSound(i) /\ JobSound(i) /\ invoices[i] \in Row /\ nextId' = nextId
    BY IInvPerInvoice, FieldTypes DEF Claim
  <2>1. CASE i \in batch
    <3>1. /\ invoices'[i].status = "PROCESSING" /\ SameContent(i)
          /\ invoices'[i].ref = invoices[i].ref
          /\ invoices'[i].attempts = invoices[i].attempts
          /\ invoices'[i].callback = invoices[i].callback
      <4>1. invoices'[i] = [invoices[i] EXCEPT !.status = "PROCESSING"]
        BY <2>1 DEF Claim
      <4> QED
        BY <2>0, <4>1 DEF Row, SameContent
    <3>2. job'[i].pc = "queued" /\ job'[i].inv = invoices[i]
      BY <2>1 DEF StartBatch
    <3>3. invoices[i].status = from
      BY <2>1 DEF WithStatus
    <3>4. RowSound(i)'
      BY <2>0, <3>1, <3>3 DEF RowSound, SameContent, Live, Used
    <3>5. JobSound(i)'
      BY <2>0, <3>1, <3>2, <3>3 DEF RowSound, JobSound, SameContent, Handling, At
    <3> QED
      BY <3>4, <3>5
  <2>2. CASE i \notin batch
    <3>1. invoices'[i] = invoices[i] /\ job'[i] = job[i] /\ At(i, "none")
      BY <2>2 DEF Claim, StartBatch
    <3>2. RowSound(i)'
      BY <2>0, <3>1, SameRow, SameKsef
    <3>3. JobSound(i)'
      BY <3>1 DEF JobSound, Handling, At
    <3> QED
      BY <3>2, <3>3
  <2> QED
    BY <2>1, <2>2
<1> QED
  BY <1>1, SoundAgain

(* The other steps of the loop leave the rows as they are.                *)
LEMMA LoopKeepsIInv == ASSUME IInv, TypeOK', LoopStep PROVE IInv'
<1>0. TypeOK /\ \A i \in Id : RowSound(i) /\ JobSound(i)
  BY IInvPerInvoice
<1>1. ASSUME UNCHANGED tableVars, UNCHANGED submissions, \A i \in Id : JobSound(i)'
      PROVE  IInv'
  BY <1>0, <1>1, SameRow, SameKsef, SoundAgain DEF tableVars
<1>2. CASE CheckUnknownInvoices
  <2>1. \A i \in Id : At(i, "none")
    BY <1>0, <1>2 DEF CheckUnknownInvoices, JobSound
  <2>2. CASE UNCHANGED <<tableVars, job>> /\ phase' = "pending"
    BY <1>1, <1>2, <2>1, <2>2 DEF CheckUnknownInvoices, JobSound, Handling, At
  <2> QED
    BY <1>2, <2>1, <2>2, ClaimKeepsIInv, OldestSubset DEF CheckUnknownInvoices, GetUnknown
<1>3. CASE ClaimPending
  <2>1. \A i \in Id : At(i, "none")
    BY <1>0, <1>3 DEF ClaimPending, JobSound
  <2>2. CASE UNCHANGED <<tableVars, job>> /\ phase' = "hooks"
    BY <1>1, <1>3, <2>1, <2>2 DEF ClaimPending, JobSound, Handling, At
  <2> QED
    BY <1>3, <2>1, <2>2, ClaimKeepsIInv, OldestSubset DEF ClaimPending, GetPending
<1>4. CASE OpenInSession
  BY <1>0, <1>1, <1>4 DEF OpenInSession, JobSound, Handling, At, tableVars, Used
<1>5. CASE SendWebhooks
  <2>1. \A i \in Id : At(i, "none")
    BY <1>0, <1>5 DEF SendWebhooks, JobSound
  <2>2. /\ phase' \in {"delivering", "idle"}
        /\ \A i \in Id : job'[i].pc \in {"none", "queued"}
        /\ phase' = "idle" => \A i \in Id : job'[i].pc = "none"
    BY <1>5, <2>1 DEF SendWebhooks, StartBatch, At
  <2>3. \A i \in Id : JobSound(i)'
    BY <2>2 DEF JobSound, Handling, At
  <2> QED
    BY <1>1, <1>5, <2>3 DEF SendWebhooks
<1>6. CASE PassDone
  <2>1. \A i \in Id : job'[i].pc = "none"
    BY <1>6 DEF PassDone, At
  <2>2. \A i \in Id : JobSound(i)'
    BY <2>1 DEF JobSound, Handling, At
  <2> QED
    BY <1>1, <1>6, <2>2 DEF PassDone
<1> QED
  BY <1>2, <1>3, <1>4, <1>5, <1>6 DEF LoopStep

(* The handlers: they insert a fresh row or change one that is FAILED, and *)
(* no goroutine handles a FAILED row.                                      *)
LEMMA ApiKeepsIInv == ASSUME IInv, TypeOK', Api PROVE IInv'
<1>0. TypeOK /\ \A i \in Id : RowSound(i) /\ JobSound(i)
  BY IInvPerInvoice
<1>1. ASSUME NEW i \in Id, OnlyRow(i), UNCHANGED <<submissions, senderVars>>, RowSound(i)',
             ~Handling(i)
      PROVE  IInv'
  <2>1. JobSound(i)'
    BY <1>0, <1>1 DEF JobSound, Handling, At, senderVars, Used
  <2> QED
    BY <1>1, <2>1, OneInvoice, SameKsef DEF OnlyRow, senderVars
<1>2. ASSUME UNCHANGED tableVars, UNCHANGED <<submissions, senderVars>> PROVE IInv'
  BY <1>0, <1>2, SameRow, SameJob, SameKsef, SoundAgain DEF tableVars, senderVars
<1>3. \A i \in Id : invoices[i].status \in {"FAILED", "ABSENT"} => ~Handling(i)
  BY <1>0 DEF JobSound
<1>4. ASSUME NEW i \in Id, NEW cb \in BOOLEAN, ReplaceInvoice(i, cb), invoices[i].status = "FAILED",
             UNCHANGED <<submissions, senderVars>>
      PROVE  IInv'
  <2>1. OnlyRow(i)
    BY <1>0, <1>4, UpdateEffect DEF ReplaceInvoice
  <2>2. invoices'[i] = [invoices[i] EXCEPT !.status = "PENDING", !.attempts = 0, !.ref = NoRef,
                                          !.callback = cb, !.delivered = FALSE,
                                          !.whAttempts = 0, !.ver = @ + 1]
    BY <1>0, <1>4, UpdateEffect DEF ReplaceInvoice, Live
  <2>3. /\ invoices'[i].status = "PENDING" /\ invoices'[i].ref = NoRef
        /\ invoices'[i].ksefId = invoices[i].ksefId
    BY <1>0, <2>2, FieldTypes DEF Row
  <2>4. RowSound(i)'
    BY <1>0, <1>4, <2>1, <2>3 DEF RowSound, OnlyRow, Live
  <2> QED
    BY <1>1, <1>3, <1>4, <2>1, <2>4
<1>5. ASSUME NEW i \in Id, DeleteRow(i), UNCHANGED <<submissions, senderVars>>
      PROVE  IInv'
  <2>1. OnlyRow(i) /\ invoices'[i] = NoRow
    BY <1>0, <1>5 DEF DeleteRow, OnlyRow, TypeOK, TableTypeOK
  <2>2. RowSound(i)'
    BY <2>1 DEF RowSound, NoRow, NewRow, Live
  <2> QED
    BY <1>1, <1>3, <1>5, <2>1, <2>2 DEF DeleteRow
<1>6. ASSUME NEW e \in Ext, CreateReplace(e) PROVE IInv'
  BY <1>2, <1>4, <1>6, CallbacksAssumption DEF CreateReplace, Replaceable, WithStatus
<1>7. ASSUME NEW e \in Ext, CreateInsert(e) PROVE IInv'
  <2>1. CASE UNCHANGED tableVars
    BY <1>2, <1>7, <2>1 DEF CreateInsert
  <2>2. ASSUME NEW cb \in Callbacks, InsertInvoice(e, cb) PROVE IInv'
    <3>1. /\ nextId \in Id /\ nextId' = nextId + 1
          /\ invoices'[nextId] = NewRow(e, cb)
          /\ \A j \in Id \ {nextId} : invoices'[j] = invoices[j]
      BY <1>0, <2>2 DEF InsertInvoice, TypeOK, TableTypeOK, Id
    <3>2. ASSUME NEW j \in Id PROVE RowSound(j)' /\ JobSound(j)'
      <4>1. UNCHANGED <<submissions, phase, job>>
        BY <1>7 DEF CreateInsert, senderVars
      <4>2. CASE j = nextId
        <5>1. ~Handling(j)
          BY <1>0, <1>3, <4>2 DEF RowSound, Live, TypeOK, TableTypeOK
        <5>2. JobSound(j)'
          BY <1>0, <4>1, <5>1 DEF JobSound, Handling, At, Used
        <5>3. RowSound(j)'
          BY <1>0, <3>1, <4>2 DEF RowSound, NewRow, Live, TypeOK, TableTypeOK
        <5> QED
          BY <5>2, <5>3
      <4>3. CASE j # nextId
        <5>1. JobSound(j)'
          BY <1>0, <3>1, <4>1, <4>3, SameJob, SameKsef
        <5>2. RowSound(j)'
          BY <1>0, <3>1, <4>1, <4>3 DEF RowSound, Used, Live, Id, TypeOK, TableTypeOK
        <5> QED
          BY <5>1, <5>2
      <4> QED
        BY <4>2, <4>3
    <3> QED
      BY <3>2, SoundAgain
  <2> QED
    BY <1>7, <2>1, <2>2 DEF CreateInsert
<1>8. ASSUME NEW e \in Ext, DeleteInvoiceRequest(e) PROVE IInv'
  BY <1>5, <1>8 DEF DeleteInvoiceRequest, DeleteInvoiceExternalId, WithExt
<1>9. ASSUME NEW i \in Id, DeleteDashboardInvoice(i) PROVE IInv'
  BY <1>5, <1>9 DEF DeleteDashboardInvoice, DeleteInvoice
<1>10. ASSUME NEW i \in Id, RetryWebhook(i) PROVE IInv'
  <2>1. /\ OnlyRow(i) /\ SameContent(i) /\ UNCHANGED <<submissions, phase, job>>
        /\ invoices'[i].status = invoices[i].status
        /\ invoices'[i].ref = invoices[i].ref
        /\ invoices'[i].attempts = invoices[i].attempts
        /\ invoices'[i].callback = invoices[i].callback
    BY <1>0, <1>10, StatementEffects DEF RetryWebhook, senderVars
  <2>2. RowSound(i)'
    BY <1>0, <2>1 DEF RowSound, SameContent, OnlyRow, Live, Used
  <2>3. JobSound(i)'
    BY <1>0, <2>1 DEF JobSound, SameContent, Handling, At, Used
  <2> QED
    BY <2>1, <2>2, <2>3, OneInvoice, SameKsef DEF OnlyRow
<1> QED
  BY <1>6, <1>7, <1>8, <1>9, <1>10 DEF Api

(* The end of the process loses all goroutines, the next start recovers    *)
(* the rows they had claimed.                                              *)
LEMMA ProcessKeepsIInv ==
    ASSUME IInv, TypeOK', ExitProcess \/ RestartProcess PROVE IInv'
<1>0. TypeOK /\ \A i \in Id : RowSound(i) /\ JobSound(i)
  BY IInvPerInvoice
<1>1. CASE ExitProcess
  <2>1. \A i \in Id : RowSound(i)'
    BY <1>0, <1>1, SameRow, SameKsef DEF ExitProcess, Exit, tableVars
  <2>2. \A i \in Id : JobSound(i)'
    BY <1>1 DEF ExitProcess, Exit, NoJob, JobSound, Handling, At
  <2> QED
    BY <2>1, <2>2, SoundAgain
<1>2. CASE RestartProcess
  <2>1. ASSUME NEW i \in Id PROVE RowSound(i)'
    <3>1. UNCHANGED <<nextId, submissions>>
      BY <1>2 DEF RestartProcess, Restart, RecoverProcessingInvoices
    <3>2. CASE invoices[i].status # "PROCESSING"
      <4>1. invoices'[i] = invoices[i]
        BY <1>2, <3>2 DEF RestartProcess, Restart, RecoverProcessingInvoices
      <4> QED
        BY <1>0, <3>1, <4>1, SameRow, SameKsef
    <3>3. CASE invoices[i].status = "PROCESSING"
      <4>1. PICK s \in {"UNKNOWN", "PENDING"} :
              /\ s = IF invoices[i].ref # NoRef THEN "UNKNOWN" ELSE "PENDING"
              /\ invoices'[i] = [invoices[i] EXCEPT !.status = s]
        BY <1>2, <3>3 DEF RestartProcess, Restart, RecoverProcessingInvoices
      <4>2. /\ invoices'[i].status = s /\ invoices'[i].ref = invoices[i].ref
            /\ SameContent(i)
        BY <1>0, <4>1, FieldTypes DEF Row, SameContent
      <4> QED
        BY <1>0, <3>1, <3>3, <4>1, <4>2 DEF RowSound, SameContent, Live, Used
    <3> QED
      BY <3>2, <3>3
  <2>2. \A i \in Id : JobSound(i)'
    BY <1>0, <1>2 DEF RestartProcess, Restart, JobSound, Handling, At
  <2> QED
    BY <2>1, <2>2, SoundAgain
<1> QED
  BY <1>1, <1>2

(* The inductive invariant holds in every reachable state.                 *)
THEOREM Invariance == Spec => []IInv
<1>1. Init => IInv
  <2> SUFFICES ASSUME Init PROVE IInv
    OBVIOUS
  <2>1. TypeOK
    BY InitType
  <2>2. ASSUME NEW i \in Id PROVE RowSound(i) /\ JobSound(i)
    BY DEF Init, TableInit, SenderInit, NoRow, NewRow, NoJob, RowSound, JobSound,
           Handling, At, Live
  <2> QED
    BY <2>1, <2>2, IInvPerInvoice
<1>2. TypeOK' /\ IInv /\ [Next]_vars => IInv'
  <2> SUFFICES ASSUME TypeOK', IInv, [Next]_vars PROVE IInv'
    OBVIOUS
  <2>0. TypeOK /\ \A i \in Id : RowSound(i) /\ JobSound(i)
    BY IInvPerInvoice
  <2>1. CASE Api
    BY <2>1, ApiKeepsIInv
  <2>2. CASE SenderStep
    BY <2>2, LoopKeepsIInv, GoroutineKeepsIInv DEF SenderStep
  <2>3. CASE KsefDecides
    BY <2>0, <2>3, KsefActionsGrow, SameRow, SameJob, SoundAgain
       DEF KsefDecides, tableVars, senderVars
  <2>4. CASE ExitProcess \/ RestartProcess
    BY <2>4, ProcessKeepsIInv
  <2>5. CASE UNCHANGED vars
    BY <2>0, <2>5, SameRow, SameJob, SameKsef, SoundAgain DEF vars
  <2> QED
    BY <2>1, <2>2, <2>3, <2>4, <2>5 DEF Next
<1> QED
  BY <1>1, <1>2, TypeCorrect, PTL DEF Spec

(* While the sender handles an invoice, no other actor changes its row:    *)
(* the UPDATEs of cmd/sender.go by id hit the row and the content the      *)
(* goroutine has in memory.                                                *)
THEOREM CopyStaysCurrent == Spec => []CopyIsCurrent
<1>1. IInv => CopyIsCurrent
  BY DEF IInv
<1> QED
  BY <1>1, Invariance, PTL

(* A row that waits to be submitted has no references, and a row that      *)
(* waits for a verdict or has it has some: confirmInvoice never meets an   *)
(* invoice it cannot ask about.                                            *)
THEOREM ReferencesFit == Spec => []ReferencesFitStatus
<1>1. IInv => ReferencesFitStatus
  BY DEF IInv
<1> QED
  BY <1>1, Invariance, PTL

(* The references of a row are those of a submission of the content the    *)
(* row holds, through replacements, recoveries and lost answers.           *)
THEOREM ReferencesAreRight == Spec => []ReferencesOwned
<1>1. IInv => ReferencesOwned
  BY DEF IInv
<1> QED
  BY <1>1, Invariance, PTL

(* An invoice is shown as SENT, or with a KSeF number, only if KSeF has    *)
(* accepted the content it holds.                                          *)
THEOREM SentIsRight == Spec => []SentIsAccepted
<1>1. IInv => SentIsAccepted
  BY DEF IInv
<1> QED
  BY <1>1, Invariance, PTL

(* No step hands KSeF an invoice whose references are stored: the sender   *)
(* only ever asks for the verdict of such an invoice.                      *)
THEOREM NeverResubmitted == Spec => NoResubmission
<1> DEFINE Fresh == \A r \in Ref : ~Used(r) /\ Used(r)' => invoices[submissions'[r].id].ref = NoRef
<1>1. IInv /\ [Next]_vars => [Fresh]_vars
  <2> SUFFICES ASSUME IInv, Next PROVE Fresh
    OBVIOUS
  <2>0. TypeOK /\ \A i \in Id : RowSound(i) /\ JobSound(i)
    BY IInvPerInvoice
  <2>1. UNCHANGED submissions => Fresh
    BY DEF Used
  <2>2. ASSUME NEW i \in Id, SendInvoice(i) PROVE Fresh
    <3>1. At(i, "send") /\ Handling(i)
      BY <2>0, <2>2 DEF SendInvoice, Handling, At, JobSound
    <3>2. invoices[i].ref = NoRef
      BY <2>0, <3>1 DEF JobSound, At
    <3>3. ASSUME NEW r \in Ref, Submit(i, job[i].inv.ver, r) PROVE Fresh
      BY <2>0, <3>2, <3>3 DEF Submit, Used, TypeOK, KsefTypeOK, Submission
    <3> QED
      BY <2>1, <2>2, <3>3 DEF SendInvoice
  <2>3. KsefDecides => Fresh
    BY <2>0 DEF KsefDecides, Decide, Used, TypeOK, KsefTypeOK, Submission
  <2>4. ASSUME NEW i \in Id, Goroutine(i), ~SendInvoice(i) PROVE UNCHANGED submissions
    BY <2>4
       DEF Goroutine, TakeSlot, ConfirmInvoice, WritePending, WriteRetry, WriteFailed,
           WriteUnknown, WriteSent, RestoreUnknown, NotifyWebhook, MarkDelivered, MarkFailed
  <2>5. LoopStep => UNCHANGED submissions
    BY DEF LoopStep, CheckUnknownInvoices, ClaimPending, OpenInSession, SendWebhooks, PassDone
  <2>6. Api \/ ExitProcess \/ RestartProcess => UNCHANGED submissions
    BY DEF Api, CreateReplace, CreateInsert, DeleteInvoiceRequest, DeleteDashboardInvoice,
           RetryWebhook, ExitProcess, Exit, RestartProcess, Restart
  <2> QED
    BY <2>1, <2>2, <2>3, <2>4, <2>5, <2>6 DEF Next, SenderStep
<1> QED
  BY <1>1, Invariance, PTL DEF Spec, NoResubmission

-----------------------------------------------------------------------------
(* The call of WaitForSendingConfirmation in confirmInvoice.               *)

(* What the goroutine that goes on at pc has been told.                    *)
Told(pc) ==
    CASE pc = "writeFailed"    -> "rejected"
      [] pc = "writeSent"      -> "accepted"
      [] pc = "restoreUnknown" -> "deferred"
      [] OTHER                 -> "none"

Call(i) == INSTANCE Confirmation
           WITH verdict <- submissions[job[i].inv.ref].verdict, result <- Told(job[i].pc)

(* ConfirmInvoice is the call as Confirmation describes it, no more and no *)
(* less; that the polling loop is nothing else to its caller is            *)
(* PollingIsOneStep of PollingProofs.                                      *)
THEOREM ConfirmIsOneCall ==
    ASSUME TypeOK, NEW i \in Id, At(i, "confirm"), job[i].inv.ref # NoRef
    PROVE  ConfirmInvoice(i) <=>
              /\ Call(i)!Confirm
              /\ \E pc \in Pc : Goto(i, pc)
              /\ UNCHANGED <<tableVars, submissions, phase, received>>
<1> DEFINE verdict == submissions[job[i].inv.ref].verdict
           Frame == UNCHANGED <<tableVars, submissions, phase, received>>
<1>1. job \in [Id -> Job] /\ job[i].pc = "confirm"
  BY DEF TypeOK, SenderTypeOK, At
<1>2. ASSUME NEW pc \in Pc, Goto(i, pc), Frame
      PROVE  /\ job'[i].pc = pc
             /\ (submissions[job[i].inv.ref].verdict)' = verdict
  <2>1. job'[i] = [job[i] EXCEPT !.pc = pc]
    BY <1>1, <1>2 DEF Goto
  <2>2. job'[i].pc = pc /\ job'[i].inv = job[i].inv
    BY <1>1, <2>1 DEF Job
  <2> QED
    BY <1>2, <2>2
<1>3. ASSUME NEW pc \in Pc, Goto(i, pc), Frame
      PROVE  Call(i)!Confirm <=> \/ verdict \in {"accepted", "rejected"} /\ Told(pc) = verdict
                                 \/ Told(pc) = "deferred"
  <2>1. Told(job[i].pc) = "none"
    BY <1>1 DEF Told
  <2> QED
    BY <1>2, <1>3, <2>1 DEF Call!Confirm, Told
<1>4. \A pc \in Pc : /\ Told(pc) = "rejected" <=> pc = "writeFailed"
                     /\ Told(pc) = "accepted" <=> pc = "writeSent"
                     /\ Told(pc) = "deferred" <=> pc = "restoreUnknown"
  BY DEF Told
<1>5. ConfirmInvoice(i) <=>
         \E pc \in Pc : /\ Goto(i, pc) /\ Frame
                        /\ \/ verdict = "rejected" /\ pc = "writeFailed"
                           \/ verdict = "accepted" /\ pc = "writeSent"
                           \/ pc = "restoreUnknown"
  BY DEF ConfirmInvoice, Pc
<1> QED
  BY <1>3, <1>4, <1>5

=============================================================================
