---------------------------- MODULE InvoiceModel ----------------------------
(***************************************************************************)
(* The SQLite table Invoices and the methods of internal/models that read  *)
(* and write it.  A method is one SQL statement or one transaction, so it  *)
(* is one atomic change of the table; a write that fails leaves the table  *)
(* as it was and is modelled by the callers.                               *)
(*                                                                         *)
(* A row keeps the columns some decision depends on.  raw_xml is its       *)
(* version number, session_reference and submission_reference are always   *)
(* written together and are one reference, ksef_id and upo_xml one flag,   *)
(* callback_url whether there is one.  Error texts are left out; the two   *)
(* times are added in module WebhookQueue, and the batches here, ordered   *)
(* by created_at, are in the order of the ids, which grow with it.         *)
(***************************************************************************)
EXTENDS Integers, FiniteSets

CONSTANTS
    Ext,          \* external ids (invoice numbers) used by API clients
    NoExt,        \* external id of a row that does not exist
    MaxId,        \* bound: number of rows ever inserted
    MaxVersion,   \* bound: contents stored in one row, one after another
    MaxRef        \* bound: submissions that KSeF ever takes in

ASSUME ExtAssumption == NoExt \notin Ext
ASSUME BoundAssumption == /\ MaxId \in Nat \ {0}
                          /\ MaxVersion \in Nat \ {0}
                          /\ MaxRef \in Nat \ {0}

Id == 1 .. MaxId
Version == 1 .. MaxVersion
Ref == 1 .. MaxRef
NoRef == 0

(* InvoiceStatus; ABSENT stands for "no row has this id".                  *)
Status == {"ABSENT", "PENDING", "PROCESSING", "UNKNOWN", "SENT", "FAILED"}

Row == [ext : Ext \cup {NoExt}, ver : Version, status : Status,
        ref : Ref \cup {NoRef}, attempts : Nat, ksefId : BOOLEAN,
        callback : BOOLEAN, delivered : BOOLEAN, whAttempts : Nat]

NewRow(e, cb) == [ext |-> e, ver |-> 1, status |-> "PENDING", ref |-> NoRef,
                  attempts |-> 0, ksefId |-> FALSE, callback |-> cb,
                  delivered |-> FALSE, whAttempts |-> 0]

NoRow == [NewRow(NoExt, FALSE) EXCEPT !.status = "ABSENT"]

VARIABLES
    invoices,     \* the table: the row of every id
    nextId        \* AUTOINCREMENT: the id of the next INSERT

tableVars == <<invoices, nextId>>

TableTypeOK ==
    /\ invoices \in [Id -> Row]
    /\ nextId \in 1 .. (MaxId + 1)

TableInit ==
    /\ invoices = [i \in Id |-> NoRow]
    /\ nextId = 1

-----------------------------------------------------------------------------

Live(i) == invoices[i].status # "ABSENT"

WithStatus(s) == {i \in Id : invoices[i].status = s}

WithExt(e) == {i \in Id : Live(i) /\ invoices[i].ext = e}

(* UPDATE Invoices SET ... WHERE id = i: nothing happens if there is no    *)
(* such row, and the status of the row is not looked at.                   *)
UpdateRow(i, row) ==
    /\ invoices' = IF Live(i) THEN [invoices EXCEPT ![i] = row] ELSE invoices
    /\ UNCHANGED nextId

InsertInvoice(e, cb) ==
    /\ WithExt(e) = {}                       \* external_id is UNIQUE
    /\ nextId <= MaxId
    /\ invoices' = [invoices EXCEPT ![nextId] = NewRow(e, cb)]
    /\ nextId' = nextId + 1

(* MUTANT of Replaceable: the UPDATE does not ask for status FAILED.       *)
ReplaceableAny(e) == WithExt(e)

Replaceable(e) == WithExt(e) \cap WithStatus("FAILED")

(* MUTANT of ReplaceInvoice: the references are not reset.                 *)
ReplaceKeepingRefs(i, cb) ==
    /\ invoices[i].ver < MaxVersion
    /\ UpdateRow(i, [invoices[i] EXCEPT
                        !.status = "PENDING", !.attempts = 0,
                        !.callback = cb, !.delivered = FALSE,
                        !.whAttempts = 0, !.ver = @ + 1])

(* Everything but the id, created_at and what KSeF returned is reset.      *)
ReplaceInvoice(i, cb) ==
    /\ invoices[i].ver < MaxVersion
    /\ UpdateRow(i, [invoices[i] EXCEPT
                        !.status = "PENDING", !.attempts = 0, !.ref = NoRef,
                        !.callback = cb, !.delivered = FALSE,
                        !.whAttempts = 0, !.ver = @ + 1])

(* MUTANT of DeleteRow: the DELETE does not ask for status FAILED.         *)
DeleteAnyRow(i) ==
    /\ Live(i)
    /\ invoices' = [invoices EXCEPT ![i] = NoRow]
    /\ UNCHANGED nextId

DeleteRow(i) ==
    /\ invoices[i].status = "FAILED"
    /\ invoices' = [invoices EXCEPT ![i] = NoRow]
    /\ UNCHANGED nextId

DeleteInvoice(i) == DeleteRow(i)

DeleteInvoiceExternalId(e) == \E i \in WithExt(e) : DeleteRow(i)

-----------------------------------------------------------------------------

(* ORDER BY created_at ASC LIMIT n                                         *)
Oldest(S, n) == {i \in S : Cardinality({j \in S : j < i}) < n}

(* MUTANT of GetPending: the limit is one short.                           *)
GetPendingShort(limit) == Oldest(WithStatus("PENDING"), limit - 1)

GetPending(limit) == Oldest(WithStatus("PENDING"), limit)

GetUnknown(limit) == Oldest(WithStatus("UNKNOWN"), limit)

(* The UPDATEs and the COMMIT of GetPendingInvoicesConc and                *)
(* GetUnknownInvoicesConc: the whole batch changes or none of it.          *)
Claim(batch) ==
    /\ invoices' = [i \in Id |-> IF i \in batch
                                 THEN [invoices[i] EXCEPT !.status = "PROCESSING"]
                                 ELSE invoices[i]]
    /\ UNCHANGED nextId

UpdateSentInvoice(i, ref) ==
    UpdateRow(i, [invoices[i] EXCEPT !.status = "SENT", !.ksefId = TRUE, !.ref = ref])

UpdateRetryInvoice(i) ==
    UpdateRow(i, [invoices[i] EXCEPT !.status = "PENDING", !.attempts = @ + 1])

UpdateFailedInvoice(i) == UpdateRow(i, [invoices[i] EXCEPT !.status = "FAILED"])

UpdatePendingInvoice(i) == UpdateRow(i, [invoices[i] EXCEPT !.status = "PENDING"])

UpdateUnknownInvoice(i, ref) ==
    UpdateRow(i, [invoices[i] EXCEPT !.status = "UNKNOWN", !.ref = ref])

(* MUTANT of RestoreUnknownInvoice: a status the program does not know.    *)
RestoreSubmitted(i) == UpdateRow(i, [invoices[i] EXCEPT !.status = "SUBMITTED"])

RestoreUnknownInvoice(i) == UpdateRow(i, [invoices[i] EXCEPT !.status = "UNKNOWN"])

(* MUTANTS of RecoverProcessingInvoices: submitted invoices are recovered  *)
(* as PENDING, too; or are not recovered.                                  *)
RecoverAllAsPending ==
    /\ invoices' = [i \in Id |-> IF invoices[i].status # "PROCESSING" THEN invoices[i]
                                 ELSE [invoices[i] EXCEPT !.status = "PENDING"]]
    /\ UNCHANGED nextId

RecoverUnsubmitted ==
    /\ invoices' = [i \in Id |->
                      IF invoices[i].status # "PROCESSING" \/ invoices[i].ref # NoRef
                      THEN invoices[i]
                      ELSE [invoices[i] EXCEPT !.status = "PENDING"]]
    /\ UNCHANGED nextId

RecoverProcessingInvoices ==
    /\ invoices' = [i \in Id |->
                      IF invoices[i].status # "PROCESSING" THEN invoices[i]
                      ELSE [invoices[i] EXCEPT !.status =
                              IF invoices[i].ref # NoRef THEN "UNKNOWN" ELSE "PENDING"]]
    /\ UNCHANGED nextId

-----------------------------------------------------------------------------

(* MUTANTS of WebhookDue: no limit on the attempts; FAILED is forgotten.   *)
DueForEver(maxAttempts) ==
    {i \in Id : /\ invoices[i].status \in {"FAILED", "SENT"}
                /\ ~invoices[i].delivered
                /\ invoices[i].callback}

DueIfSent(maxAttempts) ==
    {i \in Id : /\ invoices[i].status = "SENT"
                /\ ~invoices[i].delivered
                /\ invoices[i].callback
                /\ invoices[i].whAttempts < maxAttempts}

(* The rows GetInvoicesToWebhook selects from.                             *)
WebhookDue(maxAttempts) ==
    {i \in Id : /\ invoices[i].status \in {"FAILED", "SENT"}
                /\ ~invoices[i].delivered
                /\ invoices[i].callback
                /\ invoices[i].whAttempts < maxAttempts}

(* LIMIT n.  The order is by updated_at, which this module leaves out, so  *)
(* any n of the rows may come first.                                       *)
GetInvoicesToWebhook(maxAttempts, limit) ==
    LET due == WebhookDue(maxAttempts)
    IN  {S \in SUBSET due : \/ S = due /\ Cardinality(S) <= limit
                            \/ Cardinality(S) = limit}

UpdateWebhookDelivered(i) == UpdateRow(i, [invoices[i] EXCEPT !.delivered = TRUE])

UpdateWebhookFailed(i) == UpdateRow(i, [invoices[i] EXCEPT !.whAttempts = @ + 1])

ResetWebhookAttemptCount(i) ==
    /\ Live(i)
    /\ UpdateRow(i, [invoices[i] EXCEPT !.whAttempts = 0])

=============================================================================
