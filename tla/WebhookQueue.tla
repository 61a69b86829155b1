---------------------------- MODULE WebhookQueue ----------------------------
(***************************************************************************)
(* The table as a queue of webhooks.  The sender reads the rows that are   *)
(* due in the order of updated_at, a batch at a time; every UPDATE of a    *)
(* row moves it to the end.  This module adds the two time columns to      *)
(* InvoiceModel and keeps of the sender only what queues and delivers:     *)
(* how an invoice becomes SENT or FAILED is in module Sender.              *)
(*                                                                         *)
(* updated_at is written in nanoseconds, so no two rows share one, and the *)
(* model keeps which rows have an older one; created_at is                 *)
(* CURRENT_TIMESTAMP, whole seconds, and rows may share one.               *)
(***************************************************************************)
EXTENDS InvoiceModel

CONSTANTS
    WebhookRetries,   \* config.User.Max_retries
    BatchSize,        \* config.SenderBatchSize
    MaxSeconds,       \* bound: seconds that pass
    MaxPresses        \* bound: times the retry button is pressed

ASSUME QueueAssumption ==
    /\ WebhookRetries \in Nat /\ BatchSize \in Nat \ {0}
    /\ MaxSeconds \in Nat \ {0} /\ MaxPresses \in Nat

VARIABLES
    older,       \* of every row, the rows with an older updated_at
    created,     \* created_at of every id
    now,         \* the second it is
    batch,       \* the rows a pass has read and not yet tried
    inline,      \* the rows delivered at the end of their confirmation
    presses,
    overtook     \* history: recorded tries of j from the queue while i waited

timeVars == <<older, created, now>>
passVars == <<batch, inline>>
vars == <<tableVars, timeVars, passVars, presses, overtook>>

NoneOvertook == [j \in Id |-> 0]

Init ==
    /\ TableInit
    /\ older = [i \in Id |-> {}]
    /\ created = [i \in Id |-> 1] /\ now = 1
    /\ batch = {} /\ inline = {}
    /\ presses = 0
    /\ overtook = [i \in Id |-> NoneOvertook]

-----------------------------------------------------------------------------

Rows == {i \in Id : Live(i)}

(* i gets the time of now: no row has a younger one.                       *)
Stamped(i) == older' = [k \in Id |-> IF k = i THEN Rows \ {i} ELSE older[k] \ {i}]

(* updated_at = time.Now(), of the row with this id if there is one        *)
Touched(i) == IF Live(i) THEN Stamped(i) ELSE UNCHANGED older

Due == WebhookDue(WebhookRetries)

(* MUTANTS of Queue: in the order of the ids; the limit is one short.      *)
QueueById == {i \in Due : Cardinality({j \in Due : j < i}) < BatchSize}
QueueShort == {i \in Due : Cardinality(older[i] \cap Due) < BatchSize - 1}

(* GetInvoicesToWebhook: ORDER BY updated_at ASC LIMIT BatchSize           *)
Queue == {i \in Due : Cardinality(older[i] \cap Due) < BatchSize}

Waits(i) == i \in Due /\ i \notin batch

(* A try of j from the queue was recorded: whoever waits was overtaken.    *)
(* Who waits no longer, or is touched, begins anew.                        *)
Overtaken(js, touched) ==
    overtook' = [i \in Id |->
        IF ~Waits(i) \/ i \in touched THEN NoneOvertook
        ELSE [j \in Id |-> IF j \in js THEN overtook[i][j] + 1 ELSE overtook[i][j]]]

-----------------------------------------------------------------------------

(* Bound: the external ids are used in a fixed order, and with a callback; *)
(* a replacement may come without.                                         *)
Insert(e) ==
    /\ InsertInvoice(e, TRUE)
    /\ e = CHOOSE x \in Ext : WithExt(x) = {}
    /\ Stamped(nextId)
    /\ created' = [created EXCEPT ![nextId] = now]
    /\ UNCHANGED <<now, passVars, presses, overtook>>

Replace(i, cb) ==
    /\ i \in WithStatus("FAILED")
    /\ ReplaceInvoice(i, cb)
    /\ Touched(i)
    /\ Overtaken({}, {i})
    /\ UNCHANGED <<created, now, passVars, presses>>

Delete(i) ==
    /\ DeleteInvoice(i)
    /\ older' = [k \in Id |-> IF k = i THEN {} ELSE older[k] \ {i}]
    /\ created' = [created EXCEPT ![i] = 1]
    /\ overtook' = [k \in Id |-> IF k = i THEN NoneOvertook ELSE [overtook[k] EXCEPT ![i] = 0]]
    /\ UNCHANGED <<now, passVars, presses>>

(* The retry button of the dashboard.                                      *)
PressRetry(i) ==
    /\ presses < MaxPresses
    /\ presses' = presses + 1
    /\ ResetWebhookAttemptCount(i)
    /\ Touched(i)
    /\ Overtaken({}, {i})
    /\ UNCHANGED <<created, now, passVars>>

SecondPasses ==
    /\ now < MaxSeconds
    /\ \E i \in Id : Live(i) /\ created[i] = now        \* bound: otherwise nothing can tell
    /\ now' = now + 1
    /\ UNCHANGED <<tableVars, older, created, passVars, presses, overtook>>

(* The confirmation of i ends with SENT or FAILED, and the webhook follows *)
(* in the same goroutine.                                                  *)
Confirmed(i) ==
    /\ invoices[i].status = "PENDING"
    /\ batch = {}                      \* the passes follow each other
    /\ inline = {}                     \* bound: one slot
    /\ UpdateFailedInvoice(i) \/ UpdateSentInvoice(i, 1)
    /\ inline' = IF invoices[i].callback THEN inline \cup {i} ELSE inline
    /\ Touched(i)
    /\ Overtaken({}, {i})
    /\ UNCHANGED <<created, now, batch, presses>>

(* sendWebhooks reads its batch.                                           *)
StartPass ==
    /\ batch = {} /\ inline = {}
    /\ Queue # {}
    /\ batch' = Queue
    /\ overtook' = [i \in Id |-> IF i \in batch' THEN NoneOvertook ELSE overtook[i]]
    /\ UNCHANGED <<tableVars, timeVars, inline, presses>>

(* deliverWebhook, of a batch or inline, with its outcome recorded.        *)
Deliver(i) ==
    /\ i \in batch \cup inline
    /\ UpdateWebhookDelivered(i) \/ UpdateWebhookFailed(i)
    /\ batch' = batch \ {i} /\ inline' = inline \ {i}
    /\ Touched(i)
    /\ Overtaken(batch \cap {i}, {i})
    /\ UNCHANGED <<created, now, presses>>

(* The UPDATE of the outcome fails: the row stays where it is, may head    *)
(* the next batch again, and overtook does not count the try.              *)
DeliverUnrecorded(i) ==
    /\ i \in batch \cup inline
    /\ batch' = batch \ {i} /\ inline' = inline \ {i}
    /\ UNCHANGED <<tableVars, timeVars, presses, overtook>>

(* The process dies and starts again: what was in memory is lost.          *)
Restarted ==
    /\ batch \cup inline # {}
    /\ batch' = {} /\ inline' = {}
    /\ UNCHANGED <<tableVars, timeVars, presses, overtook>>

Api ==
    \/ \E e \in Ext : Insert(e)
    \/ \E i \in Id : \/ Delete(i)
                     \/ PressRetry(i)
                     \/ \E cb \in BOOLEAN : Replace(i, cb)

Next ==
    \/ Api \/ SecondPasses \/ StartPass \/ Restarted
    \/ \E i \in Id : Confirmed(i) \/ Deliver(i) \/ DeliverUnrecorded(i)

(* The sender goes on; a delivery is recorded in the end, although some    *)
(* UPDATEs fail and the process may die now and then.                      *)
Fairness == SF_vars(StartPass) /\ \A i \in Id : SF_vars(Deliver(i))

Spec == Init /\ [][Next]_vars

FairSpec == Spec /\ Fairness

-----------------------------------------------------------------------------
(* Properties.                                                             *)

(* Once the outcome of a row is recorded (UPDATE of updated_at), whoever   *)
(* waits comes before it: with failing receivers, failing UPDATEs,         *)
(* restarts and the retry button in between, a row that waits sees at most *)
(* one recorded try of any other row, and that one is not even taken into  *)
(* a batch again before its turn.  Tries whose UPDATE fails or that a      *)
(* restart cuts off are not counted: the head of the queue repeats those.  *)
NoOvertaking ==
    \A i \in Id : Waits(i) =>
        \A j \in Id : /\ overtook[i][j] <= 1
                     /\ overtook[i][j] = 1 => j \notin batch

(* A row that is due is tried, or stops being due because it was deleted,  *)
(* replaced or delivered by its confirmation, also when the batch is       *)
(* smaller than the queue and the rows before it keep failing.             *)
EveryDueIsTried == \A i \in Id : Waits(i) ~> ~Waits(i)

=============================================================================
