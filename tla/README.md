# ksef-integration in TLA+

A formal model of `ksef-integration`, the Go service that takes invoices over an
HTTP API, keeps them in one SQLite table, submits them to KSeF (the Polish
national e-invoicing system), waits for KSeF's verdict and reports it to the
client's callback URL. The modules are translated from the Go source; the
numbers in parentheses are lines of it. `PROJECT.json` maps every definition to
the lines it stands for and lists components, runs, mutants, findings, hazards
and theorems.

## 1. The system

### Components

| component | state | operations |
|---|---|---|
| invoice table, `internal/models/invoice_model.go` | the table `Invoices` | insert, replace and delete; claim a batch (PENDING or UNKNOWN to PROCESSING); one UPDATE per outcome; recovery at start; the selection and the marks of webhooks |
| sender, `cmd/sender.go` | where the loop is; a WaitGroup, two semaphore channels and one goroutine with a copy of its row per invoice of a batch | every tick: confirm the UNKNOWN, submit the PENDING in one session, send the webhooks that are due |
| webhooks, `cmd/webhook.go` | none of its own | POST the event; mark the row delivered, or count the failed attempt |
| HTTP API and dashboard, `cmd/routes.go` | none between requests, except for the two statements of `createInvoice` | create (replace a FAILED row, else insert), delete by external id or by id, reset the webhook counter; reads |
| start and shutdown, `cmd/main.go` | the process | recover, start the sender and the server; on a signal stop the server, wait for the sender |
| submission and confirmation, `internal/ksef/send.go` | the counter of the polling loop | `SendInvoice`, `WaitForSendingConfirmation`, `DownloadUPO` |
| sessions, `internal/ksef/session.go` | reference, key, vector of one session | open before a batch, close after it |
| authentication, `internal/ksef/auth.go` | session token, refresh token, validities, a mutex | check before every request, refresh, login, redeem with retries |
| encryption, `internal/ksef/encryption.go` | two public keys | AES, RSA, download of the certificates |
| validation and mapping, `internal/ksef/invoice_mapping.go`, `xsd/validator.go` | none | pure checks of one request; XML |
| configuration, `internal/config/config.go` | none | `Validate` fixes the ranges of the limits |
| database, `internal/database/db.go` | connection pool | PRAGMAs, schema |
| access control, rendering, templates | none | stateless |

### How they interact

Everything meets in the table. API requests are served by goroutines of
`net/http`, each statement is atomic, and `createInvoice` is two of them. The
sender is one goroutine; in each of the three parts of a tick it starts one
goroutine per invoice, at most `SenderWorkerLimit` of which work at a time (one semaphore
channel for the calls to KSeF and one for the callbacks), and
waits for all before it goes on. A goroutine works on a *copy* of its row and
writes results back by id, without a look at what the row has become. It calls
KSeF through one shared client whose tokens are guarded by a mutex (reads of
the token are not). The only thing that survives a restart is the table; KSeF and
the callback keep what they have received.

### What is hard

- The sender's UPDATEs have no guard on the status, so that they hit the right
  row depends on every other writer being kept away from rows in flight.
- KSeF may take an invoice in and the answer may be lost; statements may fail
  after KSeF was called; the process may end between any two steps.
- `createInvoice` is not atomic. Inline webhook delivery goes on after the
  outcome is committed, when the row may be replaced already.
- Retry counters (`attempts`, `webhook_attempt_count`, polling attempts, redeem
  attempts) with a comparison each.
- Goroutines that wait for slots, for each other and for the token mutex.
- A shutdown that has to wait for the server, the loop and the batch, in this order,
  while sessions are open at KSeF.
- A mapping that follows pointers without checks of its own, and sums of money in
  floating point.

### What makes the components correct

- *table and sender*: a row in flight is nobody else's; its references belong
  to its content; SENT only for what KSeF accepted; no second submission of what
  has references; the attempts that are counted are limited, and no invoice is given up
  before; nothing claimed is forgotten; every submitted invoice gets its outcome.
- *webhooks*: a callback is never told two outcomes; "delivered" means
  received; the failures that are counted end the attempts; a reset counter leads to another.
- *polling*: the verdict reported is KSeF's; it ends; it pauses.
- *tokens*: requests carry valid ones; no needless refresh; no request hangs.
- *process*: it ends when told to, and cleanly; no accepted configuration panics, unless its
  seconds overflow a `time.Duration` (section 6); sessions are closed, or it is known why not.
- *queue and dashboard*: the queue of webhooks is fair; pages show every row once and
  hide none.
- *validation and mapping*: what passes the checks can be mapped; amounts balance in
  the XML, but for the rounding of fractions of a cent; parties (NIP, name, address), payment
  and correction are carried as sent; NIPs with typos are refused.
- *service*: the promise of `Lifecycle`.

## 2. The modules

```
Lifecycle                      what the service promises (abstract)
   ^ refined by (PROPERTY KeepsPromise)
InvoiceModel -> Ksef -> Sender -> Service -> MCService     (EXTENDS, left to right)
InvoiceModel -> TableProofs                                lemmas on the table's operators
Service, TableProofs -> ServiceProofs -> OutcomeProofs
InvoiceModel -> WebhookQueue -> Dashboard -> MCWebhooks    the table with its times
Dashboard, TableProofs -> QueueProofs
Durations -> Process -> MCProcess, ProcessProofs
                                         start, loop, sessions, shutdown
Durations, Confirmation -> Polling -> MCPolling, PollingProofs
                                         inside of the step ConfirmInvoice
Auth -> MCAuth, AuthProofs               in front of every call to KSeF
Amounts, Nip -> InvoiceMapping -> MCInvoice, InvoiceProofs
                                         one POST /invoices up to the insert
```

**InvoiceModel** is the table: a function from ids to rows, an absent row having
status `ABSENT`. One operator per method of the Go type, with the WHERE clause as
guard or as `Live(i)`. A row keeps the columns on which some decision depends;
the header says which columns are merged. The content (`raw_xml`) is a version
number that `ReplaceInvoice` raises. In `Service` the times are left out: batches to submit or confirm are in the order of the
ids, which grow with `created_at`, and any choice of due webhooks may come first.

**Ksef** is external: what KSeF took in under each reference, and its verdict,
which comes at any time and never changes.

**Sender** is the loop (`phase`) and the goroutines (`job`): `pc` is what a
goroutine does next, `inv` its copy of the row, `ref` the references it was
given but has not stored, `chan` the semaphore channel it uses. Calls to KSeF and callbacks and statements are separate
steps.

| code | module |
|---|---|
| `startSender`, `sendInvoice`, `checkUnknownInvoices`, `sendWebhooks` | `CheckUnknownInvoices`, `ClaimPending`, `OpenInSession`, `SendWebhooks`, `PassDone` |
| `go func() { sem <- ... }` | `TakeSlot`, with `Holders`, `SlotFree` and `FirstStep` |
| `processInvoice` | `SendInvoice`, `WritePending`, `WriteUnknown`, `HandleInvoiceFailure` |
| `handleInvoiceFailure` | `HandleInvoiceFailure`, `WriteRetry`, `WriteFailed` |
| `confirmInvoice` | `ConfirmInvoice`, `RestoreUnknown`, `WriteFailed`, `WriteSent`, `Report` |
| `deliverWebhook`, `notifyWebhook` | `NotifyWebhook`, `MarkDelivered`, `MarkFailed`, `EventOf` |
| `main`, `RecoverProcessingInvoices` | `Restart`, `Exit` |

When the session cannot be opened the loop treats the batch itself, one invoice
after the other: phases `paused` (network) and `refused` (any other error) use
the same goroutine steps, in the order of the ids.

**Service** adds the handlers that write and states the properties. A failing
database on the API side changes nothing and is a stuttering step. In
`inserting` are the external ids for which a `createInvoice` has found nothing to
replace and not inserted yet; a set is enough, as several such requests for one id
differ in nothing.

**Lifecycle** is the promise: an invoice is open, then sent for ever or failed;
only a failed one is replaced or removed; only the content of an open one is
offered to KSeF; sent means accepted. `Service!KeepsPromise` is the refinement,
`StageOf` its mapping (PENDING, PROCESSING and UNKNOWN are "open").

**Polling** opens up the step `ConfirmInvoice`: the loop of
`WaitForSendingConfirmation` with all replies `getInvoiceStatus` tells apart,
where the last attempt is special for some and not for others. In `Sender` the
step is atomic: its outcome depends on the verdict at one moment only, the last reply.
`Retry-After` is any integer, as `Atoi` reads it; **Durations** is the product
`time.Duration(s) * time.Second` of 64 bits, which wraps around.
**Confirmation** is this step by itself. `Polling!ConfirmsAtOnce` is the refinement, and
`ConfirmIsOneCall` of ServiceProofs shows that `ConfirmInvoice` is the same step.

**Auth** is `ExecuteRequestTokenCheck`. A token is the moment of its expiry. While
a goroutine is about to store a token (`pc = "store"`), another that reads it
without the mutex races with the write: it gets the old token, the new one, or
`Torn`, the pointer of one and the length of the other. The requests before
`redeemToken` have one outcome together; the mutex is held meanwhile.

**Process** is `main`, `startSender` and the frame of the three passes. A batch is two
numbers: goroutines waiting for a slot and goroutines in a call. A config is the
seconds and limits the process itself uses, and one flag for the rest of `Validate`; the
seconds become Durations as in the code.
`session` is `inSession.InSessionRef`, `openAtKsef` what is open over there, and
`excused` a history variable: the open sessions of which an answer was lost, or which
a previous process left. `docker-compose.yaml` restarts the process however it ended.

| code | Process |
|---|---|
| `main`, in its order | `Configure`, `Recover`, `Signal`, `BeginShutdown`, `ServerStopped` or `ShutdownTimesOut`, `End` |
| `startSender` | `SenderStarts`, `Tick`, `SenderStops` |
| `sendInvoice` | `LoadPending`, `OpenInSession` or `OpenFails`, `TakeSlot`, `CallAnswered`, `CallTimesOut`, `SendEnds`, `CloseInSession` |
| `checkUnknownInvoices`, `sendWebhooks` | `TakeSlot`, the calls, `ConfirmEnds`, `WebhooksEnd` |

**WebhookQueue** adds to the table `updated_at` (`older`: for each row, the rows with an
older one; each UPDATE makes the row the youngest) and `created_at` (whole seconds, as `CURRENT_TIMESTAMP`
gives them, so that rows tie). It keeps of the sender what reads the queue and
writes the outcome; how an invoice becomes SENT or FAILED is one step (`Confirmed`).
`overtook` is a history variable: how many recorded tries of another row a waiting one has seen.

**Dashboard** computes pages from that table: the WHERE clause, ORDER BY with
ties, LIMIT of one more than a page, OFFSET with the product wrapped as an int.

**InvoiceMapping** is one request to `createInvoice`, from the decoded document to the
insert. A document is the record of `InvoiceReceived`; a text that is only carried
along is whether it is given. The checks are one operator per group of conditions,
in the order of the code, which does not matter as they change nothing but the country codes
(`WithDefaults`) and any failure refuses the invoice. `NilDereferenced` collects the
pointers `TransformToXML` follows without a check; Go would panic (`net/http` recovers from
it, the client gets no answer).

**Amounts** is float64 as far as invoices need it: amounts arrive in mills, thousandths of the
currency unit, since nothing in the code asks for whole cents; a double is a number of mills and
its error in units of 2^-59 mills, exactly; sums round to nearest, ties to even, and `Printed` is
`"%.2f"`, the nearest cents. The amounts of a document are functions on the places of the entries that have one, summed in their order.
**Nip** is the check digit.

**MCService**, **MCAuth**, **MCProcess**, **MCPolling**, **MCWebhooks** and **MCInvoice** give constants their values. Operators
marked *MUTANT of X* are X with a plausible bug; no specification uses them. Each
property has one that must break it (`PROJECT.json`, "mutants").

## 3. What TLC checks

| run | states | shows |
|---|---|---|
| `replaced` | 1.13M | safety of one external id over two rows, two contents, two submissions, one retry, with lost answers, failing statements, crashes, callbacks; and `KeepsPromise` |
| `concurrent` | 1.04M | three rows in a batch on two slots: `IInv`, `NoneStranded` |
| `progress` | 165k | two rows with callbacks, one slot in each channel, one submission: `WorkersBounded`, and liveness: `TicksEnd`, `PendingIsTaken`, `VerdictIsLearnt` |
| `polling` | 804 | three attempts, all replies in all orders, eight values of `Retry-After`; with its liveness |
| `tokens` | 504k | two goroutines share the tokens through several refreshes and logins |
| `webhooks` | 144k | three rows of two external ids, a batch of one, a page of one, ties of `created_at`: `NoOvertaking`, `EveryDueIsTried`, `PagesPartition`, `RowsNeverHidden` |
| `process` | 3,249 | eleven configurations, two goroutines, one request, two sessions: safety of start and shutdown, `StopsAfterSignal` |
| `invoice` | 37k | nine families of documents, see below |
| `failed_not_sent`, `stale_delivered`, `no_retries`, `totals` | | findings (section 6): the statement of a text in the repository, violated |

Bounds. `MaxId`, `MaxVersion`, `MaxRef` bound ids, contents and submissions ever
used; at the bound the operation is simply not offered. Two contents and two ids
for one external id are what a stale copy, reference or webhook mark needs to
be confused with another; two submissions allow one resubmission. `Max_retries` is 1
where retries matter (first failure, last failure) and 0 where other invoices
do. Three invoices on two slots make one wait. Three polling attempts are a first,
a middle and a last one. In `tokens` a margin of 2, a life of 3 and seven ticks
let tokens come due, be refreshed, and refresh tokens expire. `DbErrors` is FALSE in
`concurrent` because `NoneStranded` is not true otherwise (the code
only logs a failed UPDATE; the invoice waits for the next start), and in the
liveness runs for the same reason. Symmetry (of external ids, on which
nothing depends but equality) is used in `concurrent` only, which has no liveness.
`progress` has callbacks, so that a tick is all three passes: `TicksEnd` is about each of them, and
`WorkersBounded` about passes that fill a channel of their own. One of its two invoices is submitted,
once; resubmission is in `replaced` and `concurrent`.
`polling`, `invoice`, `totals` and `webhooks` switch off the deadlock check: the loop and the
request end, and when all ids are used and every row is delivered and deleted nothing is
left to do.

In `process` two goroutines on one slot make one wait; two sessions let an old one
be open at KSeF beside the batch's; the configurations are the smallest right one, one with
two slots, one per field wrong by one, and one per number of seconds that overflows a
Duration (`Second` is 10 and `DurationBound` 64 in `process` and `polling`, so that six seconds
fit and seven wrap to a negative Duration). In `webhooks`, three rows behind a batch of one are what
overtaking needs, one press of the button and two retries let rows become due again;
`MaxInt` is 8 instead of 2^63, far above the pages that exist. `invoice` varies
each part of a correct invoice through all its cases, the parts that checks relate
together: parties, corrections, payments, currencies, the limits of receipts, lines
and rates with right and wrong sums, fractions of a cent that are rounded up, down and to even,
and every typo of three NIPs. Amounts and their sums are below 1024 currency units (`MaxScale` is
19): TLC's integers have 32 bits. `RangeAssumption` says that no sum of a document leaves the
range, and the proofs hold for ranges up to 2^25 (`ScaleAssumption`).

Fairness (`Service!Fairness`): the loop and the goroutines are scheduled by the
Go runtime, and each of their steps ends because every `http.Client` in the
code has a timeout; main is assumed to be started again after it ends.
`KsefFairness` is an assumption about the environment: KSeF decides, and of
infinitely many confirmations one gets through. API requests need no
fairness. The liveness properties are stated for executions in which the process
ends finitely often (`StaysUp`): one that is killed in every tick makes no
progress. `VerdictIsLearnt` holds across restarts, though: the invoice may have
been claimed or confirmed by an earlier process. In `Auth`, `SF_vars(Acquire(w))`
is Go's starvation-free mutex. In `Process`, main and the sender run on, a call ends at its
timeout (`CallTimesOut`, only if there is one: a property of `Validate`) and `srv.Shutdown` at
its own; no answer, request, signal or restart has to come. `SenderStops` is strongly fair
because `select` chooses at random between the signal and a tick that is due. In
`WebhookQueue`, `SF_vars(Deliver(i))` says that the UPDATEs of an outcome do not fail for ever
and that the process is not killed in every delivery; without it the head of
the queue would be delivered again and again and never recorded.

`PendingIsTaken` is true because in its run a batch holds all invoices that wait.
With smaller batches, rows put back keep their place in `created_at` order and can
keep younger ones waiting; see the plan.
The queue of webhooks does not have this weakness, as `EveryDueIsTried` shows.

## 4. What is proved

TLAPS proves, for all values of the constants that satisfy the named
assumptions (`ExtAssumption`, `BoundAssumption`, `ConfigAssumption`,
`CallbacksAssumption`; `QueueAssumption`, `PageAssumption`; `WorkerAssumption`,
`TimeAssumption`; `LimitAssumption` and `ConfigAssumption` of Process; `DurationAssumption`;
`AttemptsAssumption`, `DelayAssumption`, `OtherAssumption`, `RetryAfterAssumption`; `NilAssumption`,
`ReceivedAssumption`, `ScaleAssumption`, `RangeAssumption`), every safety invariant, action
property and refinement the runs check:

| theorem (ServiceProofs) | property |
|---|---|
| `TypeCorrect`, `Invariance` | `TypeOK`, `IInv` |
| `CopyStaysCurrent` | `CopyIsCurrent` |
| `ReferencesFit` | `ReferencesFitStatus` |
| `ReferencesAreRight` | `ReferencesOwned` |
| `SentIsRight` | `SentIsAccepted` |
| `NeverResubmitted` | `NoResubmission`, an action property |

| theorem (OutcomeProofs) | property |
|---|---|
| `NobodyIsStranded`, if the database does not fail | `NoneStranded` |
| `WorkersAreBounded` | `WorkersBounded` |
| `EventsAreSound`, `EventsAreConsistent` | `OutcomeProofs!EventsSound`, `EventsConsistent` |
| `DeliveredWasReceived` | `DeliveredIsReceived` |
| `RetriesAreCounted` | `RetriesCounted`, an action property |
| `CallbacksAreLimited` | `CallbacksLimited`, an action property |
| `ServiceKeepsPromise` | `KeepsPromise`, the refinement of Lifecycle |

| theorem (TableProofs, QueueProofs) | property |
|---|---|
| `OldestAreFirst` | of `Oldest`: a batch is full and leaves out only younger rows |
| `QueueTypeCorrect`, `QueueInvariance` | `QueueProofs!TypeOK`, `IInv` |
| `QueueIsAllowed` | `Queue` is one of the batches that `GetInvoicesToWebhook` allows |
| `NobodyOvertakesTwice` | `NoOvertaking` |
| `NoRowIsHidden` | `RowsNeverHidden`, an action property |
| `EveryRowOnOnePage`, if ids fit into an int | `PagesPartition` |

| theorem (AuthProofs) | property |
|---|---|
| `AuthInvariance` | `Auth!IInv` |
| `RefreshIsDue` | `RefreshesOnlyDue` |
| `TokensAreValid` | `CarriesValidToken` |

| theorem (ProcessProofs) | property |
|---|---|
| `ProcessInvariant`, `ProcessTypes` | `ProcessProofs!IInv`, `TypeOK` |
| `ProcessNeverPanics` | `NeverPanics` |
| `SessionsAlwaysAccounted` | `EverySessionAccounted` |
| `EndIsClean` | `CleanEnd` |
| `AlwaysClearedAfterUse` | `ClearedAfterUse`, an action property |

| theorem (PollingProofs) | property |
|---|---|
| `PollingInvariant`, `PollingTypes` | `PollingProofs!IInv`, `TypeOK` |
| `PollingTellsTheVerdict` | `ResultIsVerdict` |
| `PollingGivesUpLate` | `GivesUpLate` |
| `PollingIsOneStep` | `ConfirmsAtOnce`, the refinement of Confirmation |
| `ConfirmIsOneCall` (ServiceProofs) | of `Sender!ConfirmInvoice` |
| `PollingPauses` | `AsksWithPauses`, an action property |

| theorem (InvoiceProofs) | property |
|---|---|
| `OneWrongIsRefused`, `SwapIsRefused`, `NoTypo` | of `validateNIP` |
| `InvoiceInvariant` | `InvoiceProofs!IInv` |
| `NilNeverDereferenced` | `NoNilDereference` |
| `PlnTaxAlwaysIffForeign` | `PlnTaxIffForeign` |
| `ClientDataAlwaysCarried` | `ClientDataCarried` |
| `TyposNeverAccepted` | `NoTypoAccepted` |
| `RoundedIsNearest`, `ScaleIsRight` | of `Rounded`: the nearest double |
| `PrintedIsNearest` | of `Printed` and `FloatSum`: the cents printed are those nearest to the double |
| `SameDoubleSamePair` | of `FloatSum`: comparing pairs is comparing doubles |
| `TotalsAlwaysCarried` | `TotalsCarried` |

*Service.* The heart is `CopyIsCurrent`: while a goroutine handles an invoice, its
row is in flight and equal to the copy in what matters. It is not inductive
alone. That the row stays in flight needs `PassesAreClosed` (no goroutine
outlives its pass, so no row is claimed twice); that what is written keeps
`ReferencesFitStatus` needs `CopyKnowsSubmission` (a goroutine that may put the row
back to PENDING has no references, one that asks for a verdict has); that
SENT means accepted needs `AnswerIsKept` (between the answer of KSeF and the UPDATE
the answer stays true); and that no stale row is hit by an INSERT needs
`IdsAreFresh`. `IInv` is their conjunction. API steps keep it because
replace and delete require FAILED, which is not in flight. `NoResubmission`
follows from `IInv` in one step: a goroutine that submits has a current copy without
references.

*What the service tells* (OutcomeProofs). First every step is shown to be of one of a few kinds:
a goroutine moves, leaves its invoice open, settles it, gives up, tells the callback or
records what came of it; the loop claims or picks up; a handler inserts, replaces, removes or
resets. The invariants are then checked against the kinds, not the actions.

- `NoneStranded` alone is not inductive, as a goroutine exists that only reports an
  earlier outcome; `ClaimedAreHandled` says that a claimed invoice has one that will submit
  or confirm it. Each way out of `Handling` is a write of the row, unless the statement
  fails: that is why the theorem has `~DbErrors` as its hypothesis.
- `WorkersBounded` counts a set, over both channels. Each channel limits its own holders only;
  that they do not add up is that all who work are of one pass, and so of one channel, which
  `SlotsTaken` says. It also adds that in the phases `paused` and `refused` at
  most one goroutine works, the one that follows the loop; a slot taken adds one element, every
  other step adds none.
- `EventsConsistent` and `DeliveredIsReceived` need to know what will still be told. An
  outcome is told from the *copy*, when the row may have been replaced or deleted.
  `EventsSound` says that a copy that is about to be reported has a final status that was
  the row's (`TrueEvent`), that its content is not newer than the row's, that what is received
  agrees with it and with the row as long as the row has this content, and that nothing was
  received of contents to come. Ids that are not used again (`IdsAreFresh`) keep a new row apart
  from the events of a deleted one.
- `RetriesCounted` says which step counts an attempt and that no other touches the counter while
  the row keeps its content. `HandleInvoiceFailure` compares *the copy's* attempts, and the copy
  is current; who gives up without references has used up `Max_retries`. It is no limit on
  submissions: put-backs without network, after error 21180, with an unreachable session, by the
  recovery, and those whose UPDATE fails, are not counted by the code.
- `CallbacksLimited` says when a callback is *called*, recorded or not. A late failure may be
  counted for the content that replaced the one reported, at most once before the new content
  has an outcome; so the limit is on `Max_retries` failures, or two. Calls whose outcome
  is not recorded are not counted by the code either, and have no limit.
- `ServiceKeepsPromise`: under the mapping `StageOf`, what a goroutine settles is `Fail` or `Send`,
  what it submits is `Offer`, a replacement, an insert, a delete are `Replace`, `Create`, `Remove`,
  KSeF's acceptance is `Accept`, and all else (claims, retries, restarts, webhooks, exits)
  changes nothing Lifecycle sees. That a goroutine settles an *open* invoice, and offers the
  content of the row, is `CopyIsCurrent`; that `sent` follows the acceptance is `AnswerIsKept`; that
  `Create` starts with content 1 is that an unused id has no row (`EventsSound`).

*The queue and the pages* (QueueProofs). `IInv` says that `older` orders the rows (`OrderSound`),
that the next id is fresh, and who overtook whom (`TurnsSound`): if a try of j was recorded while i
waits, j is in no batch, and has got a younger time than i or is deleted. A pass reads the
first of the due; if it read j, all before j are fewer than a batch, and those before i are
among them, so i would have been read as well. An order on a finite set gives every
element its own place, which `PlacesAreUnique` shows once for the queue, for the batches in
the order of the ids, and for the list of the dashboard. With it, page p shows the rows of the
ranks from `(p - 1) * PageSize` to `p * PageSize - 1`, and division finds the page of a row.
`RowsNeverHidden` rests on `created_at` never changing. `QueueIsAllowed` connects two models: Service leaves
the order of `updated_at` out and lets a pass take any batch of the due, and the ordered
queue is one of those.

TLC checked the strengthenings on the instances of `replaced`, `concurrent` and `progress`
(`ClaimedAreHandled`, `SlotsTaken`, `EventsSound`, `AttemptsSound`) and of `webhooks` with
batches of one and of two (`QueueProofs!IInv`) before they were proved.

*Auth.* `RefreshesOnlyDue` says that whoever refreshes holds the mutex and the
token is still due; it rests on `MutexHeld`. `CarriesValidToken` needs
`TokensLast`: the token a goroutine made sure of, *and* any token somebody else is
about to store when it reads, lasts for `Margin` from the check. Assumed are that
KSeF's tokens live at least as long as the margin of two minutes (`Life >= Margin`;
otherwise every request would log in), that the clocks agree, and that the time from the
check to the request is below the margin (`Tick`).

*Process.* `IInv` says which goroutines there are in each phase. `EverySessionAccounted`
needs that there is a session reference only between `OpenInSession` and
`CloseInSession` (else a later batch could overwrite one), and `ClearedAfterUse` that outside
the passes no goroutine of a batch is alive: `wg.Wait` stands in front of every step that
leaves one. `NeverPanics` needs `Validate(config)` from the recovery on, and that
the product with `Second` does not wrap if the seconds fit (`SecondsFit`); a config holds any
integers.

*Polling.* While the loop goes on, the last reply told no verdict (`SaysAccepted`,
`SaysRejected`), so the reply that ends it is the one that decides; and whoever sleeps does so
for the Duration of the polling delay, or of what KSeF said, which are as long as the seconds
if these fit. `PollingIsOneStep` and `ConfirmIsOneCall` together
justify that Service has no polling: the loop implements Confirmation, one step that returns
the verdict of its moment or none, and `ConfirmInvoice` is exactly that step.

*Nip.* The weights are invertible modulo 11, and differ for neighbouring places, which 11, a
prime, keeps apart; the proof is by cases on the place, with the difference of two
weighted sums as a multiple of 11. *Invoice.* `IInv` says that the document after
`Accept` is `Mappable`, the consequence of all checks with the defaults filled in, on
which every pointer depends, and that the XML is `Faktura` of it. Assumed are that
`Received` consists of documents of the type that JSON decodes to, and that `Nil` is none of
the values it is the absence of.

*Sums.* `TotalsCarried` needs sums over lists of any length. The folds of the library are recursive
functions on finite sets of places; `SubsetInduction` gives induction over the subsets of such a
set (a smallest counterexample, by the library's `WFMin`), first for the existence
of the function (`FloatSumExists`), then for what it computes. In `FloatSum` the mills add up exactly
(`FloatSumIsExact`), in any order (`SumsAgree`); a sum over all places is the sum over the groups of the
sums in them (`GroupsCarrySum`), as every rate of a breakdown has a field. So what
`TotalsOK` compares are exact sums, and those of P_13 and P_14, before they are printed, are the sums
of all breakdowns. `Printed` moves each of them by at most half a cent (`PrintedIsClose`), and a
number of whole cents not at all (`SumIsWhole`); `SumsClose` adds that up over the fields.

That `Printed` is what the program *prints*, and that comparing pairs is
comparing doubles, is a matter of the errors. `RoundedIsNearest` says that `Rounded` takes an exact
result to the nearest multiple of the spacing, the even one of two (the residue of 2^59 mills by
cases on the scale), `ScaleIsRight` that this spacing is the one of float64 in the range of
`MaxScale`, provided the error is below 1/128 mill.
An addition is then off by at most half of the widest spacing, parsing by another half
(`PlusErrs`), so after 2048 amounts the sum is off by less than that (`SumsErrLittle`):
the cents nearest to the mills are those nearest to the double, ties decided by the error
(`PrintedIsNearest`), and no double has two such pairs (`SameDoubleSamePair`). For documents with more
entries, larger sums or more than three decimals the theorems say nothing about the program.

Only model-checked is liveness (`TicksEnd`, `PendingIsTaken`, `VerdictIsLearnt`, `Ends`,
`RequestsEnd`, `StopsAfterSignal`, `EveryDueIsTried`): liveness under fairness and ENABLED are
out of this prover's reach.

## 5. Not modelled

Reads of a single row and health, HTTP responses, access control, templates: no state.
Encryption and certificates: library calls whose failure is among the outcomes modelled.
The XSD: `CheckSchema` accepts or refuses, whatever the document. Loading YAML: I/O. Error
texts: no decision depends on them (so the stale `error_message` of an accepted event,
cmd/webhook.go:45, is a hazard without a property). The webhook's HTTP attempt is one step.
SQLite itself: a statement is atomic, and a write that fails changes nothing.
`UpdateSentInvoice` and the UPO: the UPO is part of the success. Amounts with more than three
decimals. Email and phone of a party are in the model of a document, but the mapping has no
place for them: the code drops them without an error, and `ClientDataCarried` leaves them out, as
it does the buyer of a correction that names another one. Which of two statements of different connections meets
SQLITE_BUSY: any may fail.

## 6. Where texts in the repository and code disagree

1. `failed_not_sent`: FAILED is shown as "Niewysłane" (not sent), but an unreadable answer to a
   submission is handled as a failure, after KSeF took the invoice in.
2. `stale_delivered`: an inline delivery that races with a replacement marks the *new*
   content as delivered; its outcome is never reported.
3. `no_retries`: with `max_retries: 0`, which `Validate` allows, the webhook retry
   button has no effect.
4. `totals`: an invoice of two lines at one rate (zw), 0.10 and 0.20, with a breakdown of 0.30
   and a total of 0.30, is refused for "logical errors", because 0.1 + 0.2 is not 0.3 in float64
   and `!=` compares the sum of the lines with the breakdown (invoice_mapping.go:208). The
   documents of the run have one rate without tax, so that no other sum can fail.

Met while modelling, without a run:

- send.go:160, "added processing just in case (102)": the code knows 100 and 150, and 102
  ends the polling as a bad response. The invoice is asked for again in the next tick.
- invoice_mapping.go:14, "currencies and country codes will be validated just by checking their
  length and whether they're upper case letters": the length of the currency is checked,
  nothing else.
- session.go:78, "always remove the details": `CloseInSession` clears the reference; key and
  vector stay in the struct.
- config.go:83: `Validate` asks for a `polling_interval` of at least 1, and lets pass seconds from
  9223372037 on, which wrap `time.Duration`; a negative product makes `NewTicker` panic
  (sender.go:17). An HTTP timeout that wraps to zero or less is none. `NeverPanics` and
  `StopsAfterSignal` except these configurations by `SecondsFit`.
- invoice_mapping.go:250 and 422: every sum is printed with `%.2f` on its own. zw 0.005 + oo 0.005
  with total 0.01 is accepted and printed as 0.01 and 0.01 with P_15 0.01 (`TotalsCarried`).
- The rate 3 is summed up in P_13_3, which the XSD documents as the reduced rate of
  currently 5%.

## 7. Plan

Done, in this order: InvoiceModel, Ksef, Sender, Service with its safety runs; `IInv`
and its proof; Lifecycle; progress; Polling; Auth and its proof; Nip, Amounts,
InvoiceMapping; Process; WebhookQueue, Dashboard; the proofs of Polling, Process, Nip
and InvoiceMapping; the slots, the events and the refinement of Service; the queue and the
pages; the sums of an invoice and their rounding; Confirmation, between Polling and Sender.

Next, the model: a run of `Service` in which a batch is smaller than what waits
(starvation by rows put back); the error texts of events.
