------------------------------ MODULE Process ------------------------------
(***************************************************************************)
(* The life of the process: configuration and environment, recovery, the   *)
(* sender's loop and its batches, the HTTP server, the interactive         *)
(* sessions it opens at KSeF, shutdown, crash, and Docker's restart.       *)
(*                                                                         *)
(* What a batch does to the table is in modules Sender and Service.  Here  *)
(* a batch is the number of its goroutines that wait for a slot of the     *)
(* channel and the number that hold one and are in a call.                 *)
(***************************************************************************)
EXTENDS Durations, FiniteSets

CONSTANTS
    Config,         \* bound: the contents of config.yaml to be looked at
    MaxBatch,       \* bound: goroutines of one pass
    MaxRequests,    \* bound: requests the server handles at a time
    Session,        \* bound: session references KSeF gives out at a time
    NoSession       \* the empty InSessionRef

(* The seconds and limits that the process uses itself.  rest stands for   *)
(* the other fields Validate asks for and the environment variables.       *)
ASSUME ConfigAssumption ==
    Config \subseteq [interval : Int, workers : Int, httpTimeout : Int,
                      shutdownTimeout : Int, rest : BOOLEAN]
ASSUME LimitAssumption ==
    /\ MaxBatch \in Nat /\ MaxRequests \in Nat
    /\ NoSession \notin Session

VARIABLES
    config,
    phase,          \* of main
    signalled,      \* ctx is done
    sender,         \* of startSender: where in its loop it is
    waiting,        \* goroutines of the pass at   c <- struct{}{}
    calling,        \* goroutines of the pass between that and   <-c
    requests,       \* requests being handled
    session,        \* inSession.InSessionRef of the running sendInvoice
    openAtKsef,     \* external: the sessions that are open at KSeF
    excused         \* history: of these, those the program cannot know of or failed to close

vars == <<config, phase, signalled, sender, waiting, calling, requests, session,
          openAtKsef, excused>>

batchVars == <<waiting, calling>>
sessionVars == <<session, openAtKsef, excused>>

Up == {"running", "stopping", "waiting"}
Down == {"ended", "fatal", "panicked", "killed"}
Passes == {"confirm", "send", "webhooks"}      \* with goroutines at work

TypeOK ==
    /\ config \in Config
    /\ phase \in {"starting", "recovering"} \cup Up \cup Down
    /\ signalled \in BOOLEAN
    /\ sender \in {"off", "start", "select", "load", "open", "close", "done"} \cup Passes
    /\ waiting \in 0 .. MaxBatch /\ calling \in 0 .. MaxBatch
    /\ requests \in 0 .. MaxRequests
    /\ session \in Session \cup {NoSession}
    /\ openAtKsef \subseteq Session /\ excused \subseteq openAtKsef

Init ==
    /\ config \in Config
    /\ phase = "starting"
    /\ signalled = FALSE
    /\ sender = "off"
    /\ waiting = 0 /\ calling = 0
    /\ requests = 0
    /\ session = NoSession
    /\ openAtKsef = {} /\ excused = {}

-----------------------------------------------------------------------------

(* The process is gone, and with it all its goroutines and requests.       *)
Dies(how) ==
    /\ phase' = how
    /\ sender' = "off"
    /\ waiting' = 0 /\ calling' = 0
    /\ requests' = 0
    /\ session' = NoSession
    /\ excused' = openAtKsef
    /\ UNCHANGED <<config, signalled, openAtKsef>>

(* MUTANTS of Validate: a ticker of zero seconds; no limit on a call.      *)
ValidateZeroInterval(c) ==
    /\ c.rest
    /\ c.httpTimeout > 0
    /\ c.interval >= 0
    /\ c.shutdownTimeout > 0
    /\ c.workers > 0

ValidateAnyTimeout(c) ==
    /\ c.rest
    /\ c.interval > 0
    /\ c.shutdownTimeout > 0
    /\ c.workers > 0

Validate(c) ==
    /\ c.rest
    /\ c.httpTimeout > 0
    /\ c.interval > 0
    /\ c.shutdownTimeout > 0
    /\ c.workers > 0

(* main, up to the recovery; the database or the schema may not load.      *)
Configure ==
    /\ phase = "starting"
    /\ \/ /\ Validate(config)
          /\ phase' = "recovering"
          /\ UNCHANGED <<config, signalled, sender, batchVars, requests, sessionVars>>
       \/ Dies("fatal")

(* RecoverProcessingInvoices, then the sender and the server are started.  *)
Recover ==
    /\ phase = "recovering"
    /\ \/ /\ phase' = "running"
          /\ sender' = "start"
          /\ UNCHANGED <<config, signalled, batchVars, requests, sessionVars>>
       \/ Dies("fatal")

(* ListenAndServe fails, at once or later, unless it is being shut down.   *)
ServerFails == phase = "running" /\ Dies("fatal")

Arrive ==
    /\ phase = "running"
    /\ requests < MaxRequests
    /\ requests' = requests + 1
    /\ UNCHANGED <<config, phase, signalled, sender, batchVars, sessionVars>>

Respond ==
    /\ phase \in Up
    /\ requests > 0
    /\ requests' = requests - 1
    /\ UNCHANGED <<config, phase, signalled, sender, batchVars, sessionVars>>

Signal ==
    /\ phase = "running"
    /\ ~signalled
    /\ signalled' = TRUE
    /\ UNCHANGED <<config, phase, sender, batchVars, requests, sessionVars>>

(* srv.Shutdown closes the listener and waits for the requests.            *)
BeginShutdown ==
    /\ phase = "running"
    /\ signalled
    /\ phase' = "stopping"
    /\ UNCHANGED <<config, signalled, sender, batchVars, requests, sessionVars>>

ServerStopped ==
    /\ phase = "stopping"
    /\ requests = 0
    /\ phase' = "waiting"
    /\ UNCHANGED <<config, signalled, sender, batchVars, requests, sessionVars>>

ShutdownTimesOut ==
    /\ phase = "stopping"
    /\ requests > 0
    /\ Dies("fatal")

(* MUTANT of End: main returns without   <-shutdownC.                      *)
EndAtOnce ==
    /\ phase = "waiting"
    /\ phase' = "ended"
    /\ UNCHANGED <<config, signalled, sender, batchVars, requests, sessionVars>>

(* <-shutdownC; main returns, the database is closed.                      *)
End ==
    /\ phase = "waiting"
    /\ sender = "done"
    /\ phase' = "ended"
    /\ UNCHANGED <<config, signalled, sender, batchVars, requests, sessionVars>>

Crash == phase \in {"starting", "recovering"} \cup Up /\ Dies("killed")

(* restart: unless-stopped                                                 *)
Restart ==
    /\ phase \in Down
    /\ phase' = "starting"
    /\ signalled' = FALSE
    /\ sender' = "off"
    /\ excused' = openAtKsef
    /\ UNCHANGED <<config, batchVars, requests, session, openAtKsef>>

-----------------------------------------------------------------------------
(* startSender and its three passes.                                       *)

UnchangedBySender == UNCHANGED <<config, phase, signalled, requests>>

(* time.NewTicker and make(chan) panic on what they cannot make.           *)
SenderStarts ==
    /\ sender = "start" /\ phase \in Up
    /\ IF Duration(config.interval) <= 0 \/ config.workers < 0
       THEN Dies("panicked")
       ELSE sender' = "select" /\ UNCHANGED <<batchVars, sessionVars>> /\ UnchangedBySender

SenderStops ==
    /\ sender = "select" /\ phase \in Up
    /\ signalled
    /\ sender' = "done"
    /\ UNCHANGED <<batchVars, sessionVars>> /\ UnchangedBySender

StartBatch(pass, n) ==
    /\ sender' = pass
    /\ waiting' = n /\ calling' = 0

(* checkUnknownInvoices: as many goroutines as there are rows.             *)
Tick ==
    /\ sender = "select" /\ phase \in Up
    /\ \E n \in 0 .. MaxBatch : StartBatch("confirm", n)
    /\ UNCHANGED sessionVars /\ UnchangedBySender

(* c <- struct{}{}: without a buffer nobody would ever receive it.         *)
TakeSlot ==
    /\ sender \in Passes /\ phase \in Up
    /\ waiting > 0
    /\ calling < config.workers
    /\ waiting' = waiting - 1 /\ calling' = calling + 1
    /\ UNCHANGED <<sender, sessionVars>> /\ UnchangedBySender

FinishCall ==
    /\ sender \in Passes /\ phase \in Up
    /\ calling > 0
    /\ calling' = calling - 1
    /\ UNCHANGED <<waiting, sender, sessionVars>> /\ UnchangedBySender

CallAnswered == FinishCall

(* http.Client.Timeout: zero or less is no limit.                          *)
CallTimesOut == Duration(config.httpTimeout) > 0 /\ FinishCall

(* MUTANT of AllDone: wg.Wait does not count those waiting for a slot.     *)
NoneCalling == calling = 0

AllDone == waiting = 0 /\ calling = 0          \* wg.Wait returns

ConfirmEnds ==
    /\ sender = "confirm" /\ phase \in Up
    /\ AllDone
    /\ sender' = "load"
    /\ UNCHANGED <<batchVars, sessionVars>> /\ UnchangedBySender

(* GetPendingInvoicesConc finds rows, or there is nothing to send.         *)
LoadPending ==
    /\ sender = "load" /\ phase \in Up
    /\ \/ sender' = "open" /\ UNCHANGED batchVars
       \/ \E n \in 0 .. MaxBatch : StartBatch("webhooks", n)
    /\ UNCHANGED sessionVars /\ UnchangedBySender

OpenInSession ==
    /\ sender = "open" /\ phase \in Up
    /\ \E s \in Session \ openAtKsef, n \in 1 .. MaxBatch :
          /\ session' = s
          /\ openAtKsef' = openAtKsef \cup {s}
          /\ StartBatch("send", n)
    /\ UNCHANGED excused /\ UnchangedBySender

(* An error; KSeF may have opened a session whose reference got lost.      *)
OpenFails ==
    /\ sender = "open" /\ phase \in Up
    /\ \/ UNCHANGED sessionVars
       \/ \E s \in Session \ openAtKsef :
             /\ openAtKsef' = openAtKsef \cup {s}
             /\ excused' = excused \cup {s}
             /\ UNCHANGED session
    /\ \E n \in 0 .. MaxBatch : StartBatch("webhooks", n)
    /\ UnchangedBySender

(* MUTANT of SendEnds: a batch that ends after the signal returns at once. *)
SendEndsUnlessStopping ==
    /\ sender = "send" /\ phase \in Up
    /\ AllDone
    /\ sender' = IF signalled THEN "select" ELSE "close"
    /\ session' = IF signalled THEN NoSession ELSE session
    /\ UNCHANGED <<batchVars, openAtKsef, excused>> /\ UnchangedBySender

SendEnds ==
    /\ sender = "send" /\ phase \in Up
    /\ AllDone
    /\ sender' = "close"
    /\ UNCHANGED <<batchVars, sessionVars>> /\ UnchangedBySender

(* The reference is cleared whatever KSeF answers; a failed close may have *)
(* closed the session all the same.                                        *)
CloseInSession ==
    /\ sender = "close" /\ phase \in Up
    /\ session' = NoSession
    /\ \/ openAtKsef' = openAtKsef \ {session} /\ excused' = excused \ {session}
       \/ UNCHANGED openAtKsef /\ excused' = excused \cup ({session} \cap openAtKsef)
    /\ \E n \in 0 .. MaxBatch : StartBatch("webhooks", n)
    /\ UnchangedBySender

WebhooksEnd ==
    /\ sender = "webhooks" /\ phase \in Up
    /\ AllDone
    /\ sender' = "select"
    /\ UNCHANGED <<batchVars, sessionVars>> /\ UnchangedBySender

(* External: a session is valid for a limited time, even while it is used. *)
SessionExpires ==
    /\ \E s \in openAtKsef : openAtKsef' = openAtKsef \ {s} /\ excused' = excused \ {s}
    /\ UNCHANGED <<config, phase, signalled, sender, batchVars, requests, session>>

-----------------------------------------------------------------------------

MainStep == Configure \/ Recover \/ BeginShutdown \/ ServerStopped \/ ShutdownTimesOut \/ End

SenderStep ==
    \/ SenderStarts \/ Tick \/ TakeSlot \/ CallTimesOut \/ ConfirmEnds \/ LoadPending
    \/ OpenInSession \/ OpenFails \/ SendEnds \/ CloseInSession \/ WebhooksEnd

Next ==
    \/ MainStep \/ SenderStep \/ SenderStops \/ CallAnswered
    \/ ServerFails \/ Arrive \/ Respond \/ Signal \/ Crash \/ Restart \/ SessionExpires

(* main and the sender run on; a call runs into its timeout, srv.Shutdown  *)
(* into its own.  No request, answer, signal or restart ever has to come.  *)
(* select chooses at random between a tick that is due and the signal, so  *)
(* it takes the signal in the end although it may take ticks before.       *)
Fairness == WF_vars(MainStep) /\ WF_vars(SenderStep) /\ SF_vars(SenderStops)

Spec == Init /\ [][Next]_vars

FairSpec == Spec /\ Fairness

-----------------------------------------------------------------------------
(* Properties.                                                             *)

(* When main returns and closes the database, the sender has stopped, no   *)
(* goroutine of a batch is alive, no request is being handled and no       *)
(* session is left open that could have been closed.                       *)
CleanEnd ==
    phase = "ended" =>
        /\ sender = "done" /\ waiting + calling = 0 /\ requests = 0
        /\ session = NoSession /\ openAtKsef = excused

(* CloseInSession clears the reference that all goroutines of the batch    *)
(* share only when none of them will use it any more, those that still     *)
(* wait for a slot included; or the process is gone.                       *)
ClearedAfterUse ==
    [][session # NoSession /\ session' = NoSession
          => waiting + calling = 0 \/ phase' \in Down]_vars

SessionInUse == IF session = NoSession THEN {} ELSE {session}

(* A session that is open at KSeF is the one of the running batch; or its  *)
(* opening or closing call failed; or the process died with it.  No path   *)
(* of sendInvoice, in particular none of a shutdown, forgets one.          *)
EverySessionAccounted == openAtKsef \subseteq excused \cup SessionInUse

(* The seconds of the configuration fit into Durations (292 years).        *)
(* Validate does not ask for it.                                           *)
SecondsFit ==
    \A s \in {config.interval, config.httpTimeout, config.shutdownTimeout} : Fits(s)

(* Of the configurations whose seconds fit into Durations, Validate        *)
(* refuses every one that would make startSender panic, in the goroutine   *)
(* where nothing recovers from it.  A polling_interval that does not fit   *)
(* passes Validate and may panic (time.NewTicker of a negative Duration).  *)
NeverPanics == phase = "panicked" => ~SecondsFit

(* After SIGTERM the process comes to its end, whatever the sender was at, *)
(* however many goroutines wait for slots, and whoever does not answer;    *)
(* provided the configured seconds fit into Durations, as an HTTP timeout  *)
(* that wraps to a negative one is none.                                   *)
StopsAfterSignal == signalled /\ SecondsFit ~> phase \in Down

=============================================================================
