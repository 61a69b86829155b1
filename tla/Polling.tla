------------------------------- MODULE Polling ------------------------------
(***************************************************************************)
(* WaitForSendingConfirmation of internal/ksef/send.go: asking KSeF for    *)
(* the verdict on one submission until it is known, a reply says that      *)
(* asking on is of no use, or the attempts are used up.  Service models    *)
(* the whole of it as the step ConfirmInvoice.                             *)
(*                                                                         *)
(* A reply is an HTTP status, 0 if there is none (no network, no token,    *)
(* timeout), and for 200 the status code in the body, 0 if the body cannot *)
(* be read, and whether it names a KSeF number.                            *)
(***************************************************************************)
EXTENDS Durations

CONSTANTS
    MaxAttempts,     \* configuration: ConfirmationMaxAttempts
    OtherCodes,      \* codes in a body that no constant of the code names
    RetryAfters,     \* the integers that a Retry-After header may hold
    PollingDelaySec  \* configuration

ASSUME AttemptsAssumption == MaxAttempts \in Nat \ {0}
ASSUME DelayAssumption == PollingDelaySec \in Nat \ {0}

ProcessingCodes == {100, 150}
(* MUTANT of RejectedCodes: KSeF's own failures count as rejections.       *)
RejectedOrFailedCodes == {405, 410, 415, 430, 435, 440, 450, 500, 550}

RejectedCodes == {405, 410, 415, 430, 435, 440, 450}
TemporaryCodes == {500, 550}

ASSUME OtherAssumption ==
    OtherCodes \cap (ProcessingCodes \cup RejectedCodes \cup TemporaryCodes \cup {200}) = {}

(* The header may hold any int; an absent or unreadable one counts as 5.   *)
ASSUME RetryAfterAssumption == RetryAfters \subseteq Int /\ 5 \in RetryAfters

VARIABLES
    verdict,     \* KSeF: "processing", then "accepted" or "rejected"
    i,           \* attempts made before this one
    pc,          \* "request", "sleep" or "done"
    pause,       \* the Duration of the next sleep; it does not sleep for <= 0
    reply,       \* the last reply
    result       \* "none", "accepted", "rejected" or "deferred"

vars == <<verdict, i, pc, pause, reply, result>>

Reply == [http : {0, 200, 404, 429, 503}, number : BOOLEAN, retryAfter : RetryAfters \cup {0},
          code : {0, 200} \cup ProcessingCodes \cup RejectedCodes
                 \cup TemporaryCodes \cup OtherCodes]

PollingDelay == Duration(PollingDelaySec)

Answer(http, seconds) == [http |-> http, code |-> 0, number |-> FALSE, retryAfter |-> seconds]

Body(code, number) == [http |-> 200, code |-> code, number |-> number, retryAfter |-> 0]

(* What KSeF, or the network before it, may reply.  Only a body with a     *)
(* verdict tells the verdict.  102 is HTTP's code for "processing".        *)
Replies ==
    {Answer(http, 0) : http \in {0, 200, 404, 503}}
    \cup {Answer(429, s) : s \in RetryAfters}
    \cup {Body(c, FALSE) : c \in TemporaryCodes \cup OtherCodes}
    \cup CASE verdict = "processing" -> {Body(c, FALSE) : c \in ProcessingCodes}
           [] verdict = "accepted"   -> {Body(200, n) : n \in BOOLEAN}
           [] verdict = "rejected"   -> {Body(c, FALSE) : c \in RejectedCodes}

(* getInvoiceStatus *)
Outcome(r) ==
    CASE r.http = 0                                  -> "temporaryFailure"
      [] r.http = 200 /\ r.code \in ProcessingCodes  -> "processing"
      [] r.http = 200 /\ r.code = 200                -> "success"
      [] r.http = 200 /\ r.code \in RejectedCodes    -> "rejected"
      [] r.http = 200 /\ r.code \in TemporaryCodes   -> "temporaryFailure"
      [] r.http = 200 /\ r.code \in OtherCodes \cup {0} -> "badResponse"
      [] r.http = 429                                -> "rateLimited"
      [] r.http >= 500                               -> "temporaryFailure"
      [] OTHER                                       -> "httpFail"

TypeOK ==
    /\ verdict \in {"processing", "accepted", "rejected"}
    /\ i \in 0 .. MaxAttempts
    /\ pc \in {"request", "sleep", "done"}
    /\ pause \in Int
    /\ reply \in Reply
    /\ result \in {"none", "accepted", "rejected", "deferred"}

Init ==
    /\ verdict \in {"processing", "accepted", "rejected"}
    /\ i = 0
    /\ pc = "request"
    /\ pause = 0
    /\ reply = Answer(0, 0)
    /\ result = "none"

Return(res) == pc' = "done" /\ result' = res /\ UNCHANGED <<i, pause>>

Sleep(duration) == pc' = "sleep" /\ pause' = duration /\ UNCHANGED <<i, result>>

(* MUTANT of LastAttempt: off by one.                                      *)
LastButOne == i = MaxAttempts - 2

LastAttempt == i = MaxAttempts - 1

AttemptsLeft == i < MaxAttempts

Poll ==
    /\ pc = "request"
    /\ AttemptsLeft
    /\ reply' \in Replies
    /\ LET outcome == Outcome(reply')
       IN  CASE outcome \in {"processing", "temporaryFailure"} ->
                   IF LastAttempt THEN Return("deferred") ELSE Sleep(PollingDelay)
             [] outcome = "success" ->
                   Return(IF reply'.number THEN "accepted" ELSE "deferred")
             [] outcome = "rateLimited" -> Sleep(Duration(reply'.retryAfter))
             [] outcome = "rejected" -> Return("rejected")
             [] outcome \in {"httpFail", "badResponse"} -> Return("deferred")
    /\ UNCHANGED verdict

(* MUTANT of WakeUp: the attempt is not counted.                           *)
WakeUpUncounted ==
    /\ pc = "sleep"
    /\ pc' = "request"
    /\ UNCHANGED <<verdict, i, pause, reply, result>>

WakeUp ==
    /\ pc = "sleep"
    /\ pc' = "request"
    /\ i' = i + 1
    /\ UNCHANGED <<verdict, pause, reply, result>>

(* The loop ends after its last round.                                     *)
GiveUp ==
    /\ pc = "request"
    /\ ~AttemptsLeft
    /\ Return("deferred")
    /\ UNCHANGED <<verdict, reply>>

Decide ==
    /\ verdict = "processing"
    /\ verdict' \in {"accepted", "rejected"}
    /\ UNCHANGED <<i, pc, pause, reply, result>>

Next == Poll \/ WakeUp \/ GiveUp \/ Decide

Fairness == WF_vars(Poll) /\ WF_vars(WakeUp) /\ WF_vars(GiveUp)

Spec == Init /\ [][Next]_vars /\ Fairness

-----------------------------------------------------------------------------

(* A verdict is reported exactly if KSeF gave it in its last reply: no     *)
(* error or limit is taken for a verdict (an invoice would be marked       *)
(* FAILED or SENT), and no verdict that came with the last of the attempts *)
(* is lost.                                                                *)
ResultIsVerdict ==
    pc = "done" =>
        /\ result \in {"accepted", "rejected"} => result = verdict
        /\ result = "rejected" <=> reply.http = 200 /\ reply.code \in RejectedCodes
        /\ result = "accepted" <=> reply.http = 200 /\ reply.code = 200 /\ reply.number

(* KSeF is not asked again before the time it named in Retry-After, and    *)
(* after any other reply not before the configured delay.  A Retry-After   *)
(* of 0 or less names no time.  Seconds that do not fit into a Duration    *)
(* are excluded: the code sleeps for whatever their product wraps to.      *)
AsksWithPauses ==
    [][pc = "sleep" /\ pc' = "request" =>
         LET seconds == IF reply.http = 429 THEN reply.retryAfter ELSE PollingDelaySec
         IN  Fits(seconds) => pause >= seconds * Second]_vars

(* Polling ends, whatever KSeF answers, and the goroutine of the invoice   *)
(* gives its slot back (cmd/sender.go).                                    *)
Ends == <>(pc = "done")

(* An answer that may be another one the next time does not end the        *)
(* polling before all attempts are used up.                                *)
GivesUpLate ==
    pc = "done" /\ result = "deferred"
    /\ Outcome(reply) \in {"processing", "temporaryFailure", "rateLimited"}
        => i >= MaxAttempts - 1

(* However often it asks, to its caller the call is one step that returns  *)
(* the verdict of that moment or none; it never returns twice, and no      *)
(* verdict is reported before KSeF gave it (confirmInvoice, cmd/sender.go).*)
AtOnce == INSTANCE Confirmation
ConfirmsAtOnce == AtOnce!Spec

=============================================================================
