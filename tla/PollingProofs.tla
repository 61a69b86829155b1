--------------------------- MODULE PollingProofs ---------------------------
(***************************************************************************)
(* The polling loop, for any number of attempts, any unknown codes and any *)
(* integers in Retry-After.                                                *)
(*                                                                         *)
(* While it goes on, the last reply was no verdict and the attempts are    *)
(* not used up; a sleep takes the time that the last reply called for.     *)
(***************************************************************************)
EXTENDS Polling, TLAPS

SaysRejected(r) == r.http = 200 /\ r.code \in RejectedCodes
SaysAccepted(r) == r.http = 200 /\ r.code = 200 /\ r.number

PauseCalledFor(p, r) == IF r.http = 429 THEN p = Duration(r.retryAfter) ELSE p = PollingDelay

IInv ==
    /\ TypeOK
    /\ pc # "done" => result = "none" /\ ~SaysRejected(reply) /\ ~SaysAccepted(reply)
    /\ pc = "sleep" =>
          /\ i < MaxAttempts
          /\ PauseCalledFor(pause, reply)
    /\ ResultIsVerdict
    /\ GivesUpLate

-----------------------------------------------------------------------------

(* A Duration is a number; of seconds that fit it is their nanoseconds.    *)
LEMMA DurationIs ==
    ASSUME NEW s \in Int
    PROVE  Duration(s) \in Int /\ (Fits(s) => Duration(s) = s * Second)
  <1> DEFINE x == s * Second + DurationBound
             m == 2 * DurationBound
  <1>1. x \in Int /\ m \in Nat \ {0} /\ DurationBound \in Nat /\ s * Second \in Int
    BY DurationAssumption DEF DurationAssumption
  <1>2. /\ \A y \in Int, k \in Nat \ {0} : y % k \in Int
        /\ \A y \in Nat, k \in Nat \ {0} : y < k => y % k = y
    OBVIOUS
  <1>3. x % m \in Int  BY <1>1, <1>2
  <1>4. Fits(s) => x % m = x
    <2>1. Fits(s) => x \in Nat /\ x < m  BY <1>1 DEF Fits
    <2>2. QED BY <1>1, <1>2, <2>1
  <1>5. Duration(s) = (x % m) - DurationBound  BY DEF Duration
  <1> HIDE DEF x
  <1>6. Duration(s) \in Int  BY <1>1, <1>3, <1>5
  <1>7. Fits(s) => Duration(s) = s * Second
    BY <1>1, <1>4, <1>5 DEF x
  <1>8. QED BY <1>6, <1>7

(* Retry-After is an integer.                                              *)
LEMMA RetryAfterIs ==
    ASSUME NEW r \in Reply
    PROVE  r.retryAfter \in Int /\ r.retryAfter * Second \in Int
  <1>1. r.retryAfter \in RetryAfters \cup {0}  BY DEF Reply
  <1>2. Second \in Int  BY DurationAssumption DEF DurationAssumption
  <1>3. \A s \in RetryAfters \cup {0} : s \in Int  BY RetryAfterAssumption
  <1>4. r.retryAfter \in Int  BY <1>1, <1>3
  <1>5. QED BY <1>2, <1>4

(* What the replies say that carry no code, and those that carry one.      *)
LEMMA AnswerIs ==
    ASSUME NEW http \in {0, 200, 404, 429, 503}, NEW s \in RetryAfters \cup {0}
    PROVE  Answer(http, s) \in Reply /\ Answer(http, s).code = 0
  BY DEF Answer, Reply

(* The fields of a reply with a body.                                      *)
LEMMA BodyIs ==
    ASSUME NEW c \in {0, 200} \cup ProcessingCodes \cup RejectedCodes
                     \cup TemporaryCodes \cup OtherCodes,
           NEW n \in BOOLEAN
    PROVE  Body(c, n) \in Reply /\ Body(c, n).code = c /\ Body(c, n).number = n
  BY DEF Body, Reply

(* No two kinds of codes have one in common.                               *)
LEMMA CodesDiffer ==
    /\ 0 \notin RejectedCodes /\ 200 \notin RejectedCodes
    /\ \A c \in ProcessingCodes \cup TemporaryCodes \cup OtherCodes :
          c \notin RejectedCodes /\ c # 200
  <1>1. \A c \in OtherCodes : c \notin RejectedCodes /\ c # 200
    BY OtherAssumption DEF OtherAssumption
  <1>2. /\ 0 \notin RejectedCodes /\ 200 \notin RejectedCodes
        /\ \A c \in ProcessingCodes \cup TemporaryCodes : c \notin RejectedCodes /\ c # 200
    BY DEF RejectedCodes, ProcessingCodes, TemporaryCodes
  <1>3. QED BY <1>1, <1>2

(* A reply is a Reply; only after the verdict it may say so.               *)
LEMMA RepliesAreTyped ==
    ASSUME NEW r \in Replies, verdict \in {"processing", "accepted", "rejected"}
    PROVE  /\ r \in Reply
           /\ SaysRejected(r) => verdict = "rejected"
           /\ SaysAccepted(r) => verdict = "accepted"
  <1>1. ASSUME r \in Reply, r.code = 0
        PROVE  r \in Reply /\ ~SaysRejected(r) /\ ~SaysAccepted(r)
    BY <1>1, CodesDiffer DEF SaysRejected, SaysAccepted
  <1>2. CASE r \in {Answer(http, 0) : http \in {0, 200, 404, 503}}
    <2>1. PICK http \in {0, 200, 404, 503} : r = Answer(http, 0)  BY <1>2
    <2>2. QED BY <1>1, <2>1, AnswerIs
  <1>3. CASE r \in {Answer(429, s) : s \in RetryAfters}
    <2>1. PICK s \in RetryAfters : r = Answer(429, s)  BY <1>3
    <2>2. QED BY <1>1, <2>1, AnswerIs
  <1>4. CASE \E c \in ProcessingCodes \cup TemporaryCodes \cup OtherCodes : r = Body(c, FALSE)
    <2>1. PICK c \in ProcessingCodes \cup TemporaryCodes \cup OtherCodes : r = Body(c, FALSE)
      BY <1>4
    <2>2. r \in Reply /\ r.code = c /\ r.number = FALSE  BY <2>1, BodyIs
    <2>3. QED BY <2>2, CodesDiffer DEF SaysRejected, SaysAccepted
  <1>5. CASE verdict = "accepted" /\ r \in {Body(200, n) : n \in BOOLEAN}
    <2>1. PICK n \in BOOLEAN : r = Body(200, n)  BY <1>5
    <2>2. r \in Reply /\ r.code = 200  BY <2>1, BodyIs
    <2>3. QED BY <1>5, <2>2, CodesDiffer DEF SaysRejected
  <1>6. CASE verdict = "rejected" /\ r \in {Body(c, FALSE) : c \in RejectedCodes}
    <2>1. PICK c \in RejectedCodes : r = Body(c, FALSE)  BY <1>6
    <2>2. r \in Reply /\ r.number = FALSE  BY <2>1, BodyIs
    <2>3. QED BY <1>6, <2>2 DEF SaysAccepted
  <1>7. QED
    <2> DEFINE known == CASE verdict = "processing" -> {Body(c, FALSE) : c \in ProcessingCodes}
                          [] verdict = "accepted"   -> {Body(200, n) : n \in BOOLEAN}
                          [] verdict = "rejected"   -> {Body(c, FALSE) : c \in RejectedCodes}
    <2>1. SUFFICES ASSUME r \in known
                   PROVE  \/ verdict = "processing" /\ r \in {Body(c, FALSE) : c \in ProcessingCodes}
                          \/ verdict = "accepted" /\ r \in {Body(200, n) : n \in BOOLEAN}
                          \/ verdict = "rejected" /\ r \in {Body(c, FALSE) : c \in RejectedCodes}
      BY <1>2, <1>3, <1>4, <1>5, <1>6 DEF Replies
    <2>2. QED BY <2>1

-----------------------------------------------------------------------------

(* The initial states satisfy IInv.                                        *)
LEMMA PollingInit == Init => IInv
  <1> SUFFICES ASSUME Init PROVE IInv  OBVIOUS
  <1>1. reply \in Reply /\ reply.code = 0
    BY AnswerIs DEF Init
  <1>2. TypeOK
    BY <1>1, AttemptsAssumption DEF Init, TypeOK, AttemptsAssumption
  <1>3. ~SaysRejected(reply) /\ ~SaysAccepted(reply)
    BY <1>1, CodesDiffer DEF SaysRejected, SaysAccepted
  <1>4. QED BY <1>2, <1>3 DEF Init, IInv, ResultIsVerdict, GivesUpLate

(* What an outcome says about the reply.                                   *)
LEMMA OutcomeIs ==
    ASSUME NEW r \in Reply
    PROVE  /\ Outcome(r) \in {"processing", "temporaryFailure", "success", "rateLimited",
                              "rejected", "httpFail", "badResponse"}
           /\ Outcome(r) = "rejected" <=> SaysRejected(r)
           /\ Outcome(r) = "success" <=> r.http = 200 /\ r.code = 200
           /\ Outcome(r) = "rateLimited" <=> r.http = 429
  BY CodesDiffer, OtherAssumption
  DEF Outcome, Reply, SaysRejected, OtherAssumption, ProcessingCodes, TemporaryCodes,
      RejectedCodes

(* A poll keeps IInv: whichever way it ends, the result fits the reply.    *)
LEMMA PollKeeps == IInv /\ Poll => IInv'
  <1> SUFFICES ASSUME IInv, Poll PROVE IInv'  OBVIOUS
  <1> DEFINE o == Outcome(reply')
  <1>1. /\ pc = "request" /\ i < MaxAttempts /\ verdict' = verdict
        /\ i \in 0 .. MaxAttempts /\ result = "none"
        /\ verdict \in {"processing", "accepted", "rejected"}
    BY DEF IInv, Poll, TypeOK, AttemptsLeft
  <1>2. /\ reply' \in Reply
        /\ SaysRejected(reply') => verdict = "rejected"
        /\ SaysAccepted(reply') => verdict = "accepted"
    BY <1>1, RepliesAreTyped DEF Poll
  <1>3. /\ o \in {"processing", "temporaryFailure", "success", "rateLimited",
                  "rejected", "httpFail", "badResponse"}
        /\ o = "rejected" <=> SaysRejected(reply')
        /\ o = "success" <=> reply'.http = 200 /\ reply'.code = 200
        /\ o = "rateLimited" <=> reply'.http = 429
    BY <1>2, OutcomeIs
  <1>4. i' = i  BY <1>3, ZenonT(60) DEF Poll, Return, Sleep
  <1> HIDE DEF o
  <1>5. pause \in Int  BY DEF IInv, TypeOK
  <1>6. CASE (o \in {"processing", "temporaryFailure"} /\ ~LastAttempt) \/ o = "rateLimited"
    <2>1. /\ pc' = "sleep" /\ result' = result
          /\ PauseCalledFor(pause', reply')
      BY <1>3, <1>6 DEF Poll, Sleep, PauseCalledFor, o
    <2>2. pause' \in Int
      <3>1. reply'.retryAfter \in Int /\ PollingDelaySec \in Int
        BY <1>2, RetryAfterIs, DelayAssumption DEF DelayAssumption
      <3>2. QED BY <2>1, <3>1, DurationIs DEF PauseCalledFor, PollingDelay
    <2>3. ~SaysRejected(reply') /\ ~SaysAccepted(reply')
      BY <1>3, <1>6 DEF SaysAccepted
    <2>4. QED
      BY <1>1, <1>4, <1>2, <2>1, <2>2, <2>3 DEF IInv, TypeOK, ResultIsVerdict, GivesUpLate
  <1>7. CASE o \in {"processing", "temporaryFailure"} /\ LastAttempt
    <2>1. pc' = "done" /\ result' = "deferred" /\ pause' = pause
      BY <1>7 DEF Poll, Return, o
    <2>2. ~SaysRejected(reply') /\ ~SaysAccepted(reply')
      BY <1>3, <1>7 DEF SaysAccepted
    <2>3. i' >= MaxAttempts - 1  BY <1>1, <1>4, <1>7, AttemptsAssumption DEF LastAttempt, AttemptsAssumption
    <2>4. QED
      BY <1>1, <1>4, <1>2, <1>5, <2>1, <2>2, <2>3
      DEF IInv, TypeOK, ResultIsVerdict, GivesUpLate, SaysRejected, SaysAccepted
  <1>8. CASE o \in {"success", "rejected", "httpFail", "badResponse"}
    <2>1. /\ pc' = "done" /\ pause' = pause
          /\ result' = IF o = "rejected" THEN "rejected"
                       ELSE IF o = "success" /\ reply'.number THEN "accepted" ELSE "deferred"
      BY <1>8 DEF Poll, Return, o
    <2>2. result' \in {"accepted", "rejected", "deferred"}  BY <2>1
    <2>3. TypeOK'  BY <1>1, <1>4, <1>2, <1>5, <2>1, <2>2 DEF TypeOK
    <2>4. reply'.number \in BOOLEAN  BY <1>2 DEF Reply
    <2>5. /\ result' = "rejected" <=> SaysRejected(reply')
          /\ result' = "accepted" <=> SaysAccepted(reply')
      BY <1>3, <2>1, <2>4 DEF SaysAccepted
    <2>6. ResultIsVerdict'
      BY <1>1, <1>4, <1>2, <2>5 DEF ResultIsVerdict, SaysRejected, SaysAccepted
    <2>7. GivesUpLate'  BY <1>8 DEF GivesUpLate, o
    <2>8. QED BY <2>1, <2>3, <2>6, <2>7 DEF IInv
  <1>9. QED BY <1>3, <1>6, <1>7, <1>8

(* Every step keeps IInv.                                                  *)
LEMMA PollingStep == IInv /\ [Next]_vars => IInv'
  <1> SUFFICES ASSUME IInv, [Next]_vars PROVE IInv'  OBVIOUS
  <1>1. CASE Poll  BY <1>1, PollKeeps
  <1>2. CASE WakeUp
    <2>1. i + 1 \in 0 .. MaxAttempts
      BY <1>2, AttemptsAssumption DEF WakeUp, IInv, TypeOK, AttemptsAssumption
    <2>2. QED BY <1>2, <2>1 DEF WakeUp, IInv, TypeOK, ResultIsVerdict, GivesUpLate
  <1>3. CASE GiveUp
    <2>1. /\ pc' = "done" /\ result' = "deferred" /\ reply' = reply /\ i' = i
          /\ pause' = pause /\ verdict' = verdict /\ pc = "request" /\ ~(i < MaxAttempts)
      BY <1>3 DEF GiveUp, Return, AttemptsLeft
    <2>2. i' >= MaxAttempts - 1
      BY <2>1, AttemptsAssumption DEF IInv, TypeOK, AttemptsAssumption
    <2>3. ~SaysRejected(reply') /\ ~SaysAccepted(reply')  BY <2>1 DEF IInv
    <2>4. QED
      BY <2>1, <2>2, <2>3
      DEF IInv, TypeOK, ResultIsVerdict, GivesUpLate, SaysRejected, SaysAccepted
  <1>4. CASE Decide
    BY <1>4 DEF Decide, IInv, TypeOK, ResultIsVerdict, GivesUpLate, SaysRejected, SaysAccepted
  <1>5. CASE UNCHANGED vars
    BY <1>5 DEF vars, IInv, TypeOK, ResultIsVerdict, GivesUpLate, SaysRejected, SaysAccepted
  <1>6. QED BY <1>1, <1>2, <1>3, <1>4, <1>5 DEF Next

(* The inductive invariant of the loop.                                    *)
THEOREM PollingInvariant == Spec => []IInv
  BY PollingInit, PollingStep, PTL DEF Spec

(* Every variable has its type; in particular the attempts stay in bounds. *)
THEOREM PollingTypes == Spec => []TypeOK
  <1>1. IInv => TypeOK  BY DEF IInv
  <1>2. QED BY <1>1, PollingInvariant, PTL

(* However often KSeF is asked and in whatever order it answers, the       *)
(* result is the verdict exactly if the last reply gave one.               *)
THEOREM PollingTellsTheVerdict == Spec => []ResultIsVerdict
  <1>1. IInv => ResultIsVerdict  BY DEF IInv
  <1>2. QED BY <1>1, PollingInvariant, PTL

(* A passing failure never ends the polling early.                         *)
THEOREM PollingGivesUpLate == Spec => []GivesUpLate
  <1>1. IInv => GivesUpLate  BY DEF IInv
  <1>2. QED BY <1>1, PollingInvariant, PTL

(* Between two attempts there is at least the pause that the last reply    *)
(* called for, or the configured one, for all seconds that fit into a      *)
(* Duration.                                                               *)
THEOREM PollingPauses == Spec => AsksWithPauses
  <1> DEFINE seconds == IF reply.http = 429 THEN reply.retryAfter ELSE PollingDelaySec
  <1>1. IInv /\ [Next]_vars
          => [pc = "sleep" /\ pc' = "request" =>
                (Fits(seconds) => pause >= seconds * Second)]_vars
    <2> SUFFICES ASSUME IInv, pc = "sleep", Fits(seconds)
                 PROVE  pause >= seconds * Second
      OBVIOUS
    <2>1. PauseCalledFor(pause, reply) /\ reply \in Reply  BY DEF IInv, TypeOK
    <2>2. seconds \in Int /\ seconds * Second \in Int
      BY <2>1, RetryAfterIs, DelayAssumption, DurationAssumption
      DEF DelayAssumption, DurationAssumption
    <2>3. pause = Duration(seconds)  BY <2>1 DEF PauseCalledFor, PollingDelay
    <2> HIDE DEF seconds
    <2>4. QED BY <2>2, <2>3, DurationIs
  <1>2. QED BY <1>1, PollingInvariant, PTL DEF Spec, AsksWithPauses

(* To its caller the call is one step that returns the verdict or none:    *)
(* the loop implements Confirmation.                                       *)
THEOREM PollingIsOneStep == Spec => ConfirmsAtOnce
  <1>1. Init => AtOnce!Init
    BY DEF Init, AtOnce!Init
  <1>2. IInv /\ IInv' /\ [Next]_vars => [AtOnce!Next]_(AtOnce!vars)
    <2> SUFFICES ASSUME IInv, IInv', [Next]_vars
                 PROVE  [AtOnce!Next]_(AtOnce!vars)
      OBVIOUS
    <2>1. ASSUME result = "none", verdict' = verdict,
                 result' \in {"none", "accepted", "rejected", "deferred"},
                 result' \in {"accepted", "rejected"} => result' = verdict
          PROVE  [AtOnce!Next]_(AtOnce!vars)
      BY <2>1 DEF AtOnce!Next, AtOnce!Confirm, AtOnce!vars
    <2>2. CASE Poll \/ GiveUp
      <3>1. pc = "request" /\ verdict' = verdict
        BY <2>2 DEF Poll, GiveUp
      <3>2. result = "none"
        BY <3>1 DEF IInv
      <3>3. result' \in {"none", "accepted", "rejected", "deferred"}
        BY DEF IInv, TypeOK
      <3>4. result' \in {"accepted", "rejected"} => pc' = "done" /\ ResultIsVerdict'
        BY DEF IInv
      <3>5. result' \in {"accepted", "rejected"} => result' = verdict
        BY <3>1, <3>4 DEF ResultIsVerdict
      <3> QED BY <2>1, <3>1, <3>2, <3>3, <3>5
    <2>3. CASE WakeUp
      BY <2>3 DEF WakeUp, AtOnce!vars
    <2>4. CASE Decide
      BY <2>4 DEF Decide, AtOnce!Next, AtOnce!Decide
    <2>5. CASE UNCHANGED vars
      BY <2>5 DEF vars, AtOnce!vars
    <2> QED BY <2>2, <2>3, <2>4, <2>5 DEF Next
  <1> QED BY <1>1, <1>2, PollingInvariant, PTL DEF Spec, ConfirmsAtOnce, AtOnce!Spec
=============================================================================
