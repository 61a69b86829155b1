--------------------------- MODULE ProcessProofs ---------------------------
(***************************************************************************)
(* What holds of the process for every configuration, batch and session.   *)
(*                                                                         *)
(* IInv adds to the types which goroutines there are in each phase: none   *)
(* but main before "running", none of a batch outside the passes, and a    *)
(* session reference only between OpenInSession and CloseInSession.        *)
(***************************************************************************)
EXTENDS Process, TLAPS

Passive == {"off", "start", "select", "load", "open", "close", "done"}

IInv ==
    /\ TypeOK
    /\ phase \in {"recovering"} \cup Up => Validate(config)
    /\ phase \notin Up => sender = "off" \/ (phase = "ended" /\ sender = "done")
    /\ phase \in {"ended", "waiting"} \cup Down \cup {"starting", "recovering"} => requests = 0
    /\ phase = "ended" => sender = "done"
    /\ sender \in Passive => waiting = 0 /\ calling = 0
    /\ waiting + calling <= MaxBatch
    /\ session # NoSession => sender \in {"send", "close"} /\ session \notin excused
    /\ EverySessionAccounted
    /\ NeverPanics

-----------------------------------------------------------------------------

(* Seconds that fit into a Duration do not change their sign.              *)
LEMMA PositiveDuration ==
    ASSUME NEW s \in Int, s > 0, Fits(s)
    PROVE  ~(Duration(s) <= 0)
  <1> DEFINE x == s * Second + DurationBound
             m == 2 * DurationBound
  <1>1. /\ DurationBound \in Nat \ {0} /\ Second \in Nat \ {0} /\ s \in Nat \ {0}
    BY DurationAssumption DEF DurationAssumption
  <1>2. \A a, b \in Nat \ {0} : a * b \in Nat \ {0}
    OBVIOUS
  <1>3. s * Second \in Nat \ {0} /\ s * Second < DurationBound
    BY <1>1, <1>2 DEF Fits
  <1>4. x \in Nat /\ m \in Nat \ {0} /\ x < m
    BY <1>1, <1>3
  <1>5. \A y \in Nat, k \in Nat \ {0} : y < k => y % k = y
    OBVIOUS
  <1>6. x % m = x
    BY <1>4, <1>5
  <1>7. Duration(s) = (x % m) - DurationBound
    BY DEF Duration
  <1>8. QED BY <1>1, <1>3, <1>6, <1>7

(* The initial states satisfy IInv.                                        *)
LEMMA ProcessInit == Init => IInv
  <1> SUFFICES ASSUME Init PROVE IInv  OBVIOUS
  <1>1. 0 \in 0 .. MaxBatch /\ 0 \in 0 .. MaxRequests /\ 0 + 0 <= MaxBatch
    BY LimitAssumption DEF LimitAssumption
  <1>2. TypeOK  BY <1>1 DEF Init, TypeOK
  <1>3. QED
    BY <1>1, <1>2 DEF Init, IInv, Passive, Up, Down, Passes, EverySessionAccounted, NeverPanics

(* The end of the process, whatever it was at, other than by a panic.      *)
LEMMA DeathKeeps ==
    ASSUME IInv, NEW how \in {"fatal", "killed"}, Dies(how)
    PROVE  IInv'
  BY LimitAssumption
  DEF Dies, IInv, TypeOK, Passive, Up, Down, Passes, EverySessionAccounted, SessionInUse,
      NeverPanics, Validate

(* The steps of main, of the server and of the world around the process.   *)
LEMMA MainKeeps ==
    ASSUME IInv,
           MainStep \/ ServerFails \/ Arrive \/ Respond \/ Signal \/ Crash \/ Restart
           \/ SessionExpires
    PROVE  IInv'
  <1> USE DEF IInv, TypeOK, Passive, Up, Down, Passes, EverySessionAccounted, SessionInUse,
              NeverPanics
  <1> USE LimitAssumption
  <1>1. CASE Configure
    BY <1>1, DeathKeeps DEF Configure, batchVars, sessionVars, Validate
  <1>2. CASE Recover
    BY <1>2, DeathKeeps DEF Recover, batchVars, sessionVars, Validate
  <1>3. CASE BeginShutdown  BY <1>3 DEF BeginShutdown, batchVars, sessionVars, Validate
  <1>4. CASE ServerStopped  BY <1>4 DEF ServerStopped, batchVars, sessionVars, Validate
  <1>5. CASE ShutdownTimesOut  BY <1>5, DeathKeeps DEF ShutdownTimesOut
  <1>6. CASE End  BY <1>6 DEF End, batchVars, sessionVars, Validate
  <1>7. CASE ServerFails  BY <1>7, DeathKeeps DEF ServerFails
  <1>8. CASE Arrive  BY <1>8 DEF Arrive, batchVars, sessionVars, Validate
  <1>9. CASE Respond  BY <1>9 DEF Respond, batchVars, sessionVars, Validate
  <1>10. CASE Signal  BY <1>10 DEF Signal, batchVars, sessionVars, Validate
  <1>11. CASE Crash  BY <1>11, DeathKeeps DEF Crash
  <1>12. CASE Restart  BY <1>12 DEF Restart, batchVars, Validate
  <1>13. CASE SessionExpires  BY <1>13 DEF SessionExpires, batchVars, Validate, SecondsFit
  <1>14. QED
    BY <1>1, <1>2, <1>3, <1>4, <1>5, <1>6, <1>7, <1>8, <1>9, <1>10, <1>11, <1>12, <1>13
    DEF MainStep

(* The steps of startSender.                                               *)
LEMMA SenderKeeps ==
    ASSUME IInv, SenderStep \/ SenderStops \/ CallAnswered
    PROVE  IInv'
  <1> USE DEF IInv, TypeOK, Passive, Up, Down, Passes, EverySessionAccounted, SessionInUse,
              NeverPanics, UnchangedBySender
  <1> USE LimitAssumption
  <1>1. CASE SenderStarts
    <2>1. config.interval > 0 /\ config.workers > 0
      BY <1>1, ConfigAssumption DEF SenderStarts, Validate
    <2>2. config.interval \in Int /\ config.workers \in Int  BY ConfigAssumption
    <2>3. ~(config.workers < 0) /\ (SecondsFit => ~(Duration(config.interval) <= 0))
      <3>1. SecondsFit => Fits(config.interval)  BY DEF SecondsFit
      <3>2. SecondsFit => ~(Duration(config.interval) <= 0)
        BY <2>1, <2>2, <3>1, PositiveDuration
      <3>3. QED BY <2>1, <2>2, <3>2
    <2>4. CASE Duration(config.interval) <= 0 \/ config.workers < 0
      BY <1>1, <2>3, <2>4 DEF SenderStarts, Dies, SecondsFit
    <2>5. CASE ~(Duration(config.interval) <= 0 \/ config.workers < 0)
      BY <1>1, <2>5 DEF SenderStarts, batchVars, sessionVars, Validate
    <2>6. QED BY <2>4, <2>5
  <1>2. CASE SenderStops  BY <1>2 DEF SenderStops, batchVars, sessionVars, Validate
  <1>3. CASE Tick  BY <1>3 DEF Tick, StartBatch, sessionVars, Validate
  <1>4. CASE TakeSlot
    <2>1. waiting - 1 \in 0 .. MaxBatch /\ calling + 1 \in 0 .. MaxBatch
      BY <1>4 DEF TakeSlot
    <2>2. (waiting - 1) + (calling + 1) <= MaxBatch  BY <1>4 DEF TakeSlot
    <2>3. QED BY <1>4, <2>1, <2>2 DEF TakeSlot, sessionVars, Validate
  <1>5. CASE FinishCall  BY <1>5 DEF FinishCall, sessionVars, Validate
  <1>6. CASE ConfirmEnds  BY <1>6 DEF ConfirmEnds, AllDone, batchVars, sessionVars, Validate
  <1>7. CASE LoadPending  BY <1>7 DEF LoadPending, StartBatch, batchVars, sessionVars, Validate
  <1>8. CASE OpenInSession  BY <1>8 DEF OpenInSession, StartBatch, Validate
  <1>9. CASE OpenFails  BY <1>9 DEF OpenFails, StartBatch, sessionVars, Validate
  <1>10. CASE SendEnds  BY <1>10 DEF SendEnds, AllDone, batchVars, sessionVars, Validate
  <1>11. CASE CloseInSession  BY <1>11 DEF CloseInSession, StartBatch, Validate
  <1>12. CASE WebhooksEnd  BY <1>12 DEF WebhooksEnd, AllDone, batchVars, sessionVars, Validate
  <1>13. QED
    BY <1>1, <1>2, <1>3, <1>4, <1>5, <1>6, <1>7, <1>8, <1>9, <1>10, <1>11, <1>12
    DEF SenderStep, CallAnswered, CallTimesOut

(* What the process does never breaks IInv.                                *)
LEMMA ProcessStep == IInv /\ [Next]_vars => IInv'
  <1> SUFFICES ASSUME IInv, [Next]_vars PROVE IInv'  OBVIOUS
  <1>1. CASE UNCHANGED vars
    BY <1>1 DEF vars, IInv, TypeOK, EverySessionAccounted, SessionInUse, NeverPanics, Validate,
                SecondsFit
  <1>2. CASE Next  BY <1>2, MainKeeps, SenderKeeps DEF Next
  <1>3. QED BY <1>1, <1>2

(* The inductive invariant.                                                *)
THEOREM ProcessInvariant == Spec => []IInv
  BY ProcessInit, ProcessStep, PTL DEF Spec

-----------------------------------------------------------------------------

(* Every variable has its type.                                            *)
THEOREM ProcessTypes == Spec => []TypeOK
  <1>1. IInv => TypeOK  BY DEF IInv
  <1>2. QED BY <1>1, ProcessInvariant, PTL

(* No configuration that Validate passes, and whose seconds fit into       *)
(* Durations, makes startSender panic.                                     *)
THEOREM ProcessNeverPanics == Spec => []NeverPanics
  <1>1. IInv => NeverPanics  BY DEF IInv
  <1>2. QED BY <1>1, ProcessInvariant, PTL

(* Whatever sessions KSeF gives out, loses or lets expire, and whenever a  *)
(* signal or a crash comes, sendInvoice forgets none it could have closed. *)
THEOREM SessionsAlwaysAccounted == Spec => []EverySessionAccounted
  <1>1. IInv => EverySessionAccounted  BY DEF IInv
  <1>2. QED BY <1>1, ProcessInvariant, PTL

(* When main returns nothing of the process is at work any more.           *)
THEOREM EndIsClean == Spec => []CleanEnd
  <1>1. IInv => CleanEnd
    <2> SUFFICES ASSUME IInv, phase = "ended" PROVE CleanEnd  BY DEF CleanEnd
    <2>1. sender = "done" /\ waiting = 0 /\ calling = 0 /\ requests = 0
      BY DEF IInv, Passive
    <2>2. session = NoSession  BY <2>1 DEF IInv
    <2>3. openAtKsef = excused
      BY <2>2 DEF IInv, TypeOK, EverySessionAccounted, SessionInUse
    <2>4. waiting + calling = 0  BY <2>1
    <2>5. QED BY <2>1, <2>2, <2>3, <2>4 DEF CleanEnd
  <1>2. QED BY <1>1, ProcessInvariant, PTL

(* The shared session reference is cleared after its last use only.        *)
THEOREM AlwaysClearedAfterUse == Spec => ClearedAfterUse
  <1>1. IInv /\ [Next]_vars
          => [session # NoSession /\ session' = NoSession
                => waiting + calling = 0 \/ phase' \in Down]_vars
    <2> SUFFICES ASSUME IInv, Next, session # NoSession, session' = NoSession
                 PROVE  waiting + calling = 0 \/ phase' \in Down
      OBVIOUS
    <2>1. CASE CloseInSession
      <3>1. waiting = 0 /\ calling = 0  BY <2>1 DEF CloseInSession, IInv, Passive
      <3>2. QED BY <3>1
    <2>2. CASE \E how \in Down : Dies(how)  BY <2>2 DEF Dies
    <2>3. CASE ~CloseInSession /\ ~\E how \in Down : Dies(how)
      <3> SUFFICES session' = session \/ session' # NoSession  OBVIOUS
      <3> USE DEF sessionVars, UnchangedBySender, Down
      <3>1. CASE MainStep
        BY <2>3, <3>1 DEF MainStep, Configure, Recover, BeginShutdown, ServerStopped,
                          ShutdownTimesOut, End
      <3>2. CASE SenderStep
        BY <2>3, <3>2, LimitAssumption
        DEF SenderStep, SenderStarts, Tick, TakeSlot, CallTimesOut, FinishCall, ConfirmEnds,
            LoadPending, OpenInSession, OpenFails, SendEnds, WebhooksEnd, LimitAssumption
      <3>3. CASE \/ SenderStops \/ CallAnswered \/ ServerFails \/ Arrive \/ Respond
                 \/ Signal \/ Crash \/ Restart \/ SessionExpires
        BY <2>3, <3>3
        DEF SenderStops, CallAnswered, FinishCall, ServerFails, Arrive, Respond, Signal,
            Crash, Restart, SessionExpires
      <3>4. QED BY <3>1, <3>2, <3>3 DEF Next
    <2>4. QED BY <2>1, <2>2, <2>3
  <1>2. QED BY <1>1, ProcessInvariant, PTL DEF Spec, ClearedAfterUse
=============================================================================
