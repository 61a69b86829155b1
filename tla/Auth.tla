-------------------------------- MODULE Auth --------------------------------
(***************************************************************************)
(* The KSeF tokens of internal/ksef/auth.go.  Every request of the client  *)
(* goes through ExecuteRequestTokenCheck: under the mutex it looks whether *)
(* the session token is about to expire, refreshes it or logs in again,    *)
(* and outside of the mutex it reads the token for its own header.         *)
(* Workers are the goroutines that make requests at the same time.         *)
(*                                                                         *)
(* A token is the moment at which it expires.  The string is read without  *)
(* the mutex, so a read that meets a write may see the old token, the new  *)
(* one, or the pointer of one and the length of the other.                 *)
(***************************************************************************)
EXTENDS Integers

CONSTANTS
    Worker,
    NoWorker,
    Margin,            \* checkToken: two minutes
    RedeemAttempts,    \* redeemToken: ten
    Life,              \* KSeF: how long a session token is valid
    RefreshLife,       \* KSeF: how long a refresh token is valid
    MaxTime            \* bound: the end of time

ASSUME WorkerAssumption == NoWorker \notin Worker
ASSUME TimeAssumption == /\ Margin \in Nat \ {0}
                         /\ RedeemAttempts \in Nat \ {0}
                         /\ Life \in Nat /\ Life >= Margin
                         /\ RefreshLife \in Nat
                         /\ MaxTime \in Nat

VARIABLES
    now,         \* the clock
    mu,          \* who holds the mutex
    session,     \* SessionToken, by its SessionTokenValidity; 0 if there is none
    refresh,     \* RefreshToken; 0 if there is none
    pc,          \* what every worker does next
    tries,       \* redeemToken: requests made
    fresh,       \* the token a worker received and has not stored yet
    header,      \* the token in the request of a worker
    checked      \* when a worker made sure of the token it will use

vars == <<now, mu, session, refresh, pc, tries, fresh, header, checked>>

Time == 0 .. MaxTime

Token == 0 .. (MaxTime + Life)

Torn == -1

Pc == {"idle", "lock", "check", "refresh", "login", "redeem", "store", "read", "send"}

TypeOK ==
    /\ now \in Time
    /\ mu \in Worker \cup {NoWorker}
    /\ session \in Token
    /\ refresh \in 0 .. (MaxTime + RefreshLife)
    /\ pc \in [Worker -> Pc]
    /\ tries \in [Worker -> 0 .. (RedeemAttempts - 1)]
    /\ fresh \in [Worker -> Token]
    /\ header \in [Worker -> Token \cup {Torn}]
    /\ checked \in [Worker -> Time]

Init ==
    /\ now = 0
    /\ mu = NoWorker
    /\ session = 0
    /\ refresh = 0
    /\ pc = [w \in Worker |-> "idle"]
    /\ tries = [w \in Worker |-> 0]
    /\ fresh = [w \in Worker |-> 0]
    /\ header = [w \in Worker |-> 0]
    /\ checked = [w \in Worker |-> 0]

-----------------------------------------------------------------------------

Goto(w, p) == pc' = [pc EXCEPT ![w] = p]

(* MUTANT of Due: a token is used until it has expired.                    *)
Expired == session - now < 0

Due == session - now < Margin

Start(w) ==
    /\ pc[w] = "idle"
    /\ Goto(w, "lock")
    /\ UNCHANGED <<now, mu, session, refresh, tries, fresh, header, checked>>

(* MUTANT of Acquire: no mutex.                                            *)
AcquireAtOnce(w) ==
    /\ pc[w] = "lock"
    /\ mu' = w
    /\ Goto(w, "check")
    /\ UNCHANGED <<now, session, refresh, tries, fresh, header, checked>>

Acquire(w) ==
    /\ pc[w] = "lock"
    /\ mu = NoWorker
    /\ mu' = w
    /\ Goto(w, "check")
    /\ UNCHANGED <<now, session, refresh, tries, fresh, header, checked>>

CheckToken(w) ==
    /\ pc[w] = "check"
    /\ IF Due
       THEN Goto(w, "refresh") /\ UNCHANGED <<mu, checked>>
       ELSE /\ Goto(w, "read")
            /\ mu' = NoWorker
            /\ checked' = [checked EXCEPT ![w] = now]
    /\ UNCHANGED <<now, session, refresh, tries, fresh, header>>

(* KSeF gives w a session token.                                           *)
Receive(w) ==
    /\ Goto(w, "store")
    /\ fresh' = [fresh EXCEPT ![w] = now + Life]
    /\ checked' = [checked EXCEPT ![w] = now]

(* MUTANT of Fail: the login is tried again.                               *)
LoginAgain(w) == Goto(w, "login") /\ UNCHANGED mu

(* checkToken, and with it the request, ends with an error.                *)
Fail(w) == Goto(w, "idle") /\ mu' = NoWorker

(* Whatever goes wrong with the refresh, Login is tried.                   *)
RefreshToken(w) ==
    /\ pc[w] = "refresh"
    /\ \/ refresh > now /\ Receive(w)
       \/ Goto(w, "login") /\ UNCHANGED <<fresh, checked>>
    /\ UNCHANGED <<now, mu, session, refresh, tries, header>>

(* The keys, the challenge and the encrypted token: any of them may fail.  *)
Login(w) ==
    /\ pc[w] = "login"
    /\ \/ /\ Goto(w, "redeem")
          /\ tries' = [tries EXCEPT ![w] = 0]
          /\ UNCHANGED mu
       \/ Fail(w) /\ UNCHANGED tries
    /\ UNCHANGED <<now, session, refresh, fresh, header, checked>>

(* MUTANT of RedeemsLeft: off by one.                                      *)
OneMoreRedeem(w) == tries[w] < RedeemAttempts

RedeemsLeft(w) == tries[w] + 1 < RedeemAttempts

(* KSeF may ask to wait (400, 429), up to the last of the attempts.  Only  *)
(* the holder of the mutex sees the refresh token, so it is set at once.   *)
RedeemToken(w) ==
    /\ pc[w] = "redeem"
    /\ \/ /\ Receive(w)
          /\ refresh' = now + RefreshLife
          /\ UNCHANGED <<mu, tries>>
       \/ /\ RedeemsLeft(w)
          /\ tries' = [tries EXCEPT ![w] = @ + 1]
          /\ UNCHANGED <<mu, refresh, pc, fresh, checked>>
       \/ Fail(w) /\ UNCHANGED <<refresh, tries, fresh, checked>>
    /\ UNCHANGED <<now, session, header>>

(* The assignments at the end of refreshToken or Login, and the Unlock.    *)
Store(w) ==
    /\ pc[w] = "store"
    /\ session' = fresh[w]
    /\ mu' = NoWorker
    /\ Goto(w, "read")
    /\ UNCHANGED <<now, refresh, tries, fresh, header, checked>>

ReadToken(w) ==
    /\ pc[w] = "read"
    /\ LET written == {fresh[v] : v \in {u \in Worker : pc[u] = "store"}}
       IN  \E t \in {session} \cup written \cup (IF written = {} THEN {} ELSE {Torn}) :
              header' = [header EXCEPT ![w] = t]
    /\ Goto(w, "send")
    /\ UNCHANGED <<now, mu, session, refresh, tries, fresh, checked>>

SendRequest(w) ==
    /\ pc[w] = "send"
    /\ Goto(w, "idle")
    /\ UNCHANGED <<now, mu, session, refresh, tries, fresh, header, checked>>

(* Between the check and the request goes less time than Margin.           *)
Tick ==
    /\ now < MaxTime
    /\ \A w \in Worker :
          pc[w] \in {"store", "read", "send"} => now + 1 < checked[w] + Margin
    /\ now' = now + 1
    /\ UNCHANGED <<mu, session, refresh, pc, tries, fresh, header, checked>>

Step(w) == \/ CheckToken(w) \/ RefreshToken(w) \/ Login(w) \/ RedeemToken(w)
           \/ Store(w) \/ ReadToken(w) \/ SendRequest(w)

Next == Tick \/ \E w \in Worker : Start(w) \/ Acquire(w) \/ Step(w)

(* Every HTTP call ends, and Go's mutex lets nobody wait for ever.         *)
Fairness == \A w \in Worker : WF_vars(Step(w)) /\ SF_vars(Acquire(w))

Spec == Init /\ [][Next]_vars /\ Fairness

-----------------------------------------------------------------------------

(* A request leaves with a token that has not expired, although the token  *)
(* is read after the mutex is released and others may replace it then;     *)
(* unless the read meets the very write (ExecuteRequestTokenCheck).        *)
CarriesValidToken ==
    \A w \in Worker : pc[w] = "send" /\ header[w] # Torn => header[w] > now

(* Goroutines that waited for the mutex do not refresh, or log in, again:  *)
(* whoever does so replaces a token that is due, never one another just    *)
(* obtained (checkToken).                                                  *)
RefreshesOnlyDue ==
    \A w \in Worker : pc[w] \in {"refresh", "login", "redeem", "store"} => mu = w /\ Due

(* A request does not hang in the token check: each one is sent or fails.  *)
RequestsEnd == \A w \in Worker : pc[w] = "lock" ~> pc[w] = "idle"

-----------------------------------------------------------------------------
(* The inductive invariant behind the two                                  *)

Locked == {"check", "refresh", "login", "redeem", "store"}

(* Who is between Lock and Unlock holds the mutex.                         *)
MutexHeld == \A w \in Worker : pc[w] \in Locked => mu = w

(* The token a worker is to use, or will meet when it reads, lasts for     *)
(* Margin from the moment it checked.                                      *)
TokensLast ==
    \A w \in Worker :
        /\ checked[w] <= now
        /\ pc[w] \in {"store", "read", "send"} => now < checked[w] + Margin
        /\ pc[w] = "store" => fresh[w] >= checked[w] + Margin
        /\ pc[w] = "read" =>
              /\ session >= checked[w] + Margin
              /\ \A v \in Worker : pc[v] = "store" => fresh[v] >= checked[w] + Margin
        /\ pc[w] = "send" /\ header[w] # Torn => header[w] >= checked[w] + Margin

IInv == TypeOK /\ MutexHeld /\ RefreshesOnlyDue /\ TokensLast

=============================================================================
