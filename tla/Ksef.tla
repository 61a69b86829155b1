-------------------------------- MODULE Ksef --------------------------------
(***************************************************************************)
(* KSeF, the national e-invoicing system, as far as internal/ksef/send.go  *)
(* uses it: an invoice it takes in gets a reference, and later, at a       *)
(* moment of KSeF's choosing, a verdict that never changes again.  It is   *)
(* not part of the repository.                                             *)
(***************************************************************************)
EXTENDS InvoiceModel

VARIABLE submissions     \* what every reference stands for

Verdict == {"unused", "processing", "accepted", "rejected"}

Submission == [id : Id, ver : Version, verdict : Verdict]

KsefTypeOK == submissions \in [Ref -> Submission]

KsefInit == submissions = [r \in Ref |-> [id |-> 1, ver |-> 1, verdict |-> "unused"]]

Used(r) == submissions[r].verdict # "unused"

(* KSeF takes in content v of invoice i under the fresh reference r.       *)
Submit(i, v, r) ==
    /\ ~Used(r)
    /\ \A q \in Ref : q < r => Used(q)
    /\ submissions' = [submissions EXCEPT ![r] =
                          [id |-> i, ver |-> v, verdict |-> "processing"]]

Decide(r) ==
    /\ submissions[r].verdict = "processing"
    /\ \E v \in {"accepted", "rejected"} :
          submissions' = [submissions EXCEPT ![r].verdict = v]

=============================================================================
