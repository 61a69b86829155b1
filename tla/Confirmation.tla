---------------------------- MODULE Confirmation ----------------------------
(***************************************************************************)
(* What a call of WaitForSendingConfirmation is to its caller,             *)
(* confirmInvoice of cmd/sender.go: one step, at any time, that returns    *)
(* KSeF's verdict if there is one, or none and leaves the invoice for a    *)
(* later tick.                                                             *)
(***************************************************************************)

VARIABLES
    verdict,     \* KSeF: "processing", then "accepted" or "rejected"
    result       \* "none", then "accepted", "rejected" or "deferred"

vars == <<verdict, result>>

Init ==
    /\ verdict \in {"processing", "accepted", "rejected"}
    /\ result = "none"

Decide ==
    /\ verdict = "processing"
    /\ verdict' \in {"accepted", "rejected"}
    /\ UNCHANGED result

Confirm ==
    /\ result = "none"
    /\ \/ verdict \in {"accepted", "rejected"} /\ result' = verdict
       \/ result' = "deferred"
    /\ UNCHANGED verdict

Next == Decide \/ Confirm

Spec == Init /\ [][Next]_vars

=============================================================================
