----------------------------- MODULE Lifecycle ------------------------------
(***************************************************************************)
(* What the service promises to whoever hands it invoices, whatever the    *)
(* sender, the table and the network do meanwhile.                         *)
(*                                                                         *)
(* An invoice is open until it has an outcome.  While it is open its       *)
(* content is fixed, and only that content is handed to KSeF.  `sent` is   *)
(* final and means that KSeF accepted the content; only a failed invoice   *)
(* is given new content or removed; the id of a removed one is not used    *)
(* again.                                                                  *)
(***************************************************************************)
EXTENDS Naturals

CONSTANTS Id, Version

VARIABLES
    stage,        \* what the client sees of every id
    content,      \* the content the invoice has now
    offered,      \* contents KSeF took in
    accepted      \* those of them KSeF accepted

vars == <<stage, content, offered, accepted>>

Stage == {"unborn", "open", "failed", "sent", "removed"}

Init ==
    /\ stage = [i \in Id |-> "unborn"]
    /\ content = [i \in Id |-> 1]
    /\ offered = {}
    /\ accepted = {}

Create(i) ==
    /\ stage[i] = "unborn"
    /\ stage' = [stage EXCEPT ![i] = "open"]
    /\ UNCHANGED <<content, offered, accepted>>

Replace(i) ==
    /\ stage[i] = "failed"
    /\ stage' = [stage EXCEPT ![i] = "open"]
    /\ content' = [content EXCEPT ![i] = @ + 1]
    /\ UNCHANGED <<offered, accepted>>

Remove(i) ==
    /\ stage[i] = "failed"
    /\ stage' = [stage EXCEPT ![i] = "removed"]
    /\ content' = [content EXCEPT ![i] = 1]
    /\ UNCHANGED <<offered, accepted>>

Offer(i) ==
    /\ stage[i] = "open"
    /\ offered' = offered \cup {<<i, content[i]>>}
    /\ UNCHANGED <<stage, content, accepted>>

Accept ==
    /\ \E o \in offered : accepted' = accepted \cup {o}
    /\ UNCHANGED <<stage, content, offered>>

Fail(i) ==
    /\ stage[i] = "open"
    /\ stage' = [stage EXCEPT ![i] = "failed"]
    /\ UNCHANGED <<content, offered, accepted>>

Send(i) ==
    /\ stage[i] = "open"
    /\ <<i, content[i]>> \in accepted
    /\ stage' = [stage EXCEPT ![i] = "sent"]
    /\ UNCHANGED <<content, offered, accepted>>

Next == \/ Accept
        \/ \E i \in Id : \/ Create(i) \/ Replace(i) \/ Remove(i)
                         \/ Offer(i) \/ Fail(i) \/ Send(i)

Spec == Init /\ [][Next]_vars

=============================================================================
