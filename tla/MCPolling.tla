------------------------------ MODULE MCPolling -----------------------------
(***************************************************************************)
(* Polling with 10 units to the second and Durations below 6.4 seconds: of *)
(* the headers, -7, 7 and 13 do not fit.                                   *)
(***************************************************************************)
EXTENDS Polling

Headers == {-7, -1, 0, 1, 5, 6, 7, 13}

=============================================================================
