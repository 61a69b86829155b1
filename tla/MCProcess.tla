----------------------------- MODULE MCProcess -----------------------------
(***************************************************************************)
(* Process for TLC, with 10 units to the second and Durations below 6.4    *)
(* seconds.                                                                *)
(***************************************************************************)
EXTENDS Process

CONSTANTS s1, s2

TwoSessions == {s1, s2}

(* The smallest values that are right, every field wrong by one, and the   *)
(* seconds that overflow a Duration.                                       *)
Good == [interval |-> 1, workers |-> 1, httpTimeout |-> 1, shutdownTimeout |-> 1, rest |-> TRUE]

Configs ==
    {Good, [Good EXCEPT !.workers = 2], [Good EXCEPT !.workers = 0],
     [Good EXCEPT !.workers = -1], [Good EXCEPT !.interval = 0],
     [Good EXCEPT !.httpTimeout = 0], [Good EXCEPT !.shutdownTimeout = 0],
     [Good EXCEPT !.interval = 7], [Good EXCEPT !.httpTimeout = 7],
     [Good EXCEPT !.shutdownTimeout = 7], [Good EXCEPT !.rest = FALSE]}

=============================================================================
