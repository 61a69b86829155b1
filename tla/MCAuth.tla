------------------------------- MODULE MCAuth -------------------------------
(***************************************************************************)
(* Auth for TLC.                                                           *)
(***************************************************************************)
EXTENDS Auth

CONSTANTS w1, w2, w3

TwoWorkers == {w1, w2}
ThreeWorkers == {w1, w2, w3}

=============================================================================
