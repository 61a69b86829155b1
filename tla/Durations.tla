------------------------------ MODULE Durations -----------------------------
(***************************************************************************)
(* time.Duration: a number of nanoseconds in 64 bits.  The program makes   *)
(* one of every number of seconds in its configuration and in the header   *)
(* Retry-After, by   time.Duration(s) * time.Second.                       *)
(***************************************************************************)
EXTENDS Integers

CONSTANTS
    Second,          \* time.Second; 10^9 in the program
    DurationBound    \* a Duration is below it; 2^63 in the program

ASSUME DurationAssumption ==
    /\ Second \in Nat \ {0}
    /\ DurationBound \in Nat \ {0}

(* The nanoseconds of s seconds fit into a Duration.                       *)
Fits(s) == -DurationBound <= s * Second /\ s * Second < DurationBound

(* MUTANT of Duration: the seconds are taken for nanoseconds.              *)
Nanoseconds(s) == s

(* The product, wrapping around.                                           *)
Duration(s) == ((s * Second + DurationBound) % (2 * DurationBound)) - DurationBound

=============================================================================
