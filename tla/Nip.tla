-------------------------------- MODULE Nip --------------------------------
(***************************************************************************)
(* validateNIP: the check digit of a Polish tax number.                    *)
(* A NIP of the right length is a function from its ten places to digits;  *)
(* Letter is any character that is no digit.  Another length is refused at *)
(* once and is not modelled.                                               *)
(***************************************************************************)
EXTENDS Integers

Place == 1 .. 10
Digit == 0 .. 9
Letter == 10

NipText == [Place -> Digit \cup {Letter}]

WeightedSum(n) == 6 * n[1] + 5 * n[2] + 7 * n[3] + 2 * n[4] + 3 * n[5]
                  + 4 * n[6] + 5 * n[7] + 6 * n[8] + 7 * n[9]

(* MUTANT of validateNIP: modulo 10.                                       *)
ValidModuloTen(n) ==
    /\ \A i \in 1 .. 9 : n[i] \in Digit
    /\ WeightedSum(n) % 10 = n[10]

(* A remainder of 10 has two digits and equals no last character.          *)
validateNIP(n) ==
    /\ \A i \in 1 .. 9 : n[i] \in Digit
    /\ WeightedSum(n) % 11 # 10
    /\ WeightedSum(n) % 11 = n[10]

(* The usual typing errors: one character is wrong, two neighbours are     *)
(* swapped.                                                                *)
OneWrong(n) == {[n EXCEPT ![i] = d] : i \in Place, d \in Digit \cup {Letter}} \ {n}

SwappedAt(n, i) == [n EXCEPT ![i] = n[i + 1], ![i + 1] = n[i]]

Swapped(n) == {SwappedAt(n, i) : i \in 1 .. 9} \ {n}

Typos(n) == OneWrong(n) \cup Swapped(n)

=============================================================================
