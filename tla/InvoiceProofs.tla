--------------------------- MODULE InvoiceProofs ---------------------------
(***************************************************************************)
(* What holds of every NIP, every document and every list of amounts: the  *)
(* check digit; that TransformToXML can rely on ValidateInvoiceReceived;   *)
(* and that the XML balances, although float64 is summed up.               *)
(*                                                                         *)
(* The handler forgets what the checks said: TransformToXML sees only the  *)
(* document, changed by WithDefaults.  Mappable is what is left in it of   *)
(* the checks, and what the invariant IInv carries from Accept to          *)
(* TransformToXML and beyond.                                              *)
(***************************************************************************)
EXTENDS InvoiceMapping, TLAPS, FiniteSetTheorems, WellFoundedInduction

-----------------------------------------------------------------------------
(* What the check digit of validateNIP detects, for every NIP.             *)
(*                                                                         *)
(* Two accepted numbers that differ in one place have weighted sums that   *)
(* differ by weight * difference, and leave the remainders of their last   *)
(* digits modulo 11.  11 is prime, every weight is below 11, and so is     *)
(* every difference of digits, so the difference is 0.  A swap of two      *)
(* neighbours is a difference times the difference of two weights.         *)

(* A product of two small numbers that 11 divides is 0.                    *)
LEMMA SmallProduct ==
    ASSUME NEW w \in 1 .. 10, NEW x \in Int, -9 <= x, x <= 9, NEW q \in Int, w * x = 11 * q
    PROVE  x = 0
  <1>1. CASE w = 1  BY <1>1, SMT
  <1>2. CASE w = 2  BY <1>2, SMT
  <1>3. CASE w = 3  BY <1>3, SMT
  <1>4. CASE w = 4  BY <1>4, SMT
  <1>5. CASE w = 5  BY <1>5, SMT
  <1>6. CASE w = 6  BY <1>6, SMT
  <1>7. CASE w = 7  BY <1>7, SMT
  <1>8. CASE w = 8  BY <1>8, SMT
  <1>9. CASE w = 9  BY <1>9, SMT
  <1>10. CASE w = 10 BY <1>10, SMT
  <1>11. QED BY <1>1, <1>2, <1>3, <1>4, <1>5, <1>6, <1>7, <1>8, <1>9, <1>10

(* Numbers with remainders r and s modulo 11 differ by r - s, up to a      *)
(* multiple of 11.                                                         *)
LEMMA Remainders ==
    ASSUME NEW a \in Int, NEW b \in Int
    PROVE  \E q \in Int : a - b = 11 * q + ((a % 11) - (b % 11))
  <1>1. a = 11 * (a \div 11) + (a % 11) /\ b = 11 * (b \div 11) + (b % 11)  BY SMT
  <1>2. a \div 11 \in Int /\ b \div 11 \in Int /\ a % 11 \in Int /\ b % 11 \in Int  BY SMT
  <1>3. a - b = 11 * ((a \div 11) - (b \div 11)) + ((a % 11) - (b % 11))  BY <1>1, <1>2, SMT
  <1>4. (a \div 11) - (b \div 11) \in Int  BY <1>2, SMT
  <1>5. QED BY <1>3, <1>4

(* An accepted text consists of digits.                                    *)
LEMMA AcceptedIsDigits ==
    ASSUME NEW n \in NipText, validateNIP(n)
    PROVE  n \in [Place -> Digit]
  <1>1. \A i \in 1 .. 9 : n[i] \in Digit  BY DEF validateNIP
  <1>2. WeightedSum(n) \in Int
    <2> DEFINE k == [j \in Place |-> IF j \in 1 .. 9 THEN n[j] ELSE 0]
    <2>1. k \in [Place -> Int] /\ \A j \in 1 .. 9 : k[j] = n[j]  BY <1>1, SMT DEF Digit, Place
    <2> HIDE DEF k
    <2>2. WeightedSum(k) \in Int  BY <2>1, SMT DEF WeightedSum, Place
    <2>3. WeightedSum(k) = WeightedSum(n)  BY <2>1, SMT DEF WeightedSum
    <2>4. QED BY <2>2, <2>3
  <1>3. n[10] \in Digit
    BY <1>2, SMT DEF validateNIP, Digit, NipText, Place, Letter
  <1>4. QED BY <1>1, <1>3, SMT DEF NipText, Place

(* The sums of texts that differ in one place only.                        *)
LEMMA OneDifference ==
    ASSUME NEW n \in [Place -> Digit], NEW m \in [Place -> Digit], NEW i \in 1 .. 9,
           \A j \in Place : j # i => m[j] = n[j]
    PROVE  \E w \in 1 .. 10 : WeightedSum(m) - WeightedSum(n) = w * (m[i] - n[i])
  <1> DEFINE Differs(w) == WeightedSum(m) - WeightedSum(n) = w * (m[i] - n[i])
  <1>1. \A j \in Place : m[j] \in Int /\ n[j] \in Int  BY SMT DEF Digit, Place
  <1>2. CASE i = 1
    <2>1. Differs(6)  BY <1>1, <1>2, SMT DEF WeightedSum, Place
    <2>2. QED BY <2>1, SMT
  <1>3. CASE i = 2
    <2>1. Differs(5)  BY <1>1, <1>3, SMT DEF WeightedSum, Place
    <2>2. QED BY <2>1, SMT
  <1>4. CASE i = 3
    <2>1. Differs(7)  BY <1>1, <1>4, SMT DEF WeightedSum, Place
    <2>2. QED BY <2>1, SMT
  <1>5. CASE i = 4
    <2>1. Differs(2)  BY <1>1, <1>5, SMT DEF WeightedSum, Place
    <2>2. QED BY <2>1, SMT
  <1>6. CASE i = 5
    <2>1. Differs(3)  BY <1>1, <1>6, SMT DEF WeightedSum, Place
    <2>2. QED BY <2>1, SMT
  <1>7. CASE i = 6
    <2>1. Differs(4)  BY <1>1, <1>7, SMT DEF WeightedSum, Place
    <2>2. QED BY <2>1, SMT
  <1>8. CASE i = 7
    <2>1. Differs(5)  BY <1>1, <1>8, SMT DEF WeightedSum, Place
    <2>2. QED BY <2>1, SMT
  <1>9. CASE i = 8
    <2>1. Differs(6)  BY <1>1, <1>9, SMT DEF WeightedSum, Place
    <2>2. QED BY <2>1, SMT
  <1>10. CASE i = 9
    <2>1. Differs(7)  BY <1>1, <1>10, SMT DEF WeightedSum, Place
    <2>2. QED BY <2>1, SMT
  <1>11. QED BY <1>2, <1>3, <1>4, <1>5, <1>6, <1>7, <1>8, <1>9, <1>10, SMT

(* The sums of two accepted numbers differ, modulo 11, as their last       *)
(* digits do.                                                              *)
LEMMA SumsOfAccepted ==
    ASSUME NEW n \in [Place -> Digit], NEW m \in [Place -> Digit],
           validateNIP(n), validateNIP(m)
    PROVE  \E q \in Int : WeightedSum(m) - WeightedSum(n) = 11 * q + (m[10] - n[10])
  <1>1. \A j \in Place : m[j] \in Int /\ n[j] \in Int  BY SMT DEF Digit, Place
  <1>2. WeightedSum(m) \in Int /\ WeightedSum(n) \in Int
    BY <1>1, SMT DEF WeightedSum, Place
  <1>3. PICK q \in Int : WeightedSum(m) - WeightedSum(n)
                          = 11 * q + ((WeightedSum(m) % 11) - (WeightedSum(n) % 11))
    BY <1>2, Remainders
  <1>4. QED BY <1>3 DEF validateNIP

(* One wrong character, the check digit included, is never accepted        *)
(* (validateNIP, invoice_mapping.go).                                      *)
THEOREM OneWrongIsRefused ==
    ASSUME NEW n \in NipText, validateNIP(n), NEW i \in Place, NEW d \in Digit \cup {Letter},
           d # n[i]
    PROVE  ~validateNIP([n EXCEPT ![i] = d])
  <1> DEFINE m == [n EXCEPT ![i] = d]
  <1> SUFFICES ASSUME validateNIP(m) PROVE FALSE  OBVIOUS
  <1>1. n \in [Place -> Digit]  BY AcceptedIsDigits
  <1>2. m \in NipText  BY DEF NipText
  <1>3. m \in [Place -> Digit]  BY <1>2, AcceptedIsDigits
  <1>4. m[i] = d /\ \A j \in Place : j # i => m[j] = n[j]  BY <1>1
  <1>5. m[i] \in Digit /\ n[i] \in Digit  BY <1>1, <1>3
  <1> HIDE DEF m
  <1>6. PICK q \in Int : WeightedSum(m) - WeightedSum(n) = 11 * q + (m[10] - n[10])
    BY <1>1, <1>3, SumsOfAccepted
  <1>7. CASE i = 10
    <2>1. WeightedSum(m) = WeightedSum(n)  BY <1>4, <1>7, SMT DEF WeightedSum, Place
    <2>2. m[10] = n[10]  BY <2>1 DEF validateNIP
    <2>3. QED BY <2>2, <1>4, <1>7
  <1>8. CASE i \in 1 .. 9
    <2>1. PICK w \in 1 .. 10 : WeightedSum(m) - WeightedSum(n) = w * (m[i] - n[i])
      BY <1>1, <1>3, <1>4, <1>8, OneDifference
    <2>2. m[10] = n[10]  BY <1>4, <1>8, SMT DEF Place
    <2>3. m[10] - n[10] = 0  BY <1>1, <2>2, SMT DEF Place, Digit
    <2>4. w * (m[i] - n[i]) = 11 * q  BY <1>6, <2>1, <2>3, SMT
    <2>5. m[i] - n[i] \in Int /\ -9 <= m[i] - n[i] /\ m[i] - n[i] <= 9
      BY <1>5, SMT DEF Digit
    <2>6. m[i] - n[i] = 0  BY <2>4, <2>5, SmallProduct
    <2>7. m[i] = n[i]  BY <2>6, <1>5, SMT DEF Digit
    <2>8. QED BY <2>7, <1>4
  <1>9. QED BY <1>7, <1>8, SMT DEF Place

(* The sums of texts in which two neighbours are swapped: neighbouring     *)
(* weights differ by 1, 2 or 5, and 7 + 1 counts before the check digit.   *)
LEMMA SwapDifference ==
    ASSUME NEW n \in [Place -> Digit], NEW m \in [Place -> Digit], NEW i \in 1 .. 9,
           m[i] = n[i + 1], m[i + 1] = n[i],
           \A j \in Place : j # i /\ j # i + 1 => m[j] = n[j],
           NEW q \in Int, WeightedSum(m) - WeightedSum(n) = 11 * q + (m[10] - n[10])
    PROVE  \E w \in 1 .. 10 : \/ w * (n[i] - n[i + 1]) = 11 * q
                              \/ w * (n[i + 1] - n[i]) = 11 * q
  <1>0. /\ n[1] \in Int /\ n[2] \in Int /\ n[3] \in Int /\ n[4] \in Int /\ n[5] \in Int
        /\ n[6] \in Int /\ n[7] \in Int /\ n[8] \in Int /\ n[9] \in Int /\ n[10] \in Int
    BY SMT DEF Place, Digit
  <1>1. CASE i = 1
    <2>1. m[1] = n[2] /\ m[2] = n[1] /\ i + 1 = 2  BY <1>1, SMT
    <2>2. /\ m[3] = n[3] /\ m[4] = n[4] /\ m[5] = n[5] /\ m[6] = n[6]
          /\ m[7] = n[7] /\ m[8] = n[8] /\ m[9] = n[9] /\ m[10] = n[10]
      BY <1>1, <2>1, SMT DEF Place
    <2>3. WeightedSum(m) = 6 * n[2] + 5 * n[1] + 7 * n[3] + 2 * n[4] + 3 * n[5]
                           + 4 * n[6] + 5 * n[7] + 6 * n[8] + 7 * n[9]
      BY <2>1, <2>2 DEF WeightedSum
    <2>4. WeightedSum(m) - WeightedSum(n) = 1 * (n[2] - n[1])
      BY ONLY <1>0, <2>3, SMTT(60) DEF WeightedSum
    <2>5. 1 * (n[2] - n[1]) = 11 * q  BY <1>0, <2>2, <2>4, SMT
    <2>6. QED BY <2>1, <2>5, <1>1, SMT
  <1>2. CASE i = 2
    <2>1. m[2] = n[3] /\ m[3] = n[2] /\ i + 1 = 3  BY <1>2, SMT
    <2>2. /\ m[1] = n[1] /\ m[4] = n[4] /\ m[5] = n[5] /\ m[6] = n[6]
          /\ m[7] = n[7] /\ m[8] = n[8] /\ m[9] = n[9] /\ m[10] = n[10]
      BY <1>2, <2>1, SMT DEF Place
    <2>3. WeightedSum(m) = 6 * n[1] + 5 * n[3] + 7 * n[2] + 2 * n[4] + 3 * n[5]
                           + 4 * n[6] + 5 * n[7] + 6 * n[8] + 7 * n[9]
      BY <2>1, <2>2 DEF WeightedSum
    <2>4. WeightedSum(m) - WeightedSum(n) = 2 * (n[2] - n[3])
      BY ONLY <1>0, <2>3, SMTT(60) DEF WeightedSum
    <2>5. 2 * (n[2] - n[3]) = 11 * q  BY <1>0, <2>2, <2>4, SMT
    <2>6. QED BY <2>1, <2>5, <1>2, SMT
  <1>3. CASE i = 3
    <2>1. m[3] = n[4] /\ m[4] = n[3] /\ i + 1 = 4  BY <1>3, SMT
    <2>2. /\ m[1] = n[1] /\ m[2] = n[2] /\ m[5] = n[5] /\ m[6] = n[6]
          /\ m[7] = n[7] /\ m[8] = n[8] /\ m[9] = n[9] /\ m[10] = n[10]
      BY <1>3, <2>1, SMT DEF Place
    <2>3. WeightedSum(m) = 6 * n[1] + 5 * n[2] + 7 * n[4] + 2 * n[3] + 3 * n[5]
                           + 4 * n[6] + 5 * n[7] + 6 * n[8] + 7 * n[9]
      BY <2>1, <2>2 DEF WeightedSum
    <2>4. WeightedSum(m) - WeightedSum(n) = 5 * (n[4] - n[3])
      BY ONLY <1>0, <2>3, SMTT(60) DEF WeightedSum
    <2>5. 5 * (n[4] - n[3]) = 11 * q  BY <1>0, <2>2, <2>4, SMT
    <2>6. QED BY <2>1, <2>5, <1>3, SMT
  <1>4. CASE i = 4
    <2>1. m[4] = n[5] /\ m[5] = n[4] /\ i + 1 = 5  BY <1>4, SMT
    <2>2. /\ m[1] = n[1] /\ m[2] = n[2] /\ m[3] = n[3] /\ m[6] = n[6]
          /\ m[7] = n[7] /\ m[8] = n[8] /\ m[9] = n[9] /\ m[10] = n[10]
      BY <1>4, <2>1, SMT DEF Place
    <2>3. WeightedSum(m) = 6 * n[1] + 5 * n[2] + 7 * n[3] + 2 * n[5] + 3 * n[4]
                           + 4 * n[6] + 5 * n[7] + 6 * n[8] + 7 * n[9]
      BY <2>1, <2>2 DEF WeightedSum
    <2>4. WeightedSum(m) - WeightedSum(n) = 1 * (n[4] - n[5])
      BY ONLY <1>0, <2>3, SMTT(60) DEF WeightedSum
    <2>5. 1 * (n[4] - n[5]) = 11 * q  BY <1>0, <2>2, <2>4, SMT
    <2>6. QED BY <2>1, <2>5, <1>4, SMT
  <1>5. CASE i = 5
    <2>1. m[5] = n[6] /\ m[6] = n[5] /\ i + 1 = 6  BY <1>5, SMT
    <2>2. /\ m[1] = n[1] /\ m[2] = n[2] /\ m[3] = n[3] /\ m[4] = n[4]
          /\ m[7] = n[7] /\ m[8] = n[8] /\ m[9] = n[9] /\ m[10] = n[10]
      BY <1>5, <2>1, SMT DEF Place
    <2>3. WeightedSum(m) = 6 * n[1] + 5 * n[2] + 7 * n[3] + 2 * n[4] + 3 * n[6]
                           + 4 * n[5] + 5 * n[7] + 6 * n[8] + 7 * n[9]
      BY <2>1, <2>2 DEF WeightedSum
    <2>4. WeightedSum(m) - WeightedSum(n) = 1 * (n[5] - n[6])
      BY ONLY <1>0, <2>3, SMTT(60) DEF WeightedSum
    <2>5. 1 * (n[5] - n[6]) = 11 * q  BY <1>0, <2>2, <2>4, SMT
    <2>6. QED BY <2>1, <2>5, <1>5, SMT
  <1>6. CASE i = 6
    <2>1. m[6] = n[7] /\ m[7] = n[6] /\ i + 1 = 7  BY <1>6, SMT
    <2>2. /\ m[1] = n[1] /\ m[2] = n[2] /\ m[3] = n[3] /\ m[4] = n[4]
          /\ m[5] = n[5] /\ m[8] = n[8] /\ m[9] = n[9] /\ m[10] = n[10]
      BY <1>6, <2>1, SMT DEF Place
    <2>3. WeightedSum(m) = 6 * n[1] + 5 * n[2] + 7 * n[3] + 2 * n[4] + 3 * n[5]
                           + 4 * n[7] + 5 * n[6] + 6 * n[8] + 7 * n[9]
      BY <2>1, <2>2 DEF WeightedSum
    <2>4. WeightedSum(m) - WeightedSum(n) = 1 * (n[6] - n[7])
      BY ONLY <1>0, <2>3, SMTT(60) DEF WeightedSum
    <2>5. 1 * (n[6] - n[7]) = 11 * q  BY <1>0, <2>2, <2>4, SMT
    <2>6. QED BY <2>1, <2>5, <1>6, SMT
  <1>7. CASE i = 7
    <2>1. m[7] = n[8] /\ m[8] = n[7] /\ i + 1 = 8  BY <1>7, SMT
    <2>2. /\ m[1] = n[1] /\ m[2] = n[2] /\ m[3] = n[3] /\ m[4] = n[4]
          /\ m[5] = n[5] /\ m[6] = n[6] /\ m[9] = n[9] /\ m[10] = n[10]
      BY <1>7, <2>1, SMT DEF Place
    <2>3. WeightedSum(m) = 6 * n[1] + 5 * n[2] + 7 * n[3] + 2 * n[4] + 3 * n[5]
                           + 4 * n[6] + 5 * n[8] + 6 * n[7] + 7 * n[9]
      BY <2>1, <2>2 DEF WeightedSum
    <2>4. WeightedSum(m) - WeightedSum(n) = 1 * (n[7] - n[8])
      BY ONLY <1>0, <2>3, SMTT(60) DEF WeightedSum
    <2>5. 1 * (n[7] - n[8]) = 11 * q  BY <1>0, <2>2, <2>4, SMT
    <2>6. QED BY <2>1, <2>5, <1>7, SMT
  <1>8. CASE i = 8
    <2>1. m[8] = n[9] /\ m[9] = n[8] /\ i + 1 = 9  BY <1>8, SMT
    <2>2. /\ m[1] = n[1] /\ m[2] = n[2] /\ m[3] = n[3] /\ m[4] = n[4]
          /\ m[5] = n[5] /\ m[6] = n[6] /\ m[7] = n[7] /\ m[10] = n[10]
      BY <1>8, <2>1, SMT DEF Place
    <2>3. WeightedSum(m) = 6 * n[1] + 5 * n[2] + 7 * n[3] + 2 * n[4] + 3 * n[5]
                           + 4 * n[6] + 5 * n[7] + 6 * n[9] + 7 * n[8]
      BY <2>1, <2>2 DEF WeightedSum
    <2>4. WeightedSum(m) - WeightedSum(n) = 1 * (n[8] - n[9])
      BY ONLY <1>0, <2>3, SMTT(60) DEF WeightedSum
    <2>5. 1 * (n[8] - n[9]) = 11 * q  BY <1>0, <2>2, <2>4, SMT
    <2>6. QED BY <2>1, <2>5, <1>8, SMT
  <1>9. CASE i = 9
    <2>1. m[9] = n[10] /\ m[10] = n[9] /\ i + 1 = 10  BY <1>9, SMT
    <2>2. /\ m[1] = n[1] /\ m[2] = n[2] /\ m[3] = n[3] /\ m[4] = n[4]
          /\ m[5] = n[5] /\ m[6] = n[6] /\ m[7] = n[7] /\ m[8] = n[8]
      BY <1>9, <2>1, SMT DEF Place
    <2>3. WeightedSum(m) = 6 * n[1] + 5 * n[2] + 7 * n[3] + 2 * n[4] + 3 * n[5]
                           + 4 * n[6] + 5 * n[7] + 6 * n[8] + 7 * n[10]
      BY <2>1, <2>2 DEF WeightedSum
    <2>4. WeightedSum(m) - WeightedSum(n) = 7 * (n[10] - n[9])
      BY ONLY <1>0, <2>3, SMTT(60) DEF WeightedSum
    <2>5. 7 * (n[10] - n[9]) = 11 * q + (n[9] - n[10])  BY <2>1, <2>4
    <2>6. 8 * (n[10] - n[9]) = 11 * q  BY ONLY <1>0, <2>5, q \in Int, SMT
    <2>7. QED BY <2>1, <2>6, <1>9, SMT
  <1>10. QED BY <1>1, <1>2, <1>3, <1>4, <1>5, <1>6, <1>7, <1>8, <1>9, SMT

(* Swapping two neighbouring characters that differ is never accepted: no  *)
(* two neighbouring weights are equal, and the weight before the check     *)
(* digit is not -1 modulo 11 (validateNIP, invoice_mapping.go).            *)
THEOREM SwapIsRefused ==
    ASSUME NEW n \in NipText, validateNIP(n), NEW i \in 1 .. 9, n[i] # n[i + 1]
    PROVE  ~validateNIP(SwappedAt(n, i))
  <1> DEFINE m == SwappedAt(n, i)
  <1> SUFFICES ASSUME validateNIP(m) PROVE FALSE  OBVIOUS
  <1>1. n \in [Place -> Digit]  BY AcceptedIsDigits
  <1>2. i \in Place /\ i + 1 \in Place /\ i + 1 # i  BY SMT DEF Place
  <1>3. /\ m \in NipText
        /\ m[i] = n[i + 1] /\ m[i + 1] = n[i]
        /\ \A j \in Place : j # i /\ j # i + 1 => m[j] = n[j]
    BY <1>2 DEF SwappedAt, NipText
  <1> HIDE DEF m
  <1>4. m \in [Place -> Digit]  BY <1>3, AcceptedIsDigits
  <1>5. PICK q \in Int : WeightedSum(m) - WeightedSum(n) = 11 * q + (m[10] - n[10])
    BY <1>1, <1>4, SumsOfAccepted
  <1>6. n[i] \in Digit /\ n[i + 1] \in Digit  BY <1>1, <1>2
  <1>7. PICK w \in 1 .. 10 : \/ w * (n[i] - n[i + 1]) = 11 * q
                             \/ w * (n[i + 1] - n[i]) = 11 * q
    BY <1>1, <1>3, <1>4, <1>5, SwapDifference
  <1>8. CASE w * (n[i] - n[i + 1]) = 11 * q
    <2>1. n[i] - n[i + 1] \in Int /\ -9 <= n[i] - n[i + 1] /\ n[i] - n[i + 1] <= 9
      BY <1>6, SMT DEF Digit
    <2>2. n[i] - n[i + 1] = 0  BY <1>8, <2>1, SmallProduct
    <2>3. QED BY <2>2, <1>6, SMT DEF Digit
  <1>9. CASE w * (n[i + 1] - n[i]) = 11 * q
    <2>1. n[i + 1] - n[i] \in Int /\ -9 <= n[i + 1] - n[i] /\ n[i + 1] - n[i] <= 9
      BY <1>6, SMT DEF Digit
    <2>2. n[i + 1] - n[i] = 0  BY <1>9, <2>1, SmallProduct
    <2>3. QED BY <2>2, <1>6, SMT DEF Digit
  <1>10. QED BY <1>7, <1>8, <1>9

(* The check digit of validateNIP rules out every usual typing error in    *)
(* an accepted number.                                                     *)
THEOREM NoTypo ==
    \A n \in NipText : validateNIP(n) => \A t \in Typos(n) : ~validateNIP(t)
  <1> SUFFICES ASSUME NEW n \in NipText, validateNIP(n), NEW t \in Typos(n)
               PROVE  ~validateNIP(t)
    OBVIOUS
  <1>1. CASE t \in OneWrong(n)
    <2>1. PICK i \in Place, d \in Digit \cup {Letter} : t = [n EXCEPT ![i] = d] /\ t # n
      BY <1>1 DEF OneWrong
    <2>2. d # n[i]  BY <2>1 DEF NipText
    <2>3. QED BY <2>1, <2>2, OneWrongIsRefused
  <1>2. CASE t \in Swapped(n)
    <2>1. PICK i \in 1 .. 9 : t = SwappedAt(n, i) /\ t # n  BY <1>2 DEF Swapped
    <2>2. i \in Place /\ i + 1 \in Place  BY SMT DEF Place
    <2>3. n[i] # n[i + 1]
      <3> SUFFICES ASSUME n[i] = n[i + 1] PROVE FALSE  OBVIOUS
      <3>1. SwappedAt(n, i) = n  BY <2>2 DEF SwappedAt, NipText
      <3>2. QED BY <3>1, <2>1
    <2>4. QED BY <2>1, <2>3, SwapIsRefused
  <1>3. QED BY <1>1, <1>2 DEF Typos

-----------------------------------------------------------------------------
(* The sums of an invoice.                                                 *)
(*                                                                         *)
(* FloatSum and ExactSum recur over sets of places, from the last place    *)
(* down.  What they compute is shown by induction on these sets: the       *)
(* library's WFMin gives a smallest set for which it fails, and no such    *)
(* set exists.                                                             *)

(* Induction on the subsets of a finite set: a property that {} has, and   *)
(* every set that has it without any one of its elements, all have.        *)
LEMMA SubsetInduction ==
    ASSUME NEW S, IsFiniteSet(S), NEW Good, {} \in Good,
           \A T \in SUBSET S : T # {} /\ (\A x \in T : T \ {x} \in Good) => T \in Good
    PROVE  \A T \in SUBSET S : T \in Good
<1> DEFINE Bad == {T \in SUBSET S : T \notin Good}
<1>1. SUFFICES ASSUME Bad # {} PROVE FALSE
  OBVIOUS
<1>2. IsWellFoundedOn(StrictSubsetOrdering(S), SUBSET S)
  BY FS_StrictSubsetOrderingWellFounded, FS_FiniteSubsetsOfFinite
<1>3. Bad \subseteq SUBSET S
  OBVIOUS
<1> HIDE DEF Bad
<1>4. PICK T \in Bad : \A U \in Bad : <<U, T>> \notin StrictSubsetOrdering(S)
  BY <1>1, <1>2, <1>3, WFMin, Zenon
<1> USE DEF Bad
<1>5. \A U \in Bad : U \subseteq T => U = T
  BY <1>4 DEF StrictSubsetOrdering
<1>6. T # {}
  OBVIOUS
<1>7. ASSUME NEW x \in T PROVE T \ {x} \in Good
  <2>1. T \ {x} # T /\ T \ {x} \subseteq T /\ T \ {x} \in SUBSET S
    OBVIOUS
  <2> QED
    BY <1>5, <2>1
<1> QED
  BY <1>6, <1>7

(* The last of a non-empty finite set of places is one of them, and none   *)
(* comes after it.                                                         *)
LEMMA LastPlace ==
    ASSUME NEW S \in SUBSET Int, IsFiniteSet(S), S # {}
    PROVE  Max(S) \in S /\ \A y \in S : Max(S) >= y
<1> DEFINE HasLast(T) == \E x \in T : \A y \in T : x >= y
           Good == {T \in SUBSET S : T # {} => HasLast(T)}
<1>1. {} \in Good
  OBVIOUS
<1>2. ASSUME NEW T \in SUBSET S, T # {}, \A x \in T : T \ {x} \in Good
      PROVE  T \in Good
  <2>1. PICK x \in T : TRUE
    BY <1>2
  <2>2. CASE T \ {x} = {}
    BY <2>2
  <2>3. CASE T \ {x} # {}
    <3>1. PICK m \in T \ {x} : \A y \in T \ {x} : m >= y
      BY <1>2, <2>3
    <3>2. CASE x >= m
      <4>1. \A y \in T : x >= y
        BY <3>1, <3>2
      <4> QED
        BY <4>1
    <3>3. CASE ~(x >= m)
      <4>1. \A y \in T : m >= y
        BY <3>1, <3>3
      <4> QED
        BY <4>1
    <3> QED
      BY <3>2, <3>3
  <2> QED
    BY <2>2, <2>3
<1> HIDE DEF Good
<1>3. S \in Good
  BY <1>1, <1>2, SubsetInduction
<1>4. HasLast(S)
  BY <1>3 DEF Good
<1> QED
  BY <1>4 DEF Max

(* it maps a set of places to the double that the loop over them leaves.   *)
IsFloatSum(it, S, a) ==
    it = [T \in SUBSET S |->
            IF T = {} THEN Zero
            ELSE LET last == Max(T) IN Plus(it[T \ {last}], Parsed(a[last]))]

(* The recursion of FloatSum has a solution.                               *)
LEMMA FloatSumExists ==
    ASSUME NEW a, DOMAIN a \subseteq Int, IsFiniteSet(DOMAIN a)
    PROVE  \E it : IsFloatSum(it, DOMAIN a, a)
<1> DEFINE S == DOMAIN a
           Good == {T \in SUBSET S : \E it : IsFloatSum(it, T, a)}
<1>1. {} \in Good
  <2>1. IsFloatSum([U \in SUBSET {} |-> Zero], {}, a)
    BY DEF IsFloatSum
  <2> QED
    BY <2>1
<1>2. ASSUME NEW T \in SUBSET S, T # {}, \A x \in T : T \ {x} \in Good
      PROVE  T \in Good
  <2> DEFINE last == Max(T)
             R == T \ {last}
  <2>1. last \in T /\ \A y \in T : last >= y
    BY <1>2, LastPlace, FS_Subset
  <2>2. PICK f : IsFloatSum(f, R, a)
    BY <1>2, <2>1
  <2>3. \A U \in SUBSET T : U # {} => Max(U) \in U /\ \A y \in U : Max(U) >= y
    BY LastPlace, FS_Subset
  <2> HIDE DEF last
  <2> DEFINE it == [U \in SUBSET T |->
                      IF last \in U THEN Plus(f[U \ {last}], Parsed(a[last])) ELSE f[U]]
  <2>4. ASSUME NEW U \in SUBSET T
        PROVE  it[U] = IF U = {} THEN Zero
                       ELSE Plus(it[U \ {Max(U)}], Parsed(a[Max(U)]))
    <3>1. CASE last \in U
      <4>1. Max(U) = last
        <5>1. Max(U) \in Int /\ last \in Int /\ Max(U) >= last /\ last >= Max(U)
          BY <2>1, <2>3, <3>1
        <5> QED
          BY <5>1
      <4>2. it[U] = Plus(f[U \ {last}], Parsed(a[last]))
        BY <3>1
      <4>3. it[U \ {last}] = f[U \ {last}]
        OBVIOUS
      <4> QED
        BY <3>1, <4>1, <4>2, <4>3
    <3>2. CASE last \notin U
      <4>1. U \in SUBSET R /\ U \ {Max(U)} \in SUBSET R
        BY <3>2
      <4>2. it[U] = f[U] /\ it[U \ {Max(U)}] = f[U \ {Max(U)}]
        BY <3>2
      <4> QED
        BY <4>1, <4>2, <2>2 DEF IsFloatSum
    <3> QED
      BY <3>1, <3>2
  <2>5. IsFloatSum(it, T, a)
    BY <2>4 DEF IsFloatSum
  <2> QED
    BY <2>5
<1>3. IsFiniteSet(S)
  OBVIOUS
<1> HIDE DEF Good, S
<1>4. \A T \in SUBSET S : T # {} /\ (\A x \in T : T \ {x} \in Good) => T \in Good
  BY <1>2
<1>5. \A T \in SUBSET S : T \in Good
  BY <1>1, <1>3, <1>4, SubsetInduction
<1> QED
  BY <1>5 DEF Good, S

(* FloatSum is such a map at the set of all places.                        *)
LEMMA FloatSumIsOne ==
    ASSUME NEW a, DOMAIN a \subseteq Int, IsFiniteSet(DOMAIN a)
    PROVE  \E it : IsFloatSum(it, DOMAIN a, a) /\ FloatSum(a) = it[DOMAIN a]
  BY FloatSumExists DEF FloatSum, FoldLeft, MapThenFoldSet, IsFloatSum

(* Only errors are rounded, not the mills.                                 *)
LEMMA RoundedKeepsMills ==
    ASSUME NEW c \in Int, NEW d
    PROVE  Rounded([c |-> c, d |-> d]).c = c
<1>1. \A e : RoundPositive([c |-> c, d |-> e]).c = c
  BY DEF RoundPositive
<1>2. Negated(RoundPositive(Negated([c |-> c, d |-> d]))).c = c
  <2>1. Negated([c |-> c, d |-> d]) = [c |-> -c, d |-> -d]
    BY DEF Negated
  <2>2. RoundPositive([c |-> -c, d |-> -d]).c = -c
    BY DEF RoundPositive
  <2> QED
    BY <2>1, <2>2 DEF Negated
<1> QED
  BY <1>1, <1>2 DEF Rounded

(* The mills of a sum are the sum of the mills.                            *)
LEMMA PlusAddsMills ==
    ASSUME NEW x, NEW n \in Int, x.c \in Int
    PROVE  Plus(x, Parsed(n)).c = x.c + n /\ Parsed(n).c = n
<1>1. Parsed(n).c = n
  BY RoundedKeepsMills DEF Parsed
<1> QED
  BY <1>1, RoundedKeepsMills DEF Plus

(* w maps a set of places to the sum of the amounts there.                 *)
IsSum(w, S, a) ==
    /\ w \in [SUBSET S -> Int]
    /\ w[{}] = 0
    /\ \A T \in SUBSET S : \A x \in T : w[T] = w[T \ {x}] + a[x]

(* The amounts a are numbers at finitely many places.                      *)
IsAmounts(a) ==
    /\ DOMAIN a \subseteq Int /\ IsFiniteSet(DOMAIN a)
    /\ \A k \in DOMAIN a : a[k] \in Int

(* FloatSum and ExactSum agree in mills, and are the sum in any order.     *)
LEMMA SumOfAmounts ==
    ASSUME NEW a, IsAmounts(a)
    PROVE  \E w : /\ IsSum(w, DOMAIN a, a)
                  /\ FloatSum(a).c = w[DOMAIN a]
                  /\ ExactSum(a) = w[DOMAIN a]
<1> DEFINE S == DOMAIN a
<1>0. IsFiniteSet(S) /\ S \subseteq Int /\ \A k \in S : a[k] \in Int
  BY DEF IsAmounts
<1>1. PICK it : IsFloatSum(it, S, a) /\ FloatSum(a) = it[S]
  BY <1>0, FloatSumIsOne
<1> DEFINE w == [T \in SUBSET S |-> it[T].c]
<1> HIDE DEF S
<1>2. \A T \in SUBSET S : T # {} => Max(T) \in T
  BY <1>0, LastPlace, FS_Subset
<1>3. it[{}].c = 0
  BY <1>1 DEF IsFloatSum, Zero
<1>4. \A T \in SUBSET S : T # {} /\ it[T \ {Max(T)}].c \in Int
                          => it[T].c = it[T \ {Max(T)}].c + a[Max(T)]
  <2> SUFFICES ASSUME NEW T \in SUBSET S, T # {}, it[T \ {Max(T)}].c \in Int
               PROVE  it[T].c = it[T \ {Max(T)}].c + a[Max(T)]
    OBVIOUS
  <2>1. it[T] = Plus(it[T \ {Max(T)}], Parsed(a[Max(T)]))
    BY <1>1 DEF IsFloatSum
  <2>2. a[Max(T)] \in Int
    BY <1>0, <1>2
  <2> QED
    BY <2>1, <2>2, PlusAddsMills
<1>5. \A T \in SUBSET S : it[T].c \in Int
  <2> DEFINE Good == {T \in SUBSET S : it[T].c \in Int}
  <2>1. {} \in Good
    BY <1>3
  <2>2. ASSUME NEW T \in SUBSET S, T # {}, \A x \in T : T \ {x} \in Good
        PROVE  T \in Good
    <3>1. Max(T) \in T /\ a[Max(T)] \in Int
      BY <1>0, <1>2, <2>2
    <3>2. it[T \ {Max(T)}].c \in Int
      BY <2>2, <3>1
    <3> QED
      BY <1>4, <2>2, <3>1, <3>2
  <2> HIDE DEF Good
  <2>3. \A T \in SUBSET S : T # {} /\ (\A x \in T : T \ {x} \in Good) => T \in Good
    BY <2>2
  <2>4. \A T \in SUBSET S : T \in Good
    BY <1>0, <2>1, <2>3, SubsetInduction
  <2> QED
    BY <2>4 DEF Good
<1>6. \A T \in SUBSET S : \A x \in T : it[T].c = it[T \ {x}].c + a[x]
  <2> DEFINE Good == {T \in SUBSET S : \A x \in T : it[T].c = it[T \ {x}].c + a[x]}
  <2>1. {} \in Good
    OBVIOUS
  <2>2. ASSUME NEW T \in SUBSET S, T # {}, \A x \in T : T \ {x} \in Good
        PROVE  T \in Good
    <3> DEFINE last == Max(T)
    <3>1. last \in T
      BY <1>2, <2>2
    <3>2. it[T].c = it[T \ {last}].c + a[last]
      BY <1>4, <1>5, <2>2
    <3> HIDE DEF last
    <3>3. ASSUME NEW x \in T, x # last PROVE it[T].c = it[T \ {x}].c + a[x]
      <4> DEFINE R == (T \ {last}) \ {x}
      <4>1. it[T \ {last}].c = it[R].c + a[x]
        BY <2>2, <3>1, <3>3
      <4>2. (T \ {x}) \ {last} = R
        OBVIOUS
      <4>3. it[T \ {x}].c = it[R].c + a[last]
        BY <2>2, <3>1, <3>3, <4>2
      <4>4. it[R].c \in Int /\ a[x] \in Int /\ a[last] \in Int
        BY <1>0, <1>5, <3>1
      <4> HIDE DEF R
      <4> QED
        BY <3>2, <4>1, <4>3, <4>4
    <3> QED
      BY <3>2, <3>3
  <2> HIDE DEF Good
  <2>3. \A T \in SUBSET S : T # {} /\ (\A x \in T : T \ {x} \in Good) => T \in Good
    BY <2>2
  <2>4. \A T \in SUBSET S : T \in Good
    BY <1>0, <2>1, <2>3, SubsetInduction
  <2> QED
    BY <2>4 DEF Good
<1>7. IsSum(w, S, a)
  BY <1>3, <1>5, <1>6 DEF IsSum
<1>8. ExactSum(a) = w[S]
  <2> DEFINE IsExactSum(e) == e = [T \in SUBSET S |->
                                     IF T = {} THEN 0
                                     ELSE LET last == Max(T) IN e[T \ {last}] + a[last]]
  <2>1. IsExactSum(w)
    BY <1>2, <1>3, <1>6
  <2>2. PICK e : IsExactSum(e) /\ ExactSum(a) = e[S]
    BY <2>1 DEF ExactSum, FoldLeft, MapThenFoldSet, S
  <2> DEFINE Good == {T \in SUBSET S : e[T] = w[T]}
  <2>3. {} \in Good
    BY <1>3, <2>2
  <2>4. ASSUME NEW T \in SUBSET S, T # {}, \A x \in T : T \ {x} \in Good
        PROVE  T \in Good
    <3> DEFINE last == Max(T)
    <3>1. last \in T /\ T \ {last} \in SUBSET S
      BY <1>2, <2>4
    <3>2. e[T] = e[T \ {last}] + a[last]
      BY <2>2, <2>4
    <3>3. w[T] = w[T \ {last}] + a[last]
      BY <1>6, <3>1
    <3> HIDE DEF last
    <3>4. e[T \ {last}] = w[T \ {last}]
      BY <2>4, <3>1
    <3> HIDE DEF w
    <3>5. e[T] = w[T]
      BY <3>2, <3>3, <3>4
    <3> QED
      BY <3>5
  <2> HIDE DEF Good
  <2>5. \A T \in SUBSET S : T # {} /\ (\A x \in T : T \ {x} \in Good) => T \in Good
    BY <2>4
  <2>6. \A T \in SUBSET S : T \in Good
    BY <1>0, <2>3, <2>5, SubsetInduction
  <2> QED
    BY <2>2, <2>6 DEF Good
<1> QED
  BY <1>1, <1>7, <1>8 DEF S

(* FloatSum and ExactSum agree in mills.                                   *)
LEMMA FloatSumIsExact ==
    ASSUME NEW a, IsAmounts(a)
    PROVE  FloatSum(a).c = ExactSum(a) /\ ExactSum(a) \in Int
<1>1. PICK w : IsSum(w, DOMAIN a, a) /\ FloatSum(a).c = w[DOMAIN a] /\ ExactSum(a) = w[DOMAIN a]
  BY SumOfAmounts
<1>2. w[DOMAIN a] \in Int
  BY <1>1 DEF IsSum
<1> QED
  BY <1>1, <1>2

(* So do sums of two sums.                                                 *)
LEMMA PlusOfSums ==
    ASSUME NEW a, IsAmounts(a), NEW b, IsAmounts(b)
    PROVE  Plus(FloatSum(a), FloatSum(b)).c = ExactSum(a) + ExactSum(b)
<1>1. FloatSum(a).c + FloatSum(b).c = ExactSum(a) + ExactSum(b)
  BY FloatSumIsExact
<1>2. ExactSum(a) + ExactSum(b) \in Int
  BY FloatSumIsExact
<1> QED
  BY <1>1, <1>2, RoundedKeepsMills DEF Plus

(* Two sums agree on places where the amounts do.                          *)
LEMMA SumsAgree ==
    ASSUME NEW S, NEW a, NEW w, IsSum(w, S, a), NEW T, NEW b, NEW v, IsSum(v, T, b),
           NEW U, U \subseteq S, U \subseteq T, IsFiniteSet(U), \A k \in U : a[k] = b[k]
    PROVE  w[U] = v[U]
<1> DEFINE Good == {X \in SUBSET U : w[X] = v[X]}
<1>1. {} \in Good
  BY DEF IsSum
<1>2. ASSUME NEW X \in SUBSET U, X # {}, \A x \in X : X \ {x} \in Good
      PROVE  X \in Good
  <2>1. PICK x \in X : TRUE
    BY <1>2
  <2>2. w[X] = w[X \ {x}] + a[x] /\ v[X] = v[X \ {x}] + b[x]
    BY DEF IsSum
  <2> QED
    BY <1>2, <2>2
<1> HIDE DEF Good
<1>3. \A X \in SUBSET U : X # {} /\ (\A x \in X : X \ {x} \in Good) => X \in Good
  BY <1>2
<1>4. \A X \in SUBSET U : X \in Good
  BY <1>1, <1>3, SubsetInduction
<1> QED
  BY <1>4 DEF Good

(* The sum over disjoint sets of places.                                   *)
LEMMA SumOfUnion ==
    ASSUME NEW S, NEW a, NEW w, IsSum(w, S, a), \A k \in S : a[k] \in Int,
           NEW A \in SUBSET S, NEW B \in SUBSET S, A \cap B = {}, IsFiniteSet(B)
    PROVE  w[A \cup B] = w[A] + w[B]
<1> DEFINE Good == {X \in SUBSET B : w[A \cup X] = w[A] + w[X]}
<1>1. {} \in Good
  <2>1. w[A] \in Int /\ w[{}] = 0
    BY DEF IsSum
  <2>2. A \cup {} = A
    OBVIOUS
  <2> QED
    BY <2>1, <2>2
<1>2. ASSUME NEW X \in SUBSET B, X # {}, \A x \in X : X \ {x} \in Good
      PROVE  X \in Good
  <2>1. PICK x \in X : TRUE
    BY <1>2
  <2>2. (A \cup X) \ {x} = A \cup (X \ {x})
    OBVIOUS
  <2>3. A \cup X \in SUBSET S /\ x \in A \cup X /\ X \in SUBSET S
    OBVIOUS
  <2>4. w[A \cup X] = w[A \cup (X \ {x})] + a[x] /\ w[X] = w[X \ {x}] + a[x]
    BY <2>2, <2>3 DEF IsSum
  <2>5. w[A \cup (X \ {x})] = w[A] + w[X \ {x}]
    BY <1>2
  <2>6. w[A] \in Int /\ w[X \ {x}] \in Int /\ a[x] \in Int
    BY <2>3 DEF IsSum
  <2>7. w[A \cup X] = w[A] + w[X]
    BY <2>4, <2>5, <2>6
  <2> QED
    BY <2>7
<1> HIDE DEF Good
<1>3. \A X \in SUBSET B : X # {} /\ (\A x \in X : X \ {x} \in Good) => X \in Good
  BY <1>2
<1>4. \A X \in SUBSET B : X \in Good
  BY <1>1, <1>3, SubsetInduction
<1> QED
  BY <1>4 DEF Good

(* v sums up what w has in the groups of places.                           *)
Grouped(S, w, G, group, v) ==
    /\ group \in [S -> G]
    /\ IsSum(v, G, [g \in G |-> w[{k \in S : group[k] = g}]])

(* A sum in groups, of the sums of the groups, is the sum.                 *)
LEMMA SumOfGroups ==
    ASSUME NEW S, IsFiniteSet(S), NEW a, NEW w, IsSum(w, S, a), \A k \in S : a[k] \in Int,
           NEW G, IsFiniteSet(G), NEW group, NEW v, Grouped(S, w, G, group, v)
    PROVE  v[G] = w[S]
<1> DEFINE Of(H) == {k \in S : group[k] \in H}
           Good == {H \in SUBSET G : v[H] = w[Of(H)]}
<1>1. {} \in Good
  <2>1. Of({}) = {}
    OBVIOUS
  <2> QED
    BY <2>1 DEF IsSum, Grouped
<1>2. ASSUME NEW H \in SUBSET G, H # {}, \A g \in H : H \ {g} \in Good
      PROVE  H \in Good
  <2>1. PICK g \in H : TRUE
    BY <1>2
  <2> DEFINE A == Of(H \ {g})
             B == {k \in S : group[k] = g}
  <2>2. Of(H) = A \cup B /\ A \cap B = {} /\ A \in SUBSET S /\ B \in SUBSET S
    OBVIOUS
  <2>3. IsFiniteSet(B)
    BY <2>2, FS_Subset
  <2>4. v[H \ {g}] = w[A]
    BY <1>2
  <2>5. v[H] = v[H \ {g}] + w[B]
    BY DEF IsSum, Grouped
  <2> HIDE DEF A, B, Of
  <2>6. w[A \cup B] = w[A] + w[B]
    BY <2>2, <2>3, SumOfUnion
  <2> QED
    BY <2>2, <2>4, <2>5, <2>6
<1>3. \A H \in SUBSET G : H # {} /\ (\A g \in H : H \ {g} \in Good) => H \in Good
  BY <1>2
<1> HIDE DEF Good
<1>4. \A H \in SUBSET G : H \in Good
  BY <1>1, <1>3, SubsetInduction
<1>5. Of(G) = S
  BY DEF Grouped
<1> QED
  BY <1>4, <1>5 DEF Good

(* Sums of amounts that are e apart, place by place, one of them in cents  *)
(* and the other in mills.                                                 *)
LEMMA SumsClose ==
    ASSUME NEW S, IsFiniteSet(S), NEW a, NEW w, IsSum(w, S, a), \A k \in S : a[k] \in Int,
           NEW b, NEW v, IsSum(v, S, b), \A k \in S : b[k] \in Int,
           NEW e \in Int, \A k \in S : 10 * b[k] - a[k] <= e /\ a[k] - 10 * b[k] <= e
    PROVE  /\ 10 * v[S] - w[S] <= e * Cardinality(S)
           /\ w[S] - 10 * v[S] <= e * Cardinality(S)
<1> DEFINE Close(X) == /\ 10 * v[X] - w[X] <= e * Cardinality(X)
                       /\ w[X] - 10 * v[X] <= e * Cardinality(X)
           Good == {X \in SUBSET S : Close(X)}
<1>1. {} \in Good
  <2>1. w[{}] = 0 /\ v[{}] = 0 /\ Cardinality({}) = 0
    BY FS_EmptySet DEF IsSum
  <2>2. e * 0 = 0
    BY SMT
  <2> QED
    BY <2>1, <2>2, SMT
<1>2. ASSUME NEW X \in SUBSET S, X # {}, \A x \in X : X \ {x} \in Good
      PROVE  X \in Good
  <2>1. PICK x \in X : TRUE
    BY <1>2
  <2> DEFINE R == X \ {x}
             n == Cardinality(X)
  <2>2. w[X] = w[R] + a[x] /\ v[X] = v[R] + b[x]
    BY DEF IsSum
  <2>3. w[R] \in Int /\ v[R] \in Int /\ a[x] \in Int /\ b[x] \in Int
    BY DEF IsSum
  <2>4. n \in Int /\ Cardinality(R) = n - 1
    <3>1. IsFiniteSet(X)
      BY FS_Subset
    <3>2. Cardinality(X) \in Nat
      BY <3>1, FS_CardinalityType, Zenon
    <3>3. Cardinality(R) = Cardinality(X) - 1
      BY <3>1, <2>1, FS_RemoveElement, Zenon
    <3> QED
      BY <3>2, <3>3
  <2>5. Close(R)
    BY <1>2, <2>1
  <2>6. 10 * b[x] - a[x] <= e /\ a[x] - 10 * b[x] <= e
    OBVIOUS
  <2> HIDE DEF R, n
  <2>7. e * (n - 1) = e * n - e /\ e * n \in Int
    BY <2>4, SMT
  <2>8. 10 * v[X] - w[X] <= e * n /\ w[X] - 10 * v[X] <= e * n
    BY <2>2, <2>3, <2>4, <2>5, <2>6, <2>7, SMT
  <2> QED
    BY <2>8 DEF n
<1> HIDE DEF Good
<1>3. \A X \in SUBSET S : X # {} /\ (\A x \in X : X \ {x} \in Good) => X \in Good
  BY <1>2
<1>4. \A X \in SUBSET S : X \in Good
  BY <1>1, <1>3, SubsetInduction
<1> QED
  BY <1>4 DEF Good

(* A sum of whole cents is in whole cents.                                 *)
LEMMA SumIsWhole ==
    ASSUME NEW S, IsFiniteSet(S), NEW a, NEW w, IsSum(w, S, a),
           \A k \in S : a[k] \in Int /\ a[k] % 10 = 0
    PROVE  w[S] % 10 = 0
<1> DEFINE Good == {X \in SUBSET S : w[X] % 10 = 0}
<1>1. {} \in Good
  <2>1. w[{}] = 0
    BY DEF IsSum
  <2> QED
    BY <2>1, SMT
<1>2. ASSUME NEW X \in SUBSET S, X # {}, \A x \in X : X \ {x} \in Good
      PROVE  X \in Good
  <2>1. PICK x \in X : TRUE
    BY <1>2
  <2>2. w[X] = w[X \ {x}] + a[x] /\ w[X \ {x}] \in Int /\ a[x] \in Int /\ a[x] % 10 = 0
    BY DEF IsSum
  <2>3. w[X \ {x}] % 10 = 0
    BY <1>2, <2>1
  <2>4. \A m, n \in Int : (m % 10 = 0 /\ n % 10 = 0) => (m + n) % 10 = 0
    BY SMT
  <2>5. w[X] % 10 = 0
    BY <2>2, <2>3, <2>4
  <2> QED
    BY <2>5
<1> HIDE DEF Good
<1>3. \A X \in SUBSET S : X # {} /\ (\A x \in X : X \ {x} \in Good) => X \in Good
  BY <1>2
<1>4. \A X \in SUBSET S : X \in Good
  BY <1>1, <1>3, SubsetInduction
<1> QED
  BY <1>4 DEF Good

(* "%.2f" is at most half a cent off, and right of whole cents.            *)
LEMMA PrintedIsClose ==
    ASSUME NEW x, x.c \in Int
    PROVE  /\ Printed(x) \in Int
           /\ 10 * Printed(x) - x.c <= 5 /\ x.c - 10 * Printed(x) <= 5
           /\ x.c % 10 = 0 => 10 * Printed(x) = x.c
<1> DEFINE q == x.c \div 10
           m == x.c % 10
<1>1. x.c = 10 * q + m /\ q \in Int /\ m \in 0 .. 9
  BY SMT
<1>2. /\ Printed(x) = q \/ Printed(x) = q + 1
      /\ m < 5 => Printed(x) = q
      /\ m > 5 => Printed(x) = q + 1
  <2>1. q \in Int /\ m \in 0 .. 9
    BY <1>1
  <2> DEFINE up == m > 5 \/ (m = 5 /\ (x.d > 0 \/ (x.d = 0 /\ q % 2 = 1)))
  <2>2. Printed(x) = IF up THEN q + 1 ELSE q
    BY DEF Printed
  <2> HIDE DEF q, m
  <2>3. (m > 5 => up) /\ (m < 5 => ~up)
    BY <2>1, SMT
  <2> HIDE DEF up
  <2> QED
    BY <2>2, <2>3
<1> HIDE DEF q, m
<1>3. x.c % 10 = m
  BY DEF m
<1> QED
  BY <1>1, <1>2, <1>3, SMT

(* The printed sums of the groups add up to the sum, if every amount is in *)
(* a group that is printed: exactly in whole cents, and up to half a cent  *)
(* for every group.                                                        *)
LEMMA GroupsCarrySum ==
    ASSUME NEW i, NEW a, IsAmounts(a), NEW groups \in SUBSET Int, IsFiniteSet(groups),
           \A k \in DOMAIN a : GroupOf(i.taxBreakdowns[k].rate) \in groups
    PROVE  LET sums == GroupSums(i, a, groups)
               off  == 10 * ExactSum(sums) - ExactSum(a)
           IN  /\ DOMAIN sums = {GroupOf(i.taxBreakdowns[k].rate) : k \in DOMAIN a}
               /\ IsFiniteSet(DOMAIN sums)
               /\ ExactSum(sums) \in Int /\ ExactSum(a) \in Int
               /\ off <= 5 * Cardinality(DOMAIN sums) /\ -off <= 5 * Cardinality(DOMAIN sums)
               /\ (\A k \in DOMAIN a : a[k] % 10 = 0) => off = 0
<1> DEFINE S == DOMAIN a
           group == [k \in S |-> GroupOf(i.taxBreakdowns[k].rate)]
           Of(g) == {k \in S : group[k] = g}
           G == {h \in groups : Of(h) # {}}
           f == [g \in G |-> FloatSum(Restrict(a, Of(g)))]
           b == [g \in G |-> f[g].c]
           p == [g \in G |-> Printed(f[g])]
<1>1. GroupSums(i, a, groups) = p
  <2>1. \A g : Of(g) = {k \in S : GroupOf(i.taxBreakdowns[k].rate) = g}
    OBVIOUS
  <2>2. p = [g \in G |-> Printed(FloatSum(Restrict(a, Of(g))))]
    OBVIOUS
  <2> HIDE DEF Of, p, f
  <2> QED
    BY <2>1, <2>2 DEF GroupSums
<1>2. G = {GroupOf(i.taxBreakdowns[k].rate) : k \in DOMAIN a} /\ group \in [S -> G]
  OBVIOUS
<1>3. IsFiniteSet(S) /\ \A k \in S : a[k] \in Int
  BY DEF IsAmounts
<1>4. PICK w : IsSum(w, S, a) /\ ExactSum(a) = w[S]
  BY SumOfAmounts
<1>5. \A g \in G : /\ b[g] = w[Of(g)]
                   /\ (\A k \in S : a[k] % 10 = 0) => b[g] % 10 = 0
  <2> SUFFICES ASSUME NEW g \in G
               PROVE  /\ b[g] = w[Of(g)]
                      /\ (\A k \in S : a[k] % 10 = 0) => b[g] % 10 = 0
    OBVIOUS
  <2> DEFINE r == Restrict(a, Of(g))
  <2>1. DOMAIN r = Of(g) /\ \A k \in Of(g) : r[k] = a[k]
    BY DEF Restrict
  <2>2. Of(g) \subseteq S /\ IsFiniteSet(Of(g))
    BY <1>3, FS_Subset
  <2>3. IsAmounts(r)
    BY <2>1, <2>2 DEF IsAmounts
  <2>4. b[g] = FloatSum(r).c
    OBVIOUS
  <2> HIDE DEF r, Of, b, f
  <2>5. PICK v : IsSum(v, DOMAIN r, r) /\ FloatSum(r).c = v[DOMAIN r]
    BY <2>3, SumOfAmounts
  <2>6. v[Of(g)] = w[Of(g)]
    BY <1>4, <2>1, <2>2, <2>5, SumsAgree
  <2>7. ASSUME \A k \in S : a[k] % 10 = 0
        PROVE  b[g] % 10 = 0
    <3>1. IsFiniteSet(DOMAIN r) /\ \A k \in DOMAIN r : r[k] \in Int /\ r[k] % 10 = 0
      BY <1>3, <2>1, <2>2, <2>7
    <3>2. v[DOMAIN r] % 10 = 0
      BY <2>5, <3>1, SumIsWhole
    <3> QED
      BY <2>4, <2>5, <3>2
  <2> QED
    BY <2>1, <2>4, <2>5, <2>6, <2>7
<1>6. IsFiniteSet(G) /\ G \subseteq Int
  BY FS_Subset
<1>7. IsAmounts(b)
  <2>1. \A g \in G : Of(g) \in SUBSET S
    OBVIOUS
  <2>2. \A g \in G : b[g] \in Int
    BY <1>4, <1>5, <2>1 DEF IsSum
  <2>3. DOMAIN b = G
    OBVIOUS
  <2> HIDE DEF b, G
  <2> QED
    BY <1>6, <2>2, <2>3 DEF IsAmounts
<1>8. PICK v : IsSum(v, G, b) /\ ExactSum(b) = v[G]
  <2>1. DOMAIN b = G
    OBVIOUS
  <2> HIDE DEF b, G
  <2> QED
    BY <1>7, <2>1, SumOfAmounts
<1>9. \A g \in G : f[g].c \in Int /\ b[g] = f[g].c /\ p[g] = Printed(f[g])
  <2>1. \A g \in G : b[g] \in Int
    <3>1. DOMAIN b = G
      OBVIOUS
    <3> HIDE DEF b, G
    <3> QED
      BY <1>7, <3>1 DEF IsAmounts
  <2>2. \A g \in G : b[g] = f[g].c /\ p[g] = Printed(f[g])
    OBVIOUS
  <2> HIDE DEF b, G, f, p
  <2> QED
    BY <2>1, <2>2
<1>10. DOMAIN p = G
  OBVIOUS
<1>11. b = [g \in G |-> b[g]]
  OBVIOUS
<1> HIDE DEF b, G, group, f, p
<1>12. \A g \in G : /\ p[g] \in Int /\ b[g] \in Int
                    /\ 10 * p[g] - b[g] <= 5 /\ b[g] - 10 * p[g] <= 5
                    /\ b[g] % 10 = 0 => 10 * p[g] = b[g]
  BY <1>9, PrintedIsClose
<1>13. PICK u : IsSum(u, G, p) /\ ExactSum(p) = u[G]
  <2>1. IsAmounts(p)
    BY <1>6, <1>10, <1>12 DEF IsAmounts
  <2> QED
    BY <2>1, <1>10, SumOfAmounts
<1>14. v[G] = w[S]
  <2>1. b = [g \in G |-> w[{k \in S : group[k] = g}]]
    BY <1>5, <1>11
  <2>2. Grouped(S, w, G, group, v)
    BY <1>2, <1>8, <2>1 DEF Grouped
  <2> HIDE DEF S, Of
  <2> QED
    BY <1>3, <1>4, <1>6, <2>2, SumOfGroups
<1>15. u[G] \in Int /\ v[G] \in Int
  BY <1>8, <1>13 DEF IsSum
<1>16. ASSUME NEW e \in Int, \A g \in G : 10 * p[g] - b[g] <= e /\ b[g] - 10 * p[g] <= e
       PROVE  /\ 10 * u[G] - v[G] <= e * Cardinality(G)
              /\ v[G] - 10 * u[G] <= e * Cardinality(G)
  <2>1. IsFiniteSet(G) /\ IsSum(v, G, b) /\ IsSum(u, G, p)
    BY <1>6, <1>8, <1>13
  <2>2. (\A g \in G : b[g] \in Int) /\ (\A g \in G : p[g] \in Int)
    BY <1>12
  <2> QED
    BY <1>16, <2>1, <2>2, SumsClose, Zenon
<1>17. ASSUME \A k \in S : a[k] % 10 = 0
       PROVE  10 * u[G] - v[G] = 0
  <2>1. \A g \in G : 10 * p[g] - b[g] <= 0 /\ b[g] - 10 * p[g] <= 0
    <3>1. \A g \in G : 10 * p[g] = b[g]
      BY <1>5, <1>12, <1>17
    <3> QED
      BY <1>12, <3>1
  <2>2. 10 * u[G] - v[G] <= 0 * Cardinality(G) /\ v[G] - 10 * u[G] <= 0 * Cardinality(G)
    <3>1. 0 \in Int
      OBVIOUS
    <3> QED
      BY <1>16, <2>1, <3>1, Zenon
  <2>3. Cardinality(G) \in Nat
    BY <1>6, FS_CardinalityType
  <2> QED
    BY <1>15, <2>2, <2>3, SMT
<1>18. 10 * u[G] - v[G] <= 5 * Cardinality(G) /\ v[G] - 10 * u[G] <= 5 * Cardinality(G)
  <2>1. 5 \in Int /\ \A g \in G : 10 * p[g] - b[g] <= 5 /\ b[g] - 10 * p[g] <= 5
    BY <1>12
  <2> QED
    BY <1>16, <2>1, Zenon
<1>19. ExactSum(a) = v[G] /\ ExactSum(GroupSums(i, a, groups)) = u[G]
       /\ DOMAIN GroupSums(i, a, groups) = G
  BY <1>1, <1>4, <1>10, <1>13, <1>14
<1>20. -(10 * u[G] - v[G]) = v[G] - 10 * u[G]
  BY <1>15, SMT
<1> QED
  BY <1>2, <1>6, <1>15, <1>17, <1>19, <1>20, <1>18
-----------------------------------------------------------------------------
(* The rounding errors of these sums.                                      *)

(* Units of d in a mill: 2^59; and the largest power of 2 that Scale       *)
(* reaches, 2^34.                                                          *)
Unit == 576460752303423488
MaxPower == 17179869184

(* What the powers of 2 are that the solver would not compute: a mill is   *)
(* 2^p times k, which is 2^(58-s), and h and l the two halves that Residue *)
(* makes of 58-s.                                                          *)
Splits(s, p, h, l, k) ==
    /\ p = s + 1 /\ h = (58 - s) \div 2 /\ l = 58 - s - h
    /\ 2^p * k = Unit /\ k % 125 = ((2^h % 125) * (2^l % 125)) % 125
    /\ 2^p = 2 * 2^s /\ 1 <= 2^s /\ 2^s <= MaxPower

(* There is such a k for every scale.                                      *)
LEMMA UnitSplits ==
    ASSUME NEW s \in 0 .. 34
    PROVE  \E h, l : \E k \in Int : Splits(s, s + 1, h, l, k)
<1>1. Splits(0, 1, 29, 29, 288230376151711744)
  BY SMT DEF Splits, Unit, MaxPower
<1>2. Splits(1, 2, 28, 29, 144115188075855872)
  BY SMT DEF Splits, Unit, MaxPower
<1>3. Splits(2, 3, 28, 28, 72057594037927936)
  BY SMT DEF Splits, Unit, MaxPower
<1>4. Splits(3, 4, 27, 28, 36028797018963968)
  BY SMT DEF Splits, Unit, MaxPower
<1>5. Splits(4, 5, 27, 27, 18014398509481984)
  BY SMT DEF Splits, Unit, MaxPower
<1>6. Splits(5, 6, 26, 27, 9007199254740992)
  BY SMT DEF Splits, Unit, MaxPower
<1>7. Splits(6, 7, 26, 26, 4503599627370496)
  BY SMT DEF Splits, Unit, MaxPower
<1>8. Splits(7, 8, 25, 26, 2251799813685248)
  BY SMT DEF Splits, Unit, MaxPower
<1>9. Splits(8, 9, 25, 25, 1125899906842624)
  BY SMT DEF Splits, Unit, MaxPower
<1>10. Splits(9, 10, 24, 25, 562949953421312)
  BY SMT DEF Splits, Unit, MaxPower
<1>11. Splits(10, 11, 24, 24, 281474976710656)
  BY SMT DEF Splits, Unit, MaxPower
<1>12. Splits(11, 12, 23, 24, 140737488355328)
  BY SMT DEF Splits, Unit, MaxPower
<1>13. Splits(12, 13, 23, 23, 70368744177664)
  BY SMT DEF Splits, Unit, MaxPower
<1>14. Splits(13, 14, 22, 23, 35184372088832)
  BY SMT DEF Splits, Unit, MaxPower
<1>15. Splits(14, 15, 22, 22, 17592186044416)
  BY SMT DEF Splits, Unit, MaxPower
<1>16. Splits(15, 16, 21, 22, 8796093022208)
  BY SMT DEF Splits, Unit, MaxPower
<1>17. Splits(16, 17, 21, 21, 4398046511104)
  BY SMT DEF Splits, Unit, MaxPower
<1>18. Splits(17, 18, 20, 21, 2199023255552)
  BY SMT DEF Splits, Unit, MaxPower
<1>19. Splits(18, 19, 20, 20, 1099511627776)
  BY SMT DEF Splits, Unit, MaxPower
<1>20. Splits(19, 20, 19, 20, 549755813888)
  BY SMT DEF Splits, Unit, MaxPower
<1>21. Splits(20, 21, 19, 19, 274877906944)
  BY SMT DEF Splits, Unit, MaxPower
<1>22. Splits(21, 22, 18, 19, 137438953472)
  BY SMT DEF Splits, Unit, MaxPower
<1>23. Splits(22, 23, 18, 18, 68719476736)
  BY SMT DEF Splits, Unit, MaxPower
<1>24. Splits(23, 24, 17, 18, 34359738368)
  BY SMT DEF Splits, Unit, MaxPower
<1>25. Splits(24, 25, 17, 17, 17179869184)
  BY SMT DEF Splits, Unit, MaxPower
<1>26. Splits(25, 26, 16, 17, 8589934592)
  BY SMT DEF Splits, Unit, MaxPower
<1>27. Splits(26, 27, 16, 16, 4294967296)
  BY SMT DEF Splits, Unit, MaxPower
<1>28. Splits(27, 28, 15, 16, 2147483648)
  BY SMT DEF Splits, Unit, MaxPower
<1>29. Splits(28, 29, 15, 15, 1073741824)
  BY SMT DEF Splits, Unit, MaxPower
<1>30. Splits(29, 30, 14, 15, 536870912)
  BY SMT DEF Splits, Unit, MaxPower
<1>31. Splits(30, 31, 14, 14, 268435456)
  BY SMT DEF Splits, Unit, MaxPower
<1>32. Splits(31, 32, 13, 14, 134217728)
  BY SMT DEF Splits, Unit, MaxPower
<1>33. Splits(32, 33, 13, 13, 67108864)
  BY SMT DEF Splits, Unit, MaxPower
<1>34. Splits(33, 34, 12, 13, 33554432)
  BY SMT DEF Splits, Unit, MaxPower
<1>35. Splits(34, 35, 12, 12, 16777216)
  BY SMT DEF Splits, Unit, MaxPower
<1>36. s \in {0, 1, 2, 3, 4, 5, 6, 7, 8, 9, 10, 11, 12, 13, 14, 15, 16, 17,
          18, 19, 20, 21, 22, 23, 24, 25, 26, 27, 28, 29, 30, 31, 32, 33, 34}
  BY SMT
<1>37. \A p, h, l, k : Splits(s, p, h, l, k) => p = s + 1
  BY DEF Splits
<1> QED
  BY <1>1, <1>2, <1>3, <1>4, <1>5, <1>6, <1>7, <1>8, <1>9, <1>10, <1>11,
     <1>12, <1>13, <1>14, <1>15, <1>16, <1>17, <1>18, <1>19, <1>20, <1>21,
     <1>22, <1>23, <1>24, <1>25, <1>26, <1>27, <1>28, <1>29, <1>30, <1>31,
     <1>32, <1>33, <1>34, <1>35, <1>36, <1>37, SMT

(* Powers of 2 are integers.                                              *)
LEMMA PowersAreInt ==
    ASSUME NEW p \in Nat
    PROVE  2^p \in Int
BY SMT

(* The powers of 2 that Scale reaches are integers from 1 to MaxPower.     *)
LEMMA PowersOfScale ==
    ASSUME NEW s \in 0 .. 34
    PROVE  2^s \in Int /\ 1 <= 2^s /\ 2^s <= MaxPower
<1>1. \E h, l : \E k \in Int : Splits(s, s + 1, h, l, k)
  BY UnitSplits
<1>2. 1 <= 2^s /\ 2^s <= MaxPower
  BY <1>1 DEF Splits
<1>3. s \in Nat
  OBVIOUS
<1> QED
  BY <1>2, <1>3, PowersAreInt

(* The next power of 2.                                                    *)
LEMMA PowersDouble ==
    ASSUME NEW s \in 0 .. 34
    PROVE  2^(s + 1) = 2 * 2^s
<1>1. \E h, l : \E k \in Int : Splits(s, s + 1, h, l, k)
  BY UnitSplits
<1> QED
  BY <1>1 DEF Splits

(* The remainder of a product modulo 125.                                   *)
LEMMA ModProduct ==
    ASSUME NEW a \in Int, NEW k \in Int
    PROVE  (a * k) % 125 = ((a % 125) * (k % 125)) % 125
<1> DEFINE q == a \div 125
           m == a % 125
           p == k \div 125
           n == k % 125
           z == 125 * (q * p) + q * n + m * p
           w == m * n
<1>1. a = 125 * q + m /\ k = 125 * p + n /\ q \in Int /\ m \in Int /\ p \in Int /\ n \in Int
  BY SMT
<1> HIDE DEF q, m, p, n
<1>2. a * k = 125 * z + w /\ z \in Int /\ w \in Int
  BY <1>1, SMT
<1> HIDE DEF z, w
<1>3. (125 * z + w) % 125 = w % 125
  BY <1>2, SMT
<1> QED
  BY <1>2, <1>3, SMT DEF w, m, n

(* Residue is what its name says.                                          *)
LEMMA ResidueIsRemainder ==
    ASSUME NEW c \in Int, NEW s \in 0 .. 34
    PROVE  /\ Residue(c, s) \in Int
           /\ \E j \in Int : c * Unit = j * (250 * 2^s) + Residue(c, s)
<1>1. PICK h, l : \E k \in Int : Splits(s, s + 1, h, l, k)
  BY UnitSplits
<1>2. PICK k \in Int : Splits(s, s + 1, h, l, k)
  BY <1>1
<1>3. h = (58 - s) \div 2 /\ l = 58 - s - h /\ h \in Nat /\ l \in Nat /\ s + 1 \in Nat /\ s \in Nat
  <2>1. h = (58 - s) \div 2 /\ l = 58 - s - h
    BY <1>2 DEF Splits
  <2> QED
    BY <2>1, SMT
<1> DEFINE P == 2^(s + 1)
           H == 2^h
           L == 2^l
           Q == 2^s
           B == ((H % 125) * (L % 125)) % 125
           w == ((c % 125) * B) % 125
           j == (c * k) \div 125
<1>4. P \in Int /\ H \in Int /\ L \in Int /\ Q \in Int
  BY <1>3, PowersAreInt
<1>5. P * k = Unit /\ P = 2 * Q /\ k % 125 = B
  BY <1>2 DEF Splits
<1>6. Residue(c, s) = P * w
  BY <1>3 DEF Residue
<1> HIDE DEF P, H, L, Q
<1>7. B \in Int
  BY <1>4, SMT
<1> HIDE DEF B
<1>8. (c * k) % 125 = w
  BY <1>5, ModProduct
<1>9. w \in Int
  BY <1>7, SMT
<1>10. c * k \in Int
  BY SMT
<1> DEFINE ck == c * k
<1> HIDE DEF w, ck
<1>11. c * k = 125 * j + w /\ j \in Int
  <2>1. ck = 125 * (ck \div 125) + (ck % 125) /\ ck \div 125 \in Int
    BY <1>10, SMT DEF ck
  <2> QED
    BY <2>1, <1>8 DEF ck
<1> HIDE DEF j
<1>12. c * Unit = P * (c * k)
  BY <1>4, <1>5, SMT
<1>13. P * (125 * j + w) = j * (250 * Q) + P * w
  BY <1>4, <1>5, <1>9, <1>11, SMT
<1>14. c * Unit = j * (250 * Q) + P * w
  BY <1>11, <1>12, <1>13
<1>15. P * w \in Int
  BY <1>4, <1>9, SMT
<1> QED
  BY <1>6, <1>11, <1>14, <1>15 DEF Q

(* Scale chooses as its definition says.                                   *)
LEMMA ScaleChosen ==
    ASSUME NEW x
    PROVE  /\ Scale(x) \in 0 .. MaxScale /\ Scale(x) \in 0 .. 34
           /\ Scale(x) = 0 \/ Reaches(x, Scale(x))
           /\ \A t \in (Scale(x) + 1) .. MaxScale : ~Reaches(x, t)
<1> DEFINE R == {s \in 0 .. MaxScale : s = 0 \/ Reaches(x, s)}
<1>0. MaxScale \in Int /\ 0 <= MaxScale /\ MaxScale <= 34
  BY ScaleAssumption DEF ScaleAssumption
<1>1. IsFiniteSet(R) /\ R # {} /\ R \subseteq Int
  <2>1. R \subseteq 0 .. MaxScale /\ 0 \in R
    BY <1>0
  <2>2. IsFiniteSet(0 .. MaxScale)
    <3>1. 0 \in Int /\ MaxScale \in Int
      BY <1>0
    <3> QED
      BY <3>1, FS_Interval, Zenon
  <2>3. 0 .. MaxScale \subseteq Int
    OBVIOUS
  <2> HIDE DEF R
  <2> QED
    BY <2>1, <2>2, <2>3, FS_Subset
<1>2. Max(R) \in R /\ \A t \in R : Max(R) >= t
  <2> HIDE DEF R
  <2> QED BY <1>1, LastPlace
<1>3. \E s \in 0 .. MaxScale : /\ s = 0 \/ Reaches(x, s)
                               /\ \A t \in (s + 1) .. MaxScale : ~Reaches(x, t)
  <2> DEFINE m == Max(R)
  <2>1. m \in 0 .. MaxScale /\ (m = 0 \/ Reaches(x, m)) /\ \A t \in R : m >= t
    BY <1>2
  <2> HIDE DEF m
  <2>2. \A t \in (m + 1) .. MaxScale : ~Reaches(x, t)
    BY <2>1, <1>0
  <2> QED BY <2>1, <2>2
<1>4. /\ Scale(x) \in 0 .. MaxScale
      /\ Scale(x) = 0 \/ Reaches(x, Scale(x))
      /\ \A t \in (Scale(x) + 1) .. MaxScale : ~Reaches(x, t)
  BY <1>3 DEF Scale
<1>5. \A s \in 0 .. MaxScale : s \in 0 .. 34
  BY <1>0
<1> QED
  BY <1>4, <1>5

(* A double in units of d, and that y is the multiple of ulp nearest to x, *)
(* the even one of two that are equally near.                              *)
Units(x) == x.c * Unit + x.d

IsNearest(y, x, ulp) ==
    \E m \in Int :
        /\ Units(y) = m * ulp
        /\ 2 * (Units(y) - Units(x)) <= ulp
        /\ 2 * (Units(x) - Units(y)) <= ulp
        /\ (2 * (Units(y) - Units(x)) = ulp \/ 2 * (Units(x) - Units(y)) = ulp)
              => \E h \in Int : m = 2 * h

(* Rounding an exact result >= 0 gives the nearest double.                 *)
LEMMA RoundPositiveIsNearest ==
    ASSUME NEW c \in Int, NEW d \in Int
    PROVE  LET x == [c |-> c, d |-> d]
               y == RoundPositive(x)
           IN  y \in [c : {c}, d : Int] /\ IsNearest(y, x, 125 * 2^Scale(x))
<1> DEFINE x == [c |-> c, d |-> d]
           s == Scale(x)
           ulp == 125 * 2^s
           r == (Residue(x.c, s) + x.d) % (2 * ulp)
           over == r % ulp
           down == 2 * over < ulp \/ (2 * over = ulp /\ r < ulp)
           e == IF over = 0 THEN d ELSE IF down THEN d - over ELSE d + ulp - over
<1>1. RoundPositive(x) = [c |-> c, d |-> e]
  BY DEF RoundPositive
<1>2. s \in 0 .. 34
  BY ScaleChosen
<1> HIDE DEF s
<1>3. ulp \in Int /\ 1 <= ulp
  <2> DEFINE q == 2^s
  <2>1. q \in Int /\ 1 <= q
    <3> HIDE DEF s
    <3> QED
      BY <1>2, PowersOfScale, Zenon DEF q
  <2> HIDE DEF q
  <2>2. ulp = 125 * q
    BY DEF q
  <2> QED
    BY <2>1, <2>2, SMT
<1>4. PICK j \in Int : c * Unit = j * (2 * ulp) + Residue(c, s) /\ Residue(c, s) \in Int
  <2> DEFINE q == 2^s
  <2>1. q \in Int
    BY <1>2, PowersAreInt
  <2>2. PICK j \in Int : c * Unit = j * (250 * q) + Residue(c, s) /\ Residue(c, s) \in Int
    BY <1>2, ResidueIsRemainder
  <2>3. ulp = 125 * q
    BY DEF q
  <2> HIDE DEF q, ulp
  <2>4. 250 * q = 2 * ulp
    BY <2>1, <2>3, SMT
  <2> QED
    BY <2>2, <2>4
<1> HIDE DEF ulp
<1> DEFINE n == Residue(c, s) + d
           i == n \div (2 * ulp)
<1>5. r = n % (2 * ulp)
  OBVIOUS
<1>6. n \in Int /\ 2 * ulp \in Int /\ 1 <= 2 * ulp
  BY <1>3, <1>4, SMT
<1> HIDE DEF n
<1>7. r \in Int /\ 0 <= r /\ r < 2 * ulp /\ n = i * (2 * ulp) + r /\ i \in Int
  BY <1>5, <1>6, SMT
<1> HIDE DEF r, i
<1> DEFINE t == IF r < ulp THEN 0 ELSE 1
<1>8. r = t * ulp + over /\ 0 <= over /\ over < ulp /\ over \in Int /\ t \in {0, 1}
  BY <1>3, <1>7, SMT
<1>9. t = 0 <=> r < ulp
  OBVIOUS
<1> HIDE DEF over, t
<1> DEFINE base == 2 * (j + i) + t
<1>10. c * Unit + d = base * ulp + over /\ base \in Int
  <2>1. c * Unit + d = j * (2 * ulp) + n
    BY <1>3, <1>4, SMT DEF n, Unit
  <2>2. j * (2 * ulp) + (i * (2 * ulp) + (t * ulp + over)) = base * ulp + over
    BY <1>3, <1>7, <1>8, SMT
  <2> QED
    BY <1>7, <1>8, <2>1, <2>2, SMT
<1>11. j + i \in Int
  BY <1>7, SMT
<1>12. t = 0 => base = 2 * (j + i)
  BY <1>11, SMT
<1>13. t = 1 => base + 1 = 2 * (j + i + 1)
  BY <1>11, SMT
<1> DEFINE N == c * Unit + d
           y == [c |-> c, d |-> e]
<1>14. c * Unit \in Int
  BY SMT DEF Unit
<1>15. Units(x) = N /\ Units(y) = c * Unit + e
  BY DEF Units
<1>16. N \in Int
  BY <1>14, SMT
<1>17. CASE over = 0 \/ down
  <2>1. e = d - over /\ e \in Int
    BY <1>8, <1>17, SMT
  <2> HIDE DEF e, base
  <2>2. Units(y) = base * ulp /\ Units(y) = N - over
    BY <1>8, <1>10, <1>14, <1>15, <1>3, <2>1, SMT
  <2>3. 2 * over <= ulp /\ (2 * over = ulp => t = 0)
    BY <1>3, <1>8, <1>9, <1>17, SMT
  <2> HIDE DEF y, N, down
  <2>4. /\ 2 * (Units(y) - Units(x)) <= ulp /\ 2 * (Units(x) - Units(y)) <= ulp
        /\ 2 * (Units(x) - Units(y)) = ulp => t = 0
        /\ 2 * (Units(y) - Units(x)) # ulp
    BY <1>3, <1>8, <1>15, <1>16, <2>2, <2>3, SMT
  <2>5. IsNearest(y, x, ulp)
    BY <1>10, <1>11, <1>12, <2>2, <2>4 DEF IsNearest
  <2> QED
    BY <1>1, <2>1, <2>5 DEF y, ulp, s
<1>18. CASE ~(over = 0 \/ down)
  <2>1. e = d + ulp - over /\ e \in Int
    BY <1>3, <1>8, <1>18, SMT
  <2> HIDE DEF e, base
  <2>2. Units(y) = (base + 1) * ulp /\ Units(y) = N + (ulp - over)
    BY <1>8, <1>10, <1>14, <1>15, <1>3, <2>1, SMT
  <2>3. 2 * (ulp - over) <= ulp /\ (2 * (ulp - over) = ulp => t = 1) /\ 0 < ulp - over
    BY <1>3, <1>8, <1>9, <1>18, SMT
  <2> HIDE DEF y, N, down
  <2>4. /\ 2 * (Units(y) - Units(x)) <= ulp /\ 2 * (Units(x) - Units(y)) <= ulp
        /\ 2 * (Units(y) - Units(x)) = ulp => t = 1
        /\ 2 * (Units(x) - Units(y)) # ulp
    BY <1>3, <1>8, <1>15, <1>16, <2>2, <2>3, SMT
  <2>5. base + 1 \in Int /\ j + i + 1 \in Int
    BY <1>10, <1>11, SMT
  <2>6. IsNearest(y, x, ulp)
    BY <1>13, <2>2, <2>4, <2>5 DEF IsNearest
  <2> QED
    BY <1>1, <2>1, <2>6 DEF y, ulp, s
<1> QED
  BY <1>17, <1>18

(* Rounding takes every exact result to the double nearest to it.          *)
THEOREM RoundedIsNearest ==
    ASSUME NEW x \in [c : Int, d : Int]
    PROVE  LET size == IF IsNegative(x) THEN Negated(x) ELSE x
           IN  Rounded(x) \in [c : {x.c}, d : Int] /\ IsNearest(Rounded(x), x, 125 * 2^Scale(size))
<1> DEFINE n == Negated(x)
           u == 125 * 2^Scale(n)
           y == RoundPositive(n)
<1>1. n = [c |-> -x.c, d |-> -x.d] /\ -x.c \in Int /\ -x.d \in Int
  BY DEF Negated
<1>2. CASE ~IsNegative(x)
  <2>1. Rounded(x) = RoundPositive(x)
    BY <1>2 DEF Rounded
  <2>2. x = [c |-> x.c, d |-> x.d] /\ x.c \in Int /\ x.d \in Int
    OBVIOUS
  <2> DEFINE c == x.c
             d == x.d
  <2>3. c \in Int /\ d \in Int /\ x = [c |-> c, d |-> d]
    BY <2>2
  <2> HIDE DEF c, d
  <2>4. RoundPositive(x) \in [c : {c}, d : Int] /\ IsNearest(RoundPositive(x), x, 125 * 2^Scale(x))
    BY <2>3, RoundPositiveIsNearest
  <2> QED
    BY <1>2, <2>1, <2>4 DEF c
<1>3. CASE IsNegative(x)
  <2>1. Rounded(x) = Negated(y)
    BY <1>3 DEF Rounded
  <2>2. y \in [c : {-x.c}, d : Int] /\ IsNearest(y, n, u)
    <3> DEFINE c == -x.c
               d == -x.d
    <3>1. c \in Int /\ d \in Int /\ n = [c |-> c, d |-> d]
      BY <1>1
    <3> HIDE DEF c, d, n
    <3> QED
      BY <3>1, RoundPositiveIsNearest DEF c
  <2>3. Negated(y) = [c |-> x.c, d |-> -y.d] /\ -y.d \in Int
    <3>1. y.c = -x.c /\ y.d \in Int
      BY <2>2
    <3> HIDE DEF y
    <3>2. -(-x.c) = x.c
      BY SMT
    <3> QED
      BY <3>1, <3>2, SMT DEF Negated
  <2> HIDE DEF n
  <2>4. Units(n) = -Units(x) /\ Units(x) \in Int
    BY <1>1, SMT DEF Units, Unit
  <2>5. Units(Negated(y)) = -Units(y) /\ Units(y) \in Int
    <3>1. y.c = -x.c /\ y.d \in Int
      BY <2>2
    <3> HIDE DEF y
    <3> QED
      BY <2>3, <3>1, SMT DEF Units, Unit
  <2>6. u \in Int
    <3> DEFINE q == 2^Scale(n)
    <3>1. q \in Int
      <4>1. Scale(n) \in 0 .. 34 /\ \A s \in 0 .. 34 : s \in Nat
        BY ScaleChosen
      <4> QED
        BY <4>1, PowersAreInt
    <3>2. u = 125 * q
      BY DEF q
    <3> HIDE DEF q, u
    <3> QED
      BY <3>1, <3>2, SMT
  <2>7. PICK m \in Int :
          /\ Units(y) = m * u
          /\ 2 * (Units(y) - Units(n)) <= u
          /\ 2 * (Units(n) - Units(y)) <= u
          /\ (2 * (Units(y) - Units(n)) = u \/ 2 * (Units(n) - Units(y)) = u)
                => \E h \in Int : m = 2 * h
    BY <2>2 DEF IsNearest
  <2> DEFINE z == Negated(y)
             a == Units(y)
             b == Units(x)
  <2> HIDE DEF y, u, z, a, b
  <2>8. -m \in Int /\ Units(z) = (-m) * u
    BY <2>5, <2>6, <2>7, SMT DEF z
  <2>9. /\ 2 * (Units(z) - b) = 2 * (Units(n) - a)
        /\ 2 * (b - Units(z)) = 2 * (a - Units(n))
    BY <2>4, <2>5, SMT DEF z, a, b
  <2>10. \A h \in Int : m = 2 * h => -m = 2 * (-h) /\ -h \in Int
    BY SMT
  <2>11. (\E h \in Int : m = 2 * h) => \E h \in Int : -m = 2 * h
    BY <2>10
  <2>12. IsNearest(z, x, u)
    BY <2>7, <2>8, <2>9, <2>11 DEF IsNearest, a, b
  <2>13. z \in [c : {x.c}, d : Int]
    BY <2>3 DEF z
  <2> QED
    BY <1>3, <2>1, <2>12, <2>13 DEF z, u, n
<1> QED
  BY <1>2, <1>3

(* An error that does not reach 1/128 of a mill, in units of d: 2^52.      *)
Tiny == 4503599627370496

(* And the spacing of the doubles is right: x >= 2^(s-10), unless s is 0,  *)
(* and x < 2^(s-9), where the number x is Units(x) / (1000 * Unit).        *)
THEOREM ScaleIsRight ==
    ASSUME NEW c \in Int, NEW d \in Int, 0 <= c, InRange(c), d < Tiny, -Tiny < d
    PROVE  LET x == [c |-> c, d |-> d]
               s == Scale(x)
           IN  /\ s = 0 \/ 125 * 2^s * Unit <= 128 * Units(x)
               /\ 128 * Units(x) < 125 * (2 * 2^s) * Unit
<1> DEFINE x == [c |-> c, d |-> d]
           s == Scale(x)
<1>0. MaxScale \in Int /\ 0 <= MaxScale /\ MaxScale <= 34
  BY ScaleAssumption DEF ScaleAssumption
<1>1. /\ s \in 0 .. 34 /\ s \in 0 .. MaxScale /\ (s = 0 \/ Reaches(x, s))
      /\ \A t \in (s + 1) .. MaxScale : ~Reaches(x, t)
  BY ScaleChosen
<1>2. 128 * Units(x) = 128 * (c * Unit) + 128 * d
  BY SMT DEF Units, Unit
<1> DEFINE q == 2^s
<1>3. q \in Int
  BY <1>1, PowersAreInt
<1>4. s # 0 => 125 * q * Unit <= 128 * Units(x)
  <2> SUFFICES ASSUME s # 0 PROVE 125 * q * Unit <= 128 * Units(x)
    OBVIOUS
  <2>1. (128 * c > 125 * q) \/ (128 * c = 125 * q /\ d >= 0)
    BY <1>1 DEF Reaches
  <2> HIDE DEF s, q, x
  <2>2. CASE 128 * c = 125 * q /\ d >= 0
    BY <1>2, <1>3, <2>2, SMT DEF Unit
  <2>3. CASE 128 * c > 125 * q
    <3>1. 128 * c >= 125 * q + 1
      BY <1>3, <2>3, SMT
    <3> QED
      BY <1>2, <1>3, <3>1, SMT DEF Unit, Tiny
  <2> QED
    BY <2>1, <2>2, <2>3
<1>5. 128 * Units(x) < 125 * (2 * q) * Unit
  <2>1. 128 * c < 125 * (2 * q) \/ (128 * c = 125 * (2 * q) /\ d < 0)
    <3>1. CASE s = MaxScale
      <4>1. 64 * c < 125 * q
        BY <3>1 DEF InRange
      <4> HIDE DEF s, q, x
      <4> QED
        BY <1>3, <4>1, SMT
    <3>2. CASE s # MaxScale
      <4>1. s + 1 \in (s + 1) .. MaxScale
        <5> HIDE DEF s, x
        <5> QED
          BY <1>0, <1>1, <3>2, SMT
      <4>2. ~Reaches(x, s + 1)
        BY <1>1, <4>1
      <4>3. 2^(s + 1) = 2 * q
        <5> HIDE DEF s
        <5> QED
          BY <1>1, PowersDouble DEF q
      <4>4. ~(128 * c > 125 * (2 * q)) /\ ~(128 * c = 125 * (2 * q) /\ d >= 0)
        BY <4>2, <4>3 DEF Reaches
      <4> HIDE DEF s, q, x
      <4> QED
        BY <1>3, <4>4, SMT
    <3> QED
      BY <3>1, <3>2
  <2> HIDE DEF s, q, x
  <2>2. CASE 128 * c = 125 * (2 * q) /\ d < 0
    BY <1>2, <1>3, <2>2, SMT DEF Unit
  <2>3. CASE 128 * c < 125 * (2 * q)
    <3>1. 128 * c + 1 <= 125 * (2 * q)
      BY <1>3, <2>3, SMT
    <3> QED
      BY <1>2, <1>3, <3>1, SMT DEF Unit, Tiny
  <2> QED
    BY <2>1, <2>2, <2>3
<1> QED
  BY <1>4, <1>5

(* The widest spacing, 125 * 2^34, half of it, and a number of amounts.    *)
WidestSpacing == 2147483648000
HalfSpacing == 1073741824000
MaxTerms == 2048

(* Rounding changes the error by at most half of the widest spacing.       *)
LEMMA RoundingIsSmall ==
    ASSUME NEW c \in Int, NEW d \in Int
    PROVE  LET e == Rounded([c |-> c, d |-> d]).d
           IN  e \in Int /\ e - d <= HalfSpacing /\ d - e <= HalfSpacing
<1> DEFINE x == [c |-> c, d |-> d]
           size == IF IsNegative(x) THEN Negated(x) ELSE x
           q == 2^Scale(size)
           ulp == 125 * q
           y == Rounded(x)
<1>1. y \in [c : {c}, d : Int] /\ IsNearest(y, x, ulp)
  <2>1. x \in [c : Int, d : Int] /\ x.c = c
    OBVIOUS
  <2> HIDE DEF x
  <2> QED
    BY <2>1, RoundedIsNearest
<1> HIDE DEF size, y
<1>2. q \in Int /\ q <= MaxPower
  <2> DEFINE s == Scale(size)
  <2>1. s \in 0 .. 34
    BY ScaleChosen
  <2> HIDE DEF s
  <2> QED
    BY <2>1, PowersOfScale, Zenon DEF q, s
<1> HIDE DEF q
<1>3. 2 * (Units(y) - Units(x)) <= ulp /\ 2 * (Units(x) - Units(y)) <= ulp
  BY <1>1 DEF IsNearest
<1>4. Units(x) = c * Unit + d /\ Units(y) = c * Unit + y.d /\ y.d \in Int
  BY <1>1 DEF Units
<1> HIDE DEF x
<1>5. y.d - d <= HalfSpacing /\ d - y.d <= HalfSpacing
  BY <1>2, <1>3, <1>4, SMT DEF Unit, MaxPower, HalfSpacing
<1> QED
  BY <1>4, <1>5, SMT DEF y, x

(* One more amount adds at most two halves of the widest spacing: its own  *)
(* error and that of the addition.                                         *)
LEMMA PlusErrs ==
    ASSUME NEW x \in [c : Int, d : Int], NEW n \in Int
    PROVE  LET e == Plus(x, Parsed(n)).d
           IN  e \in Int /\ e - x.d <= WidestSpacing /\ x.d - e <= WidestSpacing
<1> DEFINE p == Parsed(n)
           e == Plus(x, p).d
<1>1. p.c = n
  BY PlusAddsMills
<1>2. p.d \in Int /\ p.d <= HalfSpacing /\ -p.d <= HalfSpacing
  BY RoundingIsSmall, SMT DEF Parsed, HalfSpacing
<1>3. x.c + p.c \in Int /\ x.d + p.d \in Int
  BY <1>1, <1>2, SMT
<1>4. e = Rounded([c |-> x.c + p.c, d |-> x.d + p.d]).d
  BY DEF Plus
<1> HIDE DEF p, e
<1>5. e \in Int /\ e - (x.d + p.d) <= HalfSpacing /\ (x.d + p.d) - e <= HalfSpacing
  <2> DEFINE cs == x.c + p.c
             ds == x.d + p.d
  <2>1. cs \in Int /\ ds \in Int /\ e = Rounded([c |-> cs, d |-> ds]).d
    BY <1>3, <1>4
  <2> HIDE DEF cs, ds
  <2>2. e \in Int /\ e - ds <= HalfSpacing /\ ds - e <= HalfSpacing
    BY <2>1, RoundingIsSmall
  <2> QED
    BY <2>2 DEF ds
<1>6. e - x.d <= WidestSpacing /\ x.d - e <= WidestSpacing
  BY <1>2, <1>5, SMT DEF WidestSpacing, HalfSpacing
<1> QED
  BY <1>5, <1>6, SMT DEF e, p

(* After up to 2048 additions the error is tiny.                           *)
LEMMA SumsErrLittle ==
    ASSUME NEW a, IsAmounts(a), Cardinality(DOMAIN a) <= MaxTerms
    PROVE  /\ FloatSum(a) \in [c : Int, d : Int]
           /\ FloatSum(a).d < Tiny
           /\ -Tiny < FloatSum(a).d
<1> DEFINE S == DOMAIN a
<1>0. IsFiniteSet(S) /\ S \subseteq Int /\ \A k \in S : a[k] \in Int
  BY DEF IsAmounts
<1>1. PICK it : IsFloatSum(it, S, a) /\ FloatSum(a) = it[S]
  BY <1>0, FloatSumIsOne
<1> DEFINE Near(T) == /\ it[T].d <= WidestSpacing * Cardinality(T)
                      /\ -it[T].d <= WidestSpacing * Cardinality(T)
           Good == {T \in SUBSET S : it[T] \in [c : Int, d : Int] /\ Near(T)}
<1>2. {} \in Good
  <2>1. it[{}] = [c |-> 0, d |-> 0] /\ Cardinality({}) = 0
    BY <1>1, FS_EmptySet DEF IsFloatSum, Zero
  <2> QED
    BY <2>1, SMT DEF WidestSpacing
<1>3. ASSUME NEW T \in SUBSET S, T # {}, \A x \in T : T \ {x} \in Good
      PROVE  T \in Good
  <2> DEFINE last == Max(T)
             R == T \ {last}
             before == it[R]
  <2>1. last \in T /\ IsFiniteSet(T) /\ T \subseteq Int
    BY <1>0, <1>3, LastPlace, FS_Subset
  <2>2. it[T] = Plus(before, Parsed(a[last]))
    <3>1. T \in SUBSET S /\ T # {}
      BY <1>3
    <3> HIDE DEF S
    <3> QED
      BY <1>1, <3>1 DEF IsFloatSum
  <2> HIDE DEF last
  <2>3. a[last] \in Int
    BY <1>0, <2>1
  <2>4. before \in [c : Int, d : Int] /\ Near(R)
    <3>1. R \in Good
      BY <1>3, <2>1
    <3> QED
      BY <3>1
  <2>5. Cardinality(T) \in Int /\ Cardinality(R) = Cardinality(T) - 1
    <3>1. Cardinality(T) \in Nat
      BY <2>1, FS_CardinalityType, Zenon
    <3>2. Cardinality(R) = Cardinality(T) - 1
      BY <2>1, FS_RemoveElement, Zenon
    <3> QED
      BY <3>1, <3>2
  <2> DEFINE e == Plus(before, Parsed(a[last])).d
             size == Cardinality(T)
  <2>6. e \in Int /\ e - before.d <= WidestSpacing /\ before.d - e <= WidestSpacing
    BY <2>3, <2>4, PlusErrs, SMT
  <2>7. before.d <= WidestSpacing * (size - 1) /\ -before.d <= WidestSpacing * (size - 1)
    BY <2>4, <2>5, SMT
  <2>8. before.d \in Int /\ size \in Int
    BY <2>4, <2>5, SMT
  <2>9. it[T].c \in Int /\ it[T] = [c |-> it[T].c, d |-> e]
    <3>1. before.c \in Int
      BY <2>4, SMT
    <3>2. it[T].c \in Int
      BY <2>2, <2>3, <3>1, PlusAddsMills, SMTT(30)
    <3>3. it[T] = [c |-> it[T].c, d |-> it[T].d]
      BY <2>2, SMTT(30) DEF Plus, Rounded, RoundPositive, Negated
    <3> QED
      BY <2>2, <3>2, <3>3, SMT
  <2> HIDE DEF e, size, before, R
  <2>10. e <= WidestSpacing * size /\ -e <= WidestSpacing * size
    BY <2>6, <2>7, <2>8, SMT DEF WidestSpacing
  <2> QED
    BY <2>6, <2>9, <2>10, SMT DEF size
<1> HIDE DEF Good
<1>4. \A T \in SUBSET S : T # {} /\ (\A x \in T : T \ {x} \in Good) => T \in Good
  BY <1>3
<1>5. \A T \in SUBSET S : T \in Good
  <2> HIDE DEF S
  <2> QED
    BY <1>0, <1>2, <1>4, SubsetInduction
<1>6. FloatSum(a) \in [c : Int, d : Int] /\ Near(S)
  BY <1>1, <1>5, SMT DEF Good
<1>7. Cardinality(S) \in Nat
  BY <1>0, FS_CardinalityType
<1> DEFINE d == FloatSum(a).d
           size == Cardinality(S)
<1>9. d \in Int /\ d <= WidestSpacing * size /\ -d <= WidestSpacing * size /\ size \in Nat
      /\ size <= MaxTerms
  BY <1>1, <1>6, <1>7, SMT
<1> HIDE DEF d, size
<1>10. d < Tiny /\ -Tiny < d
  BY <1>9, SMT DEF WidestSpacing, Tiny, MaxTerms
<1> QED
  BY <1>6, <1>10 DEF d

(* A number of cents is at most half a cent, 5 * U, from a double that is  *)
(* g mills and a tiny d away, if d is on its side of a tie.                *)
LEMMA DistanceToCents ==
    ASSUME NEW g \in -5 .. 5, NEW d \in Int, NEW U \in Int, NEW e \in Int,
           U = 128 * e, d < e, -e < d, g = 5 => d >= 0, g = -5 => d <= 0
    PROVE  /\ 2 * (g * U - d) <= 10 * U /\ 2 * (d - g * U) <= 10 * U
           /\ (2 * (g * U - d) = 10 * U \/ 2 * (d - g * U) = 10 * U)
                 => g \in {5, -5} /\ d = 0
<1>1. g \in {-5, -4, -3, -2, -1, 0, 1, 2, 3, 4, 5}
  BY SMT
<1> QED
  BY <1>1, SMT

(* So fmt.Sprintf("%.2f") is what Printed says: the cents nearest to the   *)
(* double, the even ones of two that are equally near.                     *)
THEOREM PrintedIsNearest ==
    ASSUME NEW a, IsAmounts(a), Cardinality(DOMAIN a) <= MaxTerms
    PROVE  LET x == FloatSum(a)
           IN  IsNearest([c |-> 10 * Printed(x), d |-> 0], x, 10 * Unit)
<1> DEFINE x == FloatSum(a)
           c == x.c
           d == x.d
           q == c \div 10
           m == c % 10
           up == m > 5 \/ (m = 5 /\ (d > 0 \/ (d = 0 /\ q % 2 = 1)))
           n == IF up THEN q + 1 ELSE q
           y == [c |-> 10 * n, d |-> 0]
<1>1. c \in Int /\ d \in Int /\ d < Tiny /\ -Tiny < d
  BY SumsErrLittle
<1>2. Printed(x) = n
  BY DEF Printed
<1>3. Units(x) = c * Unit + d /\ Units(y) = 10 * n * Unit + 0
  <2>1. y.c = 10 * n /\ y.d = 0
    OBVIOUS
  <2> HIDE DEF x, y, n
  <2> QED
    BY <2>1 DEF Units
<1> HIDE DEF x, c, d
<1>4. c = 10 * q + m /\ q \in Int /\ m \in 0 .. 9
  BY <1>1, SMT
<1>5. q % 2 = 1 => (q + 1) \div 2 \in Int /\ q + 1 = 2 * ((q + 1) \div 2)
  <2>1. q \in Int
    BY <1>4
  <2> HIDE DEF q
  <2> QED
    BY <2>1, SMT
<1>6. q % 2 # 1 => q \div 2 \in Int /\ q = 2 * (q \div 2)
  <2>1. q \in Int
    BY <1>4
  <2> HIDE DEF q
  <2> QED
    BY <2>1, SMT
<1> HIDE DEF q, m
<1>7. /\ n = q \/ n = q + 1
      /\ m < 5 => n = q
      /\ m > 5 => n = q + 1
      /\ m = 5 => (d > 0 => n = q + 1) /\ (d < 0 => n = q)
      /\ m = 5 /\ d = 0 => n = IF q % 2 = 1 THEN q + 1 ELSE q
  <2>1. (m > 5 => up) /\ (m < 5 => ~up) /\ (m = 5 /\ d > 0 => up) /\ (m = 5 /\ d < 0 => ~up)
    BY <1>1, <1>4, SMT
  <2>2. m = 5 /\ d = 0 => (up <=> q % 2 = 1)
    BY <1>1, <1>4, SMT
  <2> HIDE DEF up
  <2> QED
    BY <2>1, <2>2
<1> HIDE DEF n
<1>8. n \in Int
  BY <1>4, <1>7, SMT
<1>9. (m = 5 /\ d = 0) => \E h \in Int : n = 2 * h
  <2> SUFFICES ASSUME m = 5, d = 0 PROVE \E h \in Int : n = 2 * h
    OBVIOUS
  <2>1. CASE q % 2 = 1
    BY <1>5, <1>7, <2>1
  <2>2. CASE q % 2 # 1
    BY <1>6, <1>7, <2>2
  <2> QED
    BY <2>1, <2>2
<1> DEFINE g == 10 * n - c
           U == Unit
<1>10. g \in -5 .. 5 /\ (g = 5 => d >= 0) /\ (g = -5 => d <= 0) /\ (g \in {5, -5} => m = 5)
  BY <1>1, <1>4, <1>7, SMT
<1>11. 10 * n = c + g
  BY <1>1, <1>8, SMT
<1>12. U \in Int /\ Tiny \in Int /\ U = 128 * Tiny
  BY SMT DEF Unit, Tiny
<1> HIDE DEF g
<1>13. Units(x) = c * U + d /\ Units(y) = (10 * n) * U
  <2>1. Units(y) = (10 * n) * U + 0
    BY <1>3
  <2>2. \A u \in Int, k \in Int : (10 * k) * u + 0 = (10 * k) * u
    BY SMT
  <2> QED
    BY <1>3, <1>8, <1>12, <2>1, <2>2
<1> HIDE DEF U, y
<1>14. /\ 2 * (g * U - d) <= 10 * U /\ 2 * (d - g * U) <= 10 * U
       /\ (2 * (g * U - d) = 10 * U \/ 2 * (d - g * U) = 10 * U)
             => g \in {5, -5} /\ d = 0
  BY <1>1, <1>10, <1>12, DistanceToCents
<1>15. Units(y) - Units(x) = g * U - d /\ Units(x) - Units(y) = d - g * U
  BY <1>1, <1>8, <1>10, <1>11, <1>12, <1>13, SMT
<1>16. Units(y) = n * (10 * U)
  BY <1>8, <1>12, <1>13, SMT
<1>17. IsNearest(y, x, 10 * U)
  BY <1>8, <1>9, <1>10, <1>14, <1>15, <1>16 DEF IsNearest
<1> QED
  BY <1>2, <1>17 DEF y, U, x

(* == compares doubles and the model compares pairs <<c, d>>: two sums are *)
(* the same double only if mills and errors are the same.                  *)
THEOREM SameDoubleSamePair ==
    ASSUME NEW a, IsAmounts(a), Cardinality(DOMAIN a) <= MaxTerms,
           NEW b, IsAmounts(b), Cardinality(DOMAIN b) <= MaxTerms
    PROVE  FloatSum(a) = FloatSum(b) <=> Units(FloatSum(a)) = Units(FloatSum(b))
<1> DEFINE x == FloatSum(a)
           y == FloatSum(b)
<1>1. /\ x \in [c : Int, d : Int] /\ x.d < Tiny /\ -Tiny < x.d
      /\ y \in [c : Int, d : Int] /\ y.d < Tiny /\ -Tiny < y.d
  BY SumsErrLittle
<1> HIDE DEF x, y
<1>2. ASSUME Units(x) = Units(y)
      PROVE  x = y
  <2>1. x.c = y.c /\ x.d = y.d
    BY <1>1, <1>2, SMT DEF Units, Unit, Tiny
  <2> QED
    BY <1>1, <2>1
<1> QED
  BY <1>2 DEF x, y

-----------------------------------------------------------------------------
(* The documents.                                                          *)

(* Every country code that is needed has been filled in.                   *)
CountriesFilled(i) ==
    /\ i.seller.country # Nil
    /\ i.buyer.address1 => i.buyer.country # Nil
    /\ i.correctedBuyer # Nil => i.correctedBuyer.country # Nil

Mappable(i) ==
    /\ i \in InvoiceReceived
    /\ CorrectionOK(i)
    /\ i.currency \in Currency
    /\ i.payment # Nil => PaymentOK(i.payment)
    /\ PartiesOK(i)
    /\ BreakdownsOK(i)
    /\ TotalsOK(i)
    /\ CountriesFilled(i)

IInv ==
    /\ inv \in InvoiceReceived
    /\ stage \in {"received", "refused", "validated", "mapped", "xsd_refused", "stored"}
    /\ stage \in {"received", "refused", "validated"} => xml = Nil
    /\ stage = "validated" => Mappable(inv)
    /\ HasXml => Mappable(inv) /\ xml = Faktura(inv)

-----------------------------------------------------------------------------
(* The defaults.                                                           *)

InPoland(p) == [p EXCEPT !.country = IF @ = Nil THEN "PL" ELSE @]

(* The absence of a value is none of the texts that the checks ask for.    *)
LEMMA NilIsNoText ==
    /\ Nil # "PL" /\ Nil # "PLN" /\ Nil # "EUR" /\ Nil # "USD" /\ Nil # "date"
  BY NilAssumption DEF NilAssumption, Currency, Country

(* Filling in a country changes nothing else of an entity.                 *)
LEMMA InPolandFills ==
    ASSUME NEW p \in Entity
    PROVE  /\ InPoland(p) \in Entity
           /\ InPoland(p).country # Nil
           /\ InPoland(p).nip = p.nip /\ InPoland(p).name = p.name
           /\ InPoland(p).address1 = p.address1 /\ InPoland(p).address2 = p.address2
  <1>1. p.nip \in NipText /\ p.name \in BOOLEAN /\ p.address1 \in BOOLEAN
        /\ p.address2 \in BOOLEAN /\ p.country \in Country \cup {Nil}
        /\ p.email \in BOOLEAN /\ p.phone \in BOOLEAN
    BY DEF Entity
  <1>2. InPoland(p) = [nip |-> p.nip, name |-> p.name, address1 |-> p.address1,
                       address2 |-> p.address2,
                       country |-> IF p.country = Nil THEN "PL" ELSE p.country,
                       email |-> p.email, phone |-> p.phone]
    BY DEF InPoland, Entity
  <1>3. (IF p.country = Nil THEN "PL" ELSE p.country) \in Country \cup {Nil}
    BY <1>1 DEF Country
  <1>4. InPoland(p) \in Entity  BY <1>1, <1>2, <1>3 DEF Entity
  <1>5. InPoland(p).country # Nil  BY <1>2, NilIsNoText
  <1>6. QED BY <1>2, <1>4, <1>5

(* WithDefaults only touches the three entities.                           *)
LEMMA DefaultsOfEntities ==
    ASSUME NEW i \in InvoiceReceived
    PROVE  LET w == WithDefaults(i) IN
           /\ w \in InvoiceReceived
           /\ w.seller = InPoland(i.seller)
           /\ w.buyer = IF i.buyer.address1 THEN InPoland(i.buyer) ELSE i.buyer
           /\ w.correctedBuyer = IF i.correctedBuyer = Nil THEN Nil
                                 ELSE InPoland(i.correctedBuyer)
           /\ w.type = i.type /\ w.currency = i.currency /\ w.payment = i.payment
           /\ w.taxBreakdowns = i.taxBreakdowns /\ w.items = i.items /\ w.total = i.total
           /\ w.originalNumber = i.originalNumber
           /\ w.correctionReason = i.correctionReason
           /\ w.originalKsefId = i.originalKsefId
           /\ w.originalIssueDate = i.originalIssueDate
  <1>1. /\ i.seller \in Entity /\ i.buyer \in Entity
        /\ i.correctedBuyer # Nil => i.correctedBuyer \in Entity
    BY DEF InvoiceReceived
  <1>2. /\ InPoland(i.seller) \in Entity
        /\ (IF i.buyer.address1 THEN InPoland(i.buyer) ELSE i.buyer) \in Entity
        /\ (IF i.correctedBuyer = Nil THEN Nil ELSE InPoland(i.correctedBuyer))
              \in Entity \cup {Nil}
    BY <1>1, InPolandFills
  <1> DEFINE seller == InPoland(i.seller)
             buyer  == IF i.buyer.address1 THEN InPoland(i.buyer) ELSE i.buyer
             corrected == IF i.correctedBuyer = Nil THEN Nil ELSE InPoland(i.correctedBuyer)
  <1>3. WithDefaults(i) =
          [i EXCEPT !.seller = seller, !.buyer = buyer, !.correctedBuyer = corrected]
    BY DEF WithDefaults, InPoland, InvoiceReceived
  <1> HIDE DEF seller, buyer, corrected
  <1>4. /\ seller \in Entity /\ buyer \in Entity /\ corrected \in Entity \cup {Nil}
    BY <1>2 DEF seller, buyer, corrected
  <1>5. WithDefaults(i) \in InvoiceReceived  BY <1>3, <1>4 DEF InvoiceReceived
  <1>6. QED BY <1>3, <1>5 DEF InvoiceReceived, seller, buyer, corrected

(* What the checks and the defaults together leave in the document.        *)
LEMMA CheckedIsMappable ==
    ASSUME NEW i \in InvoiceReceived, ValidateInvoiceReceived(i)
    PROVE  Mappable(WithDefaults(i))
  <1> DEFINE w == WithDefaults(i)
  <1>1. /\ w \in InvoiceReceived
        /\ w.seller = InPoland(i.seller)
        /\ w.buyer = IF i.buyer.address1 THEN InPoland(i.buyer) ELSE i.buyer
        /\ w.correctedBuyer = IF i.correctedBuyer = Nil THEN Nil
                              ELSE InPoland(i.correctedBuyer)
        /\ w.type = i.type /\ w.currency = i.currency /\ w.payment = i.payment
        /\ w.taxBreakdowns = i.taxBreakdowns /\ w.items = i.items /\ w.total = i.total
        /\ w.originalNumber = i.originalNumber
        /\ w.correctionReason = i.correctionReason
        /\ w.originalKsefId = i.originalKsefId
        /\ w.originalIssueDate = i.originalIssueDate
    BY DefaultsOfEntities
  <1>2. FieldsOK(i) /\ TotalsOK(i)  BY DEF ValidateInvoiceReceived
  <1> HIDE DEF w
  <1>3. /\ i.seller \in Entity /\ i.buyer \in Entity
        /\ i.correctedBuyer # Nil => i.correctedBuyer \in Entity
    BY DEF InvoiceReceived
  <1>4. CorrectionOK(w)
    BY <1>2, <1>1, <1>3, InPolandFills DEF CorrectionOK, Corrective, FieldsOK
  <1>5. w.currency \in Currency /\ (w.payment # Nil => PaymentOK(w.payment))
    BY <1>2, <1>1 DEF FieldsOK, CurrencyOK
  <1>6. PartiesOK(w)
    BY <1>2, <1>1, <1>3, InPolandFills DEF PartiesOK, FieldsOK
  <1>7. CountriesFilled(w)
    BY <1>2, <1>1, <1>3, InPolandFills DEF CountriesFilled, PartiesOK, FieldsOK
  <1>8. BreakdownsOK(w)  BY <1>2, <1>1 DEF BreakdownsOK, FieldsOK
  <1>9. TotalsOK(w)  BY <1>2, <1>1 DEF TotalsOK
  <1>10. QED BY <1>1, <1>4, <1>5, <1>6, <1>7, <1>8, <1>9 DEF Mappable, w

(* No pointer that TransformToXML follows is nil.                          *)
LEMMA MappableHasNoNil ==
    ASSUME NEW i, Mappable(i)
    PROVE  ~NilDereferenced(i)
  <1>1. i.currency # Nil  BY NilIsNoText DEF Mappable, Currency
  <1>2. Corrective(i) => i.originalIssueDate # Nil
    BY NilIsNoText DEF Mappable, CorrectionOK
  <1>3. QED
    BY <1>1, <1>2 DEF Mappable, NilDereferenced, PartiesOK, CorrectionOK, CountriesFilled

-----------------------------------------------------------------------------
(* IInv is inductive.                                                      *)

(* The initial states satisfy IInv.                                        *)
LEMMA InvoiceInit == Init => IInv
  BY ReceivedAssumption DEF Init, IInv, HasXml

(* Every step preserves IInv.                                              *)
LEMMA InvoiceStep == IInv /\ [Next]_vars => IInv'
  <1> SUFFICES ASSUME IInv, [Next]_vars PROVE IInv'  OBVIOUS
  <1>1. CASE Refuse  BY <1>1 DEF Refuse, IInv, HasXml
  <1>2. CASE Accept
    <2>1. inv \in InvoiceReceived /\ ValidateInvoiceReceived(inv) /\ inv' = WithDefaults(inv) /\ xml' = Nil
      BY <1>2 DEF Accept, IInv
    <2>2. Mappable(inv')  BY <2>1, CheckedIsMappable
    <2>3. QED BY <1>2, <2>1, <2>2 DEF Accept, IInv, HasXml, Mappable
  <1>3. CASE TransformToXML
    <2>1. Mappable(inv) /\ inv' = inv  BY <1>3 DEF TransformToXML, IInv
    <2>2. stage' = "mapped" /\ xml' = Faktura(inv)
      BY <1>3, <2>1, MappableHasNoNil DEF TransformToXML
    <2>3. QED BY <2>1, <2>2 DEF IInv, HasXml
  <1>4. CASE CheckSchema  BY <1>4 DEF CheckSchema, IInv, HasXml
  <1>5. CASE UNCHANGED vars  BY <1>5 DEF vars, IInv, HasXml
  <1>6. QED BY <1>1, <1>2, <1>3, <1>4, <1>5 DEF Next

(* What the handler carries on from ValidateInvoiceReceived to the XML.     *)
THEOREM InvoiceInvariant == Spec => []IInv
  BY InvoiceInit, InvoiceStep, PTL DEF Spec

-----------------------------------------------------------------------------
(* The properties.                                                         *)

(* TransformToXML dereferences no nil pointer, whatever document passes    *)
(* ValidateInvoiceReceived.                                                *)
THEOREM NilNeverDereferenced == Spec => []NoNilDereference
  <1>1. IInv => NoNilDereference  BY DEF IInv, NoNilDereference
  <1>2. QED BY <1>1, InvoiceInvariant, PTL

(* Whatever breakdowns pass, the XML has taxes in PLN exactly for invoices *)
(* in another currency, and then for every field P_14.                     *)
THEOREM PlnTaxAlwaysIffForeign == Spec => []PlnTaxIffForeign
  <1>1. IInv => PlnTaxIffForeign
    <2> SUFFICES ASSUME IInv, HasXml PROVE PlnTaxIffForeign  BY DEF PlnTaxIffForeign
    <2>1. Mappable(inv) /\ xml = Faktura(inv)  BY DEF IInv
    <2> DEFINE entries == inv.taxBreakdowns
    <2>2. /\ DOMAIN Taxes(entries) = {k \in DOMAIN entries : entries[k].tax # Nil}
          /\ DOMAIN PlnTaxes(entries) = {k \in DOMAIN entries : entries[k].taxPln # Nil}
      BY DEF Taxes, PlnTaxes
    <2>3. \A k \in DOMAIN entries :
             entries[k].taxPln # Nil <=> (inv.currency # "PLN" /\ entries[k].tax # Nil)
      BY <2>1 DEF Mappable, BreakdownsOK
    <2>4. xml.P_14 = P_14(inv) /\ xml.P_14W = P_14W(inv) /\ xml.KodWaluty = inv.currency
      BY <2>1 DEF Faktura
    <2> DEFINE Of(places) == {h \in 1 .. 4 : \E k \in places : GroupOf(entries[k].rate) = h}
    <2>5. /\ DOMAIN P_14(inv) = Of(DOMAIN Taxes(entries))
          /\ DOMAIN P_14W(inv) = Of(DOMAIN PlnTaxes(entries))
      BY DEF P_14, P_14W, GroupSums
    <2>6. CASE inv.currency = "PLN"
      <3>1. DOMAIN PlnTaxes(entries) = {}  BY <2>2, <2>3, <2>6
      <3>2. QED BY <3>1, <2>4, <2>5, <2>6 DEF PlnTaxIffForeign
    <2>7. CASE inv.currency # "PLN"
      <3>1. DOMAIN PlnTaxes(entries) = DOMAIN Taxes(entries)  BY <2>2, <2>3, <2>7
      <3>2. QED BY <3>1, <2>4, <2>5, <2>7 DEF PlnTaxIffForeign
    <2>8. QED BY <2>6, <2>7
  <1>2. QED BY <1>1, InvoiceInvariant, PTL

(* Both NIPs of every XML are at least two typing errors away from other   *)
(* numbers that validateNIP takes.                                         *)
THEOREM TyposNeverAccepted == Spec => []NoTypoAccepted
  <1>1. IInv => NoTypoAccepted
    <2> SUFFICES ASSUME IInv, HasXml,
                        NEW nip \in {xml.Podmiot1.NIP, xml.Podmiot2.NIP},
                        NEW typo \in Typos(nip)
                 PROVE  ~validateNIP(typo)
      BY DEF NoTypoAccepted
    <2>1. Mappable(inv) /\ xml = Faktura(inv)  BY DEF IInv
    <2>2. nip = inv.seller.nip \/ nip = BuyerOf(inv).nip
      BY <2>1 DEF Faktura, Podmiot
    <2>3. nip \in NipText /\ validateNIP(nip)
      BY <2>1, <2>2 DEF Mappable, PartiesOK, CorrectionOK, BuyerOf, InvoiceReceived, Entity
    <2>4. QED BY <2>3, NoTypo
  <1>2. QED BY <1>1, InvoiceInvariant, PTL

(* An entity with an address has one in the XML.                           *)
LEMMA PartyIsCarried ==
    ASSUME NEW p \in Entity, p.address2 \/ p.country # Nil => p.address1,
           p.address1 => p.country # Nil
    PROVE  PartyCarried(p, Podmiot(p))
  <1>1. CASE ~p.address1  BY <1>1 DEF PartyCarried, Podmiot
  <1>2. CASE p.address1
    <2> DEFINE r == [KodKraju |-> p.country, AdresL1 |-> p.address1, AdresL2 |-> p.address2]
    <2>1. p.country \in Country /\ p.address1 \in BOOLEAN /\ p.address2 \in BOOLEAN
      BY <1>2 DEF Entity
    <2>2. r # Nil
      <3>1. r \in [KodKraju : Country, AdresL1 : BOOLEAN, AdresL2 : BOOLEAN]  BY <2>1
      <3> HIDE DEF r
      <3>2. QED BY <3>1, NilAssumption DEF NilAssumption
    <2>3. r.KodKraju = p.country /\ r.AdresL1 = p.address1 /\ r.AdresL2 = p.address2
      OBVIOUS
    <2> HIDE DEF r
    <2>4. Podmiot(p).Adres = r /\ Podmiot(p).NIP = p.nip /\ Podmiot(p).Nazwa = p.name
      BY <1>2 DEF Podmiot, Adres, r
    <2>5. QED BY <2>2, <2>3, <2>4 DEF PartyCarried
  <1>3. QED BY <1>1, <1>2

(* The optional branches of TransformToXML drop none of the data that      *)
(* ClientDataCarried names of a document that ValidateInvoiceReceived lets *)
(* pass.                                                                   *)
THEOREM ClientDataAlwaysCarried == Spec => []ClientDataCarried
  <1>1. IInv => ClientDataCarried
    <2> SUFFICES ASSUME IInv, HasXml PROVE ClientDataCarried  BY DEF ClientDataCarried
    <2>1. Mappable(inv) /\ xml = Faktura(inv)  BY DEF IInv
    <2>2. /\ inv.seller \in Entity /\ inv.buyer \in Entity
          /\ inv.correctedBuyer # Nil => inv.correctedBuyer \in Entity
          /\ inv.originalNumber \in BOOLEAN /\ inv.correctionReason \in BOOLEAN
          /\ inv.originalKsefId \in BOOLEAN /\ inv.originalIssueDate \in Text
      BY <2>1 DEF Mappable, InvoiceReceived
    <2>3. CorrectionOK(inv) /\ PartiesOK(inv) /\ CountriesFilled(inv)  BY <2>1 DEF Mappable
    <2>4. PartyCarried(inv.seller, xml.Podmiot1)
      <3>1. xml.Podmiot1 = Podmiot(inv.seller)  BY <2>1 DEF Faktura
      <3>2. QED BY <2>2, <2>3, <3>1, PartyIsCarried DEF PartiesOK, CountriesFilled
    <2> DEFINE buyer == IF inv.correctedBuyer = Nil THEN inv.buyer ELSE inv.correctedBuyer
    <2>5. PartyCarried(buyer, xml.Podmiot2)
      <3>1. buyer = BuyerOf(inv)  BY <2>3 DEF BuyerOf, CorrectionOK
      <3>2. xml.Podmiot2 = Podmiot(buyer)  BY <2>1, <3>1 DEF Faktura
      <3>3. CASE inv.correctedBuyer = Nil
        BY <2>2, <2>3, <3>2, <3>3, PartyIsCarried DEF PartiesOK, CountriesFilled
      <3>4. CASE inv.correctedBuyer # Nil
        BY <2>2, <2>3, <3>2, <3>4, PartyIsCarried DEF CorrectionOK, CountriesFilled
      <3>5. QED BY <3>3, <3>4
    <2>6. ASSUME Corrective(inv)
          PROVE  /\ xml.DaneFaKorygowanej # Nil
                 /\ xml.DaneFaKorygowanej = DaneFaKorygowanej(inv)
                 /\ xml.PrzyczynaKorekty = inv.correctionReason
      <3>1. inv.originalIssueDate \in STRING
        BY <2>2, <2>3, <2>6, NilIsNoText DEF CorrectionOK, Text
      <3>2. DaneFaKorygowanej(inv)
              \in [DataWystFaKorygowanej : STRING, NrFaKorygowanej : BOOLEAN,
                   NrKSeFFaKorygowanej : BOOLEAN]
        BY <2>2, <3>1 DEF DaneFaKorygowanej
      <3>3. DaneFaKorygowanej(inv) # Nil  BY <3>2, NilAssumption DEF NilAssumption
      <3>4. xml.DaneFaKorygowanej = DaneFaKorygowanej(inv)  BY <2>1, <2>6 DEF Faktura
      <3>5. xml.PrzyczynaKorekty = inv.correctionReason  BY <2>1, <2>2, <2>6 DEF Faktura
      <3>6. QED BY <3>3, <3>4, <3>5
    <2>7. (inv.originalNumber \/ inv.originalKsefId \/ inv.originalIssueDate # Nil) =>
             /\ xml.DaneFaKorygowanej # Nil
             /\ xml.DaneFaKorygowanej.NrFaKorygowanej = inv.originalNumber
             /\ xml.DaneFaKorygowanej.NrKSeFFaKorygowanej = inv.originalKsefId
             /\ xml.DaneFaKorygowanej.DataWystFaKorygowanej = inv.originalIssueDate
      BY <2>3, <2>6 DEF CorrectionOK, DaneFaKorygowanej
    <2>8. xml.PrzyczynaKorekty = inv.correctionReason
      <3>1. CASE Corrective(inv)  BY <2>6, <3>1
      <3>2. CASE ~Corrective(inv)
        BY <2>1, <2>2, <2>3, <3>2 DEF Faktura, CorrectionOK
      <3>3. QED BY <3>1, <3>2
    <2>9. ASSUME inv.payment # Nil
          PROVE  /\ xml.Platnosc # Nil
                 /\ xml.Platnosc.TerminPlatnosci = inv.payment.dueDate
                 /\ xml.Platnosc.FormaPlatnosci = inv.payment.method
                 /\ (inv.payment.account # Nil \/ inv.payment.bank) =>
                       /\ xml.Platnosc.RachunekBankowy # Nil
                       /\ xml.Platnosc.RachunekBankowy.NrRB = inv.payment.account
                       /\ xml.Platnosc.RachunekBankowy.NazwaBanku = inv.payment.bank
      <3> DEFINE p == inv.payment
                 r == [NrRB |-> p.account, NazwaBanku |-> p.bank]
      <3>1. xml.Platnosc = Platnosc(p)  BY <2>1, <2>9 DEF Faktura
      <3>2. PaymentOK(p)  BY <2>1, <2>9 DEF Mappable
      <3>3. /\ p.account \in Number /\ p.bank \in BOOLEAN
            /\ p.dueDate \in Text /\ p.method \in Number
        BY <2>1, <2>9 DEF Mappable, InvoiceReceived
      <3>4. p.bank => p.account # Nil  BY <3>2 DEF PaymentOK
      <3>5. p.account # Nil => r \in [NrRB : Int, NazwaBanku : BOOLEAN]
        BY <3>3 DEF Number
      <3>6. /\ p.account # Nil => Platnosc(p).RachunekBankowy = r /\ r # Nil
            /\ p.account = Nil => Platnosc(p).RachunekBankowy = Nil
            /\ r.NrRB = p.account /\ r.NazwaBanku = p.bank
        <4>1. p.account # Nil => r # Nil
          <5> HIDE DEF r
          <5>1. QED BY <3>5, NilAssumption DEF NilAssumption
        <4>2. QED BY <4>1 DEF Platnosc
      <3>7. Platnosc(p).TerminPlatnosci = p.dueDate /\ Platnosc(p).FormaPlatnosci = p.method
        BY DEF Platnosc
      <3>8. Platnosc(p)
              \in [TerminPlatnosci : Text, FormaPlatnosci : Number,
                   RachunekBankowy : [NrRB : Int, NazwaBanku : BOOLEAN] \cup {Nil}]
        <4> HIDE DEF r, p
        <4>1. Platnosc(p).RachunekBankowy \in [NrRB : Int, NazwaBanku : BOOLEAN] \cup {Nil}
          BY <3>5, <3>6
        <4>2. Platnosc(p) = [TerminPlatnosci |-> p.dueDate, FormaPlatnosci |-> p.method,
                             RachunekBankowy |-> Platnosc(p).RachunekBankowy]
          BY DEF Platnosc
        <4>3. QED BY <3>3, <4>1, <4>2
      <3>9. Platnosc(p) # Nil  BY <3>8, NilAssumption DEF NilAssumption
      <3> HIDE DEF p, r
      <3>10. /\ xml.Platnosc # Nil /\ xml.Platnosc.TerminPlatnosci = p.dueDate
             /\ xml.Platnosc.FormaPlatnosci = p.method
             /\ (p.account # Nil \/ p.bank) =>
                   /\ xml.Platnosc.RachunekBankowy # Nil
                   /\ xml.Platnosc.RachunekBankowy.NrRB = p.account
                   /\ xml.Platnosc.RachunekBankowy.NazwaBanku = p.bank
        BY <3>1, <3>4, <3>6, <3>7, <3>9
      <3>11. QED BY <3>10 DEF p
    <2> HIDE DEF buyer
    <2>10. QED BY <2>4, <2>5, <2>7, <2>8, <2>9 DEF ClientDataCarried, buyer
  <1>2. QED BY <1>1, InvoiceInvariant, PTL

(* The amounts of entries are numbers at finitely many places.             *)
LEMMA EntriesHaveAmounts ==
    ASSUME NEW i \in InvoiceReceived
    PROVE  /\ IsAmounts(Nets(i.items)) /\ IsAmounts(Nets(i.taxBreakdowns))
           /\ IsAmounts(Taxes(i.taxBreakdowns))
           /\ \A r : /\ IsAmounts(NetsOf(i.items, r))
                     /\ IsAmounts(NetsOf(i.taxBreakdowns, r))
  <1>1. /\ i.items \in Seq([line : Int, rate : STRING, net : Int,
                             unit : BOOLEAN, quantity : BOOLEAN, price : BOOLEAN])
        /\ i.taxBreakdowns \in Seq([rate : STRING, net : Int, tax : Number, taxPln : Number])
    BY DEF InvoiceReceived
  <1>2. /\ \A k \in DOMAIN i.items : i.items[k].net \in Int
        /\ \A k \in DOMAIN i.taxBreakdowns : /\ i.taxBreakdowns[k].net \in Int
                                             /\ i.taxBreakdowns[k].tax \in Number
    <2>1. ASSUME NEW R, NEW s \in Seq(R) PROVE \A k \in DOMAIN s : s[k] \in R
      OBVIOUS
    <2>2. /\ \A k \in DOMAIN i.items :
                i.items[k] \in [line : Int, rate : STRING, net : Int,
                                unit : BOOLEAN, quantity : BOOLEAN, price : BOOLEAN]
          /\ \A k \in DOMAIN i.taxBreakdowns :
                i.taxBreakdowns[k] \in [rate : STRING, net : Int, tax : Number, taxPln : Number]
      BY <1>1, <2>1, Zenon
    <2>3. QED BY <2>2
  <1>3. \A P : P \subseteq DOMAIN i.items \/ P \subseteq DOMAIN i.taxBreakdowns
                => P \subseteq Int /\ IsFiniteSet(P)
    <2>1. /\ DOMAIN i.items = 1 .. Len(i.items) /\ Len(i.items) \in Int
          /\ DOMAIN i.taxBreakdowns = 1 .. Len(i.taxBreakdowns) /\ Len(i.taxBreakdowns) \in Int
      BY <1>1
    <2>2. \A n \in Int : IsFiniteSet(1 .. n)
      <3>1. 1 \in Int
        OBVIOUS
      <3>2. QED BY <3>1, FS_Interval, Zenon
    <2>3. IsFiniteSet(DOMAIN i.items) /\ IsFiniteSet(DOMAIN i.taxBreakdowns)
      BY <2>1, <2>2
    <2>4. QED BY <2>1, <2>3, FS_Subset
  <1>4. IsAmounts(Nets(i.items)) /\ IsAmounts(Nets(i.taxBreakdowns))
    BY <1>2, <1>3 DEF IsAmounts, Nets
  <1>5. IsAmounts(Taxes(i.taxBreakdowns))
    BY <1>2, <1>3 DEF IsAmounts, Taxes, Number
  <1>6. ASSUME NEW r PROVE IsAmounts(NetsOf(i.items, r)) /\ IsAmounts(NetsOf(i.taxBreakdowns, r))
    BY <1>2, <1>3 DEF IsAmounts, NetsOf
  <1>7. QED BY <1>4, <1>5, <1>6

(* Every rate has a field, the taxable ones one for the tax as well.       *)
LEMMA RatesHaveGroups ==
    /\ \A r \in TaxRate : GroupOf(r) \in Groups
    /\ \A r \in Taxable : GroupOf(r) \in 1 .. 4
  BY DEF TaxRate, Taxable, GroupOf, Groups

(* The fields of every XML balance as TotalsCarried says, whatever items   *)
(* and breakdowns the client sent: to the cent for a document in whole     *)
(* cents, else but for the rounding of each field.                         *)
THEOREM TotalsAlwaysCarried == Spec => []TotalsCarried
  <1>1. IInv => TotalsCarried
    <2> SUFFICES ASSUME IInv, HasXml PROVE TotalsCarried  BY DEF TotalsCarried
    <2>1. Mappable(inv) /\ xml = Faktura(inv)  BY DEF IInv
    <2> DEFINE entries == inv.taxBreakdowns
               nets    == Nets(entries)
               taxes   == Taxes(entries)
    <2>2. /\ xml.P_13 = GroupSums(inv, nets, Groups)
          /\ xml.P_14 = GroupSums(inv, taxes, 1 .. 4)
          /\ xml.P_15 = Printed(Parsed(inv.total))
      BY <2>1 DEF Faktura, P_13, P_14
    <2>3. inv \in InvoiceReceived /\ inv.total \in Int
      BY <2>1 DEF Mappable, InvoiceReceived
    <2>4. /\ IsAmounts(Nets(inv.items)) /\ IsAmounts(nets) /\ IsAmounts(taxes)
          /\ \A r : IsAmounts(NetsOf(inv.items, r)) /\ IsAmounts(NetsOf(entries, r))
      BY <2>3, EntriesHaveAmounts
    <2>5. /\ DOMAIN nets = DOMAIN entries
          /\ DOMAIN taxes = {k \in DOMAIN entries : entries[k].tax # Nil}
      BY DEF Nets, Taxes
    <2>6. BreakdownsOK(inv) /\ TotalsOK(inv)  BY <2>1 DEF Mappable
    <2>7. /\ \A k \in DOMAIN nets : GroupOf(entries[k].rate) \in Groups
          /\ \A k \in DOMAIN taxes : GroupOf(entries[k].rate) \in 1 .. 4
      BY <2>5, <2>6, RatesHaveGroups DEF BreakdownsOK
    <2> HIDE DEF nets, taxes, entries
    <2> DEFINE sums13 == xml.P_13
               sums14 == xml.P_14
               total == inv.total
    <2>8. /\ DOMAIN sums13 = {GroupOf(entries[k].rate) : k \in DOMAIN nets}
          /\ IsFiniteSet(DOMAIN sums13) /\ IsFiniteSet(DOMAIN sums14)
          /\ ExactSum(sums13) \in Int /\ ExactSum(nets) \in Int
          /\ ExactSum(sums14) \in Int /\ ExactSum(taxes) \in Int
          /\ 10 * ExactSum(sums13) - ExactSum(nets) <= 5 * Cardinality(DOMAIN sums13)
          /\ -(10 * ExactSum(sums13) - ExactSum(nets)) <= 5 * Cardinality(DOMAIN sums13)
          /\ 10 * ExactSum(sums14) - ExactSum(taxes) <= 5 * Cardinality(DOMAIN sums14)
          /\ -(10 * ExactSum(sums14) - ExactSum(taxes)) <= 5 * Cardinality(DOMAIN sums14)
          /\ (\A k \in DOMAIN nets : nets[k] % 10 = 0)
                => 10 * ExactSum(sums13) - ExactSum(nets) = 0
          /\ (\A k \in DOMAIN taxes : taxes[k] % 10 = 0)
                => 10 * ExactSum(sums14) - ExactSum(taxes) = 0
      <3>1. /\ Groups \in SUBSET Int /\ IsFiniteSet(Groups)
            /\ 1 .. 4 \in SUBSET Int /\ IsFiniteSet(1 .. 4)
        <4>1. Groups \subseteq 1 .. 63 /\ 1 .. 63 \subseteq Int /\ 1 .. 4 \subseteq 1 .. 63
          BY DEF Groups
        <4>2. IsFiniteSet(1 .. 63)
          <5>1. 1 \in Int /\ 63 \in Int  OBVIOUS
          <5>2. QED BY <5>1, FS_Interval, Zenon
        <4>3. QED BY <4>1, <4>2, FS_Subset
      <3>2. /\ \A k \in DOMAIN nets : GroupOf(inv.taxBreakdowns[k].rate) \in Groups
            /\ \A k \in DOMAIN taxes : GroupOf(inv.taxBreakdowns[k].rate) \in 1 .. 4
        BY <2>7 DEF entries
      <3>3. /\ DOMAIN sums13 = {GroupOf(inv.taxBreakdowns[k].rate) : k \in DOMAIN nets}
            /\ IsFiniteSet(DOMAIN sums13)
            /\ ExactSum(sums13) \in Int /\ ExactSum(nets) \in Int
            /\ 10 * ExactSum(sums13) - ExactSum(nets) <= 5 * Cardinality(DOMAIN sums13)
            /\ -(10 * ExactSum(sums13) - ExactSum(nets)) <= 5 * Cardinality(DOMAIN sums13)
            /\ (\A k \in DOMAIN nets : nets[k] % 10 = 0)
                  => 10 * ExactSum(sums13) - ExactSum(nets) = 0
        BY <2>2, <2>4, <3>1, <3>2, GroupsCarrySum
      <3>4. /\ IsFiniteSet(DOMAIN sums14)
            /\ ExactSum(sums14) \in Int /\ ExactSum(taxes) \in Int
            /\ 10 * ExactSum(sums14) - ExactSum(taxes) <= 5 * Cardinality(DOMAIN sums14)
            /\ -(10 * ExactSum(sums14) - ExactSum(taxes)) <= 5 * Cardinality(DOMAIN sums14)
            /\ (\A k \in DOMAIN taxes : taxes[k] % 10 = 0)
                  => 10 * ExactSum(sums14) - ExactSum(taxes) = 0
        <4> DEFINE four == 1 .. 4
                   sums == GroupSums(inv, taxes, four)
        <4>1. /\ four \in SUBSET Int /\ IsFiniteSet(four) /\ IsAmounts(taxes)
              /\ \A k \in DOMAIN taxes : GroupOf(inv.taxBreakdowns[k].rate) \in four
          BY <2>4, <3>1, <3>2
        <4>2. sums14 = sums  BY <2>2
        <4> HIDE DEF four
        <4>3. /\ IsFiniteSet(DOMAIN sums)
              /\ ExactSum(sums) \in Int /\ ExactSum(taxes) \in Int
              /\ 10 * ExactSum(sums) - ExactSum(taxes) <= 5 * Cardinality(DOMAIN sums)
              /\ -(10 * ExactSum(sums) - ExactSum(taxes)) <= 5 * Cardinality(DOMAIN sums)
              /\ (\A k \in DOMAIN taxes : taxes[k] % 10 = 0)
                    => 10 * ExactSum(sums) - ExactSum(taxes) = 0
          BY <4>1, GroupsCarrySum
        <4>4. QED BY <4>2, <4>3
      <3> HIDE DEF sums13, sums14
      <3>5. QED BY <3>3, <3>4 DEF entries
    <2>9. /\ FloatSum(Nets(inv.items)).c = ExactSum(Nets(inv.items))
          /\ ExactSum(Nets(inv.items)) \in Int
          /\ FloatSum(nets).c = ExactSum(nets)
          /\ FloatSum(taxes).c = ExactSum(taxes)
          /\ \A r : /\ FloatSum(NetsOf(inv.items, r)).c = ExactSum(NetsOf(inv.items, r))
                    /\ FloatSum(NetsOf(entries, r)).c = ExactSum(NetsOf(entries, r))
      BY <2>4, FloatSumIsExact
    <2>10. /\ FloatSum(Nets(inv.items)) = FloatSum(nets)
           /\ Plus(FloatSum(Nets(inv.items)), FloatSum(taxes)) = Parsed(inv.total)
           /\ Rates(inv.items) = Rates(entries)
           /\ \A r \in Rates(inv.items) :
                 FloatSum(NetsOf(inv.items, r)) = FloatSum(NetsOf(entries, r))
      BY <2>6 DEF TotalsOK, nets, taxes, entries
    <2>11. ExactSum(nets) + ExactSum(taxes) = total /\ ExactSum(nets) = ExactSum(Nets(inv.items))
      <3>1. ExactSum(nets) + ExactSum(taxes) = Parsed(total).c
        BY <2>4, <2>9, <2>10, PlusOfSums
      <3>2. Parsed(total).c = total  BY <2>3, RoundedKeepsMills DEF Parsed
      <3>3. QED BY <2>9, <2>10, <3>1, <3>2
    <2> DEFINE p15 == xml.P_15
    <2>12. /\ p15 \in Int
           /\ 10 * p15 - total <= 5 /\ total - 10 * p15 <= 5
           /\ total % 10 = 0 => 10 * p15 = total
      <3>1. Parsed(total).c = total  BY <2>3, RoundedKeepsMills DEF Parsed
      <3>2. QED BY <2>2, <2>3, <3>1, PrintedIsClose
    <2> DEFINE n13 == Cardinality(DOMAIN sums13)
               n14 == Cardinality(DOMAIN sums14)
               e13 == ExactSum(sums13)
               e14 == ExactSum(sums14)
               off == 10 * (e13 + e14 - p15)
    <2>13. n13 \in Int /\ n14 \in Int
      <3>1. n13 \in Nat /\ n14 \in Nat  BY <2>8, FS_CardinalityType
      <3>2. QED BY <3>1
    <2>14. -5 * (n13 + n14 + 1) <= off /\ off <= 5 * (n13 + n14 + 1)
      <3> HIDE DEF n13, n14, e13, e14, p15
      <3> DEFINE N == ExactSum(nets)
                 T == ExactSum(taxes)
      <3>1. /\ e13 \in Int /\ e14 \in Int /\ N \in Int /\ T \in Int /\ N + T = total
            /\ 10 * e13 - N <= 5 * n13 /\ -(10 * e13 - N) <= 5 * n13
            /\ 10 * e14 - T <= 5 * n14 /\ -(10 * e14 - T) <= 5 * n14
        BY <2>8, <2>11 DEF n13, n14, e13, e14
      <3> HIDE DEF N, T
      <3>2. QED BY <2>3, <2>12, <2>13, <3>1, SMT
    <2>15. ASSUME InWholeCents(inv)
           PROVE  off = 0 /\ 10 * e13 = ExactSum(Nets(inv.items))
      <3>1. /\ \A k \in DOMAIN nets : nets[k] % 10 = 0
            /\ \A k \in DOMAIN taxes : taxes[k] % 10 = 0
            /\ total % 10 = 0
        BY <2>15, <2>5 DEF InWholeCents, nets, taxes, entries, Nets, Taxes
      <3> HIDE DEF p15, total
      <3> DEFINE N == ExactSum(nets)
                 T == ExactSum(taxes)
      <3>2. /\ e13 \in Int /\ e14 \in Int /\ N \in Int /\ T \in Int
            /\ 10 * e13 - N = 0 /\ 10 * e14 - T = 0
        BY <2>8, <3>1
      <3>3. N + T = total /\ N = ExactSum(Nets(inv.items)) /\ 10 * p15 = total /\ p15 \in Int
        BY <2>11, <2>12, <3>1
      <3> HIDE DEF N, T, e13, e14
      <3>4. QED BY <3>2, <3>3, SMT
    <2>16. ASSUME NEW r \in Rates(inv.items)
           PROVE  /\ GroupOf(r) \in DOMAIN xml.P_13
                  /\ ExactSum(NetsOf(inv.items, r)) = ExactSum(NetsOf(entries, r))
      <3>1. \E k \in DOMAIN entries : r = entries[k].rate
        BY <2>10 DEF Rates
      <3>2. QED BY <2>5, <2>8, <2>9, <2>10, <3>1
    <2> HIDE DEF off, n13, n14, e13, sums13, sums14
    <2>17. QED BY <2>16, <2>14, <2>15 DEF TotalsCarried, entries, off, n13, n14, e13, e14, p15,
                  sums13, sums14
  <1>2. QED BY <1>1, InvoiceInvariant, PTL

=============================================================================
