--------------------------- MODULE InvoiceMapping ---------------------------
(***************************************************************************)
(* One POST /invoices, from the decoded document to the insert: the checks *)
(* of ValidateInvoiceReceived, which also fills in country codes, the      *)
(* mapping of TransformToXML, and the XSD check.  What is stored then is   *)
(* action CreateInvoice of module Service.                                 *)
(*                                                                         *)
(* A text that is only carried along is whether it is given, a date is     *)
(* "date" or "bad", a bank account its length, an amount its mills (see    *)
(* Amounts), flags the set of those that are true.  Nil is a missing       *)
(* pointer.                                                                *)
(***************************************************************************)
EXTENDS Amounts, Nip, FiniteSets

CONSTANTS
    Nil,
    Received      \* bound: the documents that clients send

Currency == {"PLN", "EUR", "USD"}          \* bound: texts of length 3
Text == STRING \cup {Nil}
Number == Int \cup {Nil}
Country == {"PL"} \cup STRING              \* any text; the default is named

Entity ==
    [nip : NipText, name : BOOLEAN, address1 : BOOLEAN, address2 : BOOLEAN,
     country : Country \cup {Nil}, email : BOOLEAN, phone : BOOLEAN]

InvoiceReceived ==
    [type : STRING, issueDate : STRING, originalIssueDate : Text,
     originalNumber : BOOLEAN, correctionReason : BOOLEAN, originalKsefId : BOOLEAN,
     currency : Text, exchangeRate : Number, total : Int,
     seller : Entity, buyer : Entity, correctedBuyer : Entity \cup {Nil},
     items : Seq([line : Int, rate : STRING, net : Int,
                  unit : BOOLEAN, quantity : BOOLEAN, price : BOOLEAN]),
     taxBreakdowns : Seq([rate : STRING, net : Int, tax : Number, taxPln : Number]),
     payment : [dueDate : Text, method : Number, account : Number, bank : BOOLEAN]
               \cup {Nil},
     flags : SUBSET {"cash", "split", "reverse"}]

(* Nil is none of the values it is the absence of.                         *)
ASSUME NilAssumption ==
    /\ Nil \notin Currency \cup Country \cup {"date"}
    /\ Nil \notin [KodKraju : Country, AdresL1 : BOOLEAN, AdresL2 : BOOLEAN]
    /\ Nil \notin [NrRB : Int, NazwaBanku : BOOLEAN]
    /\ Nil \notin [DataWystFaKorygowanej : STRING, NrFaKorygowanej : BOOLEAN,
                    NrKSeFFaKorygowanej : BOOLEAN]
    /\ Nil \notin [TerminPlatnosci : Text, FormaPlatnosci : Number,
                    RachunekBankowy : [NrRB : Int, NazwaBanku : BOOLEAN] \cup {Nil}]
ASSUME ReceivedAssumption == Received \subseteq InvoiceReceived

VARIABLES
    stage,        \* how far the handler is
    inv,          \* the document, changed in place
    xml           \* the Faktura made of it, or Nil

vars == <<stage, inv, xml>>

CorrectiveType == {"KOR", "KOR_ROZ", "KOR_ZAL"}
InvoiceType == {"VAT", "ZAL", "ROZ", "UPR"} \cup CorrectiveType
Taxable == {"23", "22", "8", "7", "5", "4", "3"}
TaxRate == Taxable \cup {"0 KR", "0 WDT", "0 EX", "zw", "oo", "np I", "np II"}

Corrective(i) == i.type \in CorrectiveType

(* Amounts of the entries, by the places of those that have them.          *)
Nets(entries) == [k \in DOMAIN entries |-> entries[k].net]

NetsOf(entries, r) ==
    [k \in {j \in DOMAIN entries : entries[j].rate = r} |-> entries[k].net]

Taxes(breakdowns) ==
    [k \in {j \in DOMAIN breakdowns : breakdowns[j].tax # Nil} |-> breakdowns[k].tax]

PlnTaxes(breakdowns) ==
    [k \in {j \in DOMAIN breakdowns : breakdowns[j].taxPln # Nil} |-> breakdowns[k].taxPln]

Rates(entries) == {entries[k].rate : k \in DOMAIN entries}

(* What the places that have an amount add up to, without their signs.     *)
Magnitude(amounts) ==
    FoldLeft(LAMBDA total, n : total + (IF n < 0 THEN -n ELSE n), 0, amounts)

(* The bound of Amounts: no sum of a document can leave the range.         *)
ASSUME RangeAssumption ==
    \A i \in Received :
        /\ InRange(i.total)
        /\ InRange(Magnitude(Nets(i.items)))
        /\ InRange(Magnitude(Nets(i.taxBreakdowns)) + Magnitude(Taxes(i.taxBreakdowns)))
        /\ InRange(Magnitude(PlnTaxes(i.taxBreakdowns)))

-----------------------------------------------------------------------------
(* The checks of ValidateInvoiceReceived.                                  *)

CorrectionOK(i) ==
    IF Corrective(i)
    THEN /\ i.originalNumber /\ i.correctionReason /\ i.originalKsefId
         /\ i.originalIssueDate = "date"
         /\ i.correctedBuyer # Nil =>
               /\ i.correctedBuyer.name /\ i.correctedBuyer.address1
               /\ validateNIP(i.correctedBuyer.nip)
    ELSE /\ ~i.originalNumber /\ ~i.correctionReason /\ ~i.originalKsefId
         /\ i.originalIssueDate = Nil
         /\ i.correctedBuyer = Nil

CurrencyOK(i) ==
    /\ i.currency \in Currency
    /\ i.currency = "PLN" <=> i.exchangeRate = Nil
    /\ i.exchangeRate # Nil => i.exchangeRate > 0

validateUPRLimit(currency, total) ==
    /\ Exceeds(total, 0)
    /\ \/ currency = "PLN" /\ ~Exceeds(total, 450000)
       \/ currency = "EUR" /\ ~Exceeds(total, 100000)

PaymentOK(p) ==
    /\ p.dueDate # Nil \/ p.method # Nil \/ p.account # Nil \/ p.bank
    /\ p.dueDate # "bad"
    /\ p.method # Nil => p.method \in 1 .. 7
    /\ p.bank => p.account # Nil
    /\ p.account # Nil => p.account \in 10 .. 34

ItemsOK(i) ==
    /\ i.items # <<>>
    /\ \A k \in DOMAIN i.items :
         LET item == i.items[k] IN
         /\ item.line > 0
         /\ \A j \in DOMAIN i.items : i.items[j].line = item.line => j = k
         /\ Corrective(i) \/ item.net >= 0
         /\ item.quantity => item.price
         /\ item.rate \in TaxRate

(* MUTANT of PartiesOK: the buyer's country may come without an address.   *)
PartiesWithCountryOnly(i) ==
    /\ validateNIP(i.seller.nip) /\ i.seller.name /\ i.seller.address1
    /\ validateNIP(i.buyer.nip)
    /\ i.type = "UPR" \/ (i.buyer.name /\ i.buyer.address1)
    /\ i.buyer.address2 => i.buyer.address1

PartiesOK(i) ==
    /\ validateNIP(i.seller.nip) /\ i.seller.name /\ i.seller.address1
    /\ validateNIP(i.buyer.nip)
    /\ i.type = "UPR" \/ (i.buyer.name /\ i.buyer.address1)
    /\ i.buyer.address2 => i.buyer.address1
    /\ i.buyer.country # Nil => i.buyer.address1

(* MUTANT of BreakdownsOK: tax in PLN is not asked for in other currencies.*)
BreakdownsWithoutPln(i) ==
    /\ i.taxBreakdowns # <<>>
    /\ \A k \in DOMAIN i.taxBreakdowns :
         LET b == i.taxBreakdowns[k] IN
         /\ b.rate \in TaxRate
         /\ b.tax # Nil <=> b.rate \in Taxable
         /\ i.currency = "PLN" => b.taxPln = Nil
         /\ b.rate \notin Taxable => b.taxPln = Nil

BreakdownsOK(i) ==
    /\ i.taxBreakdowns # <<>>
    /\ \A k \in DOMAIN i.taxBreakdowns :
         LET b == i.taxBreakdowns[k] IN
         /\ b.rate \in TaxRate
         /\ b.tax # Nil <=> b.rate \in Taxable
         /\ b.taxPln # Nil <=> (i.currency # "PLN" /\ b.rate \in Taxable)

(* Same rates on both sides and, in floating point, the same sums.         *)
TotalsOK(i) ==
    LET totalNet == FloatSum(Nets(i.items))
        totalTax == FloatSum(Taxes(i.taxBreakdowns))
    IN  /\ Rates(i.items) = Rates(i.taxBreakdowns)
        /\ \A r \in Rates(i.items) :
             FloatSum(NetsOf(i.items, r)) = FloatSum(NetsOf(i.taxBreakdowns, r))
        /\ totalNet = FloatSum(Nets(i.taxBreakdowns))
        /\ Plus(totalNet, totalTax) = Parsed(i.total)

FieldsOK(i) ==
    /\ i.type \in InvoiceType
    /\ i.issueDate = "date"
    /\ CorrectionOK(i)
    /\ CurrencyOK(i)
    /\ i.type = "UPR" => validateUPRLimit(i.currency, Parsed(i.total))
    /\ i.payment # Nil => PaymentOK(i.payment)
    /\ ItemsOK(i)
    /\ PartiesOK(i)
    /\ BreakdownsOK(i)

ValidateInvoiceReceived(i) == FieldsOK(i) /\ TotalsOK(i)

(* MUTANT of WithDefaults: the corrected buyer is forgotten.               *)
WithDefaultsOfParties(i) ==
    LET InPoland(p) == [p EXCEPT !.country = IF @ = Nil THEN "PL" ELSE @]
    IN  [i EXCEPT !.seller = InPoland(@),
                  !.buyer  = IF @.address1 THEN InPoland(@) ELSE @]

(* The country codes it fills in on the way.                               *)
WithDefaults(i) ==
    LET InPoland(p) == [p EXCEPT !.country = IF @ = Nil THEN "PL" ELSE @]
    IN  [i EXCEPT !.seller = InPoland(@),
                  !.buyer  = IF @.address1 THEN InPoland(@) ELSE @,
                  !.correctedBuyer = IF @ = Nil THEN Nil ELSE InPoland(@)]

-----------------------------------------------------------------------------
(* TransformToXML.                                                         *)

BuyerOf(i) ==
    IF Corrective(i) /\ i.correctedBuyer # Nil THEN i.correctedBuyer ELSE i.buyer

(* Some pointer that TransformToXML follows is nil.                        *)
NilDereferenced(i) ==
    \/ ~i.seller.name \/ ~i.seller.address1 \/ i.seller.country = Nil
    \/ i.currency = Nil
    \/ IF Corrective(i) /\ i.correctedBuyer # Nil
       THEN i.correctedBuyer.country = Nil \/ ~i.correctedBuyer.address1
       ELSE i.buyer.address1 /\ i.buyer.country = Nil
    \/ /\ Corrective(i)
       /\ \/ ~i.correctionReason \/ i.originalIssueDate = Nil
          \/ ~i.originalNumber \/ ~i.originalKsefId

Adres(party) ==
    IF party.address1
    THEN [KodKraju |-> party.country, AdresL1 |-> party.address1, AdresL2 |-> party.address2]
    ELSE Nil

(* An entity's email and phone go nowhere.                                 *)
Podmiot(party) == [NIP |-> party.nip, Nazwa |-> party.name, Adres |-> Adres(party)]

Annotation(flag, i) == IF flag \in i.flags THEN 1 ELSE 2

Platnosc(p) ==
    [TerminPlatnosci |-> p.dueDate, FormaPlatnosci |-> p.method,
     RachunekBankowy |-> IF p.account = Nil THEN Nil
                         ELSE [NrRB |-> p.account, NazwaBanku |-> p.bank]]

DaneFaKorygowanej(i) ==
    [DataWystFaKorygowanej |-> i.originalIssueDate, NrFaKorygowanej |-> i.originalNumber,
     NrKSeFFaKorygowanej |-> i.originalKsefId]

FaWiersz(i, item) ==
    IF i.type = "UPR"
    THEN [NrWierszaFa |-> item.line, P_8A |-> FALSE, P_8B |-> FALSE, P_9A |-> FALSE,
          P_11 |-> Nil, P_12 |-> Nil, KursWaluty |-> Nil]
    ELSE [NrWierszaFa |-> item.line, P_8A |-> item.unit, P_8B |-> item.quantity,
          P_9A |-> item.price, P_11 |-> Printed(Parsed(item.net)), P_12 |-> item.rate,
          KursWaluty |-> i.exchangeRate]

(* MUTANT of GroupOf: the rate 22 has no case.                             *)
GroupWithoutOldRate(r) ==
    CASE r = "23"             -> 1
      [] r \in {"8", "7"}     -> 2
      [] r \in {"5", "3"}     -> 3
      [] r = "4"              -> 4
      [] r = "0 KR"           -> 61
      [] r = "0 WDT"          -> 62
      [] r = "0 EX"           -> 63
      [] r = "zw"             -> 7
      [] r = "np I"           -> 8
      [] r = "np II"          -> 9
      [] r = "oo"             -> 10
      [] OTHER                -> 0

(* The field P_13_<group> that sums up a rate; 61 to 63 are 6_1 to 6_3.    *)
GroupOf(r) ==
    CASE r \in {"23", "22"}   -> 1
      [] r \in {"8", "7"}     -> 2
      [] r \in {"5", "3"}     -> 3
      [] r = "4"              -> 4
      [] r = "0 KR"           -> 61
      [] r = "0 WDT"          -> 62
      [] r = "0 EX"           -> 63
      [] r = "zw"             -> 7
      [] r = "np I"           -> 8
      [] r = "np II"          -> 9
      [] r = "oo"             -> 10
      [] OTHER                -> 0

Groups == {1, 2, 3, 4, 61, 62, 63, 7, 8, 9, 10}     \* those that are printed

(* The printed sum of the amounts in every group that has some.            *)
GroupSums(i, amounts, groups) ==
    LET within(g) == {k \in DOMAIN amounts : GroupOf(i.taxBreakdowns[k].rate) = g}
    IN  [g \in {h \in groups : within(h) # {}} |->
            Printed(FloatSum(Restrict(amounts, within(g))))]

P_13(i) == GroupSums(i, Nets(i.taxBreakdowns), Groups)

(* Only groups 1 to 4 have fields for the tax.                             *)
P_14(i) == GroupSums(i, Taxes(i.taxBreakdowns), 1 .. 4)

P_14W(i) == GroupSums(i, PlnTaxes(i.taxBreakdowns), 1 .. 4)

Faktura(i) ==
    [Podmiot1      |-> Podmiot(i.seller),
     Podmiot2      |-> Podmiot(BuyerOf(i)),
     KodWaluty     |-> i.currency,
     P_13          |-> P_13(i),
     P_14          |-> P_14(i),
     P_14W         |-> P_14W(i),
     P_15          |-> Printed(Parsed(i.total)),
     P_16          |-> Annotation("cash", i),
     P_18          |-> Annotation("reverse", i),
     P_18A         |-> Annotation("split", i),
     RodzajFaktury |-> i.type,
     PrzyczynaKorekty  |-> Corrective(i) /\ i.correctionReason,
     DaneFaKorygowanej |-> IF Corrective(i) THEN DaneFaKorygowanej(i) ELSE Nil,
     FaWiersz      |-> [k \in DOMAIN i.items |-> FaWiersz(i, i.items[k])],
     Platnosc      |-> IF i.payment = Nil THEN Nil ELSE Platnosc(i.payment)]

-----------------------------------------------------------------------------
(* The handler.                                                            *)

Init ==
    /\ stage = "received"
    /\ inv \in Received
    /\ xml = Nil

(* 422 incorrect_invoice                                                   *)
Refuse ==
    /\ stage = "received"
    /\ ~ValidateInvoiceReceived(inv)
    /\ stage' = "refused"
    /\ UNCHANGED <<inv, xml>>

Accept ==
    /\ stage = "received"
    /\ ValidateInvoiceReceived(inv)
    /\ stage' = "validated"
    /\ inv' = WithDefaults(inv)
    /\ UNCHANGED xml

TransformToXML ==
    /\ stage = "validated"
    /\ IF NilDereferenced(inv)
       THEN stage' = "panicked" /\ UNCHANGED xml
       ELSE stage' = "mapped" /\ xml' = Faktura(inv)
    /\ UNCHANGED inv

(* xsdValidator.Validate: 422 validation_failure, or on to the insert.     *)
CheckSchema ==
    /\ stage = "mapped"
    /\ stage' \in {"xsd_refused", "stored"}
    /\ UNCHANGED <<inv, xml>>

Next == Refuse \/ Accept \/ TransformToXML \/ CheckSchema

Spec == Init /\ [][Next]_vars

-----------------------------------------------------------------------------
(* Properties.                                                             *)

HasXml == xml # Nil

(* TransformToXML follows pointers without asking whether they are nil; it *)
(* relies on ValidateInvoiceReceived for every one of them, the country    *)
(* codes it fills in included, in every combination of invoice type, buyer *)
(* and corrected buyer.                                                    *)
NoNilDereference == stage # "panicked"

(* The amounts that the XML sums up and their total are in whole cents.    *)
InWholeCents(i) ==
    /\ i.total % 10 = 0
    /\ \A k \in DOMAIN i.taxBreakdowns :
          LET b == i.taxBreakdowns[k]
          IN  b.net % 10 = 0 /\ (b.tax # Nil => b.tax % 10 = 0)

(* Of a document in whole cents the XML balances although the program sums *)
(* floating point numbers: P_15 is the sum of all P_13 and P_14, and the   *)
(* P_13 are what the items add up to.  Nothing asks for whole cents, and   *)
(* "%.2f" rounds every sum on its own: zw 0.005 + oo 0.005 is printed as   *)
(* 0.01 + 0.01 with P_15 0.01.  Of such a document the XML is off by at    *)
(* most half a cent for every amount printed, so that still no amount gets *)
(* lost or counted twice.  The sum of every rate of the items is in that   *)
(* of its group.                                                           *)
TotalsCarried ==
    HasXml =>
        LET off    == 10 * (ExactSum(xml.P_13) + ExactSum(xml.P_14) - xml.P_15)
            fields == Cardinality(DOMAIN xml.P_13) + Cardinality(DOMAIN xml.P_14) + 1
        IN  /\ InWholeCents(inv) => /\ off = 0
                                    /\ 10 * ExactSum(xml.P_13) = ExactSum(Nets(inv.items))
            /\ -5 * fields <= off /\ off <= 5 * fields
            /\ \A r \in Rates(inv.items) :
                  /\ GroupOf(r) \in DOMAIN xml.P_13
                  /\ ExactSum(NetsOf(inv.items, r)) = ExactSum(NetsOf(inv.taxBreakdowns, r))

(* Every tax of an invoice in another currency is also given in PLN, and   *)
(* none of an invoice in PLN, also when several rates share one field.     *)
PlnTaxIffForeign ==
    HasXml => DOMAIN xml.P_14W = IF xml.KodWaluty = "PLN" THEN {} ELSE DOMAIN xml.P_14

(* An entity's NIP, name and address are in the XML.                       *)
PartyCarried(p, podmiot) ==
    /\ podmiot.NIP = p.nip /\ podmiot.Nazwa = p.name
    /\ (p.address1 \/ p.address2 \/ p.country # Nil) =>
          /\ podmiot.Adres # Nil
          /\ podmiot.Adres.KodKraju = p.country
          /\ podmiot.Adres.AdresL1 = p.address1 /\ podmiot.Adres.AdresL2 = p.address2

(* NIP, name and address of the parties, all of the payment and all about  *)
(* the corrected invoice are in the XML as the client sent them, or the    *)
(* invoice was refused: TransformToXML puts each of them in a branch of    *)
(* its own, and drops none that ValidateInvoiceReceived lets pass.  This   *)
(* is not so of email and phone, which have no place in the XML, nor of    *)
(* the buyer of a correction that names another one.                       *)
ClientDataCarried ==
    HasXml =>
        /\ PartyCarried(inv.seller, xml.Podmiot1)
        /\ PartyCarried(IF inv.correctedBuyer = Nil THEN inv.buyer ELSE inv.correctedBuyer,
                        xml.Podmiot2)
        /\ (inv.originalNumber \/ inv.originalKsefId \/ inv.originalIssueDate # Nil) =>
              LET original == xml.DaneFaKorygowanej IN
              /\ original # Nil
              /\ original.NrFaKorygowanej = inv.originalNumber
              /\ original.NrKSeFFaKorygowanej = inv.originalKsefId
              /\ original.DataWystFaKorygowanej = inv.originalIssueDate
        /\ xml.PrzyczynaKorekty = inv.correctionReason
        /\ inv.payment # Nil =>
              LET bank == xml.Platnosc.RachunekBankowy IN
              /\ xml.Platnosc # Nil
              /\ xml.Platnosc.TerminPlatnosci = inv.payment.dueDate
              /\ xml.Platnosc.FormaPlatnosci = inv.payment.method
              /\ (inv.payment.account # Nil \/ inv.payment.bank) =>
                    bank # Nil /\ bank.NrRB = inv.payment.account
                              /\ bank.NazwaBanku = inv.payment.bank

(* No NIP of the XML is one wrong character or one swap of neighbours away *)
(* from another NIP that validateNIP takes.                                *)
NoTypoAccepted ==
    HasXml => \A nip \in {xml.Podmiot1.NIP, xml.Podmiot2.NIP} :
                  \A typo \in Typos(nip) : ~validateNIP(typo)

(* What "the received invoice contains logical errors" (routes.go) and     *)
(* "net amount for tax rate %s does not match its tax breakdown"           *)
(* (invoice_mapping.go) say: an invoice that is refused although all its   *)
(* fields are right has amounts that do not add up.                        *)
Balances(i) ==
    /\ Rates(i.items) = Rates(i.taxBreakdowns)
    /\ \A r \in Rates(i.items) :
         ExactSum(NetsOf(i.items, r)) = ExactSum(NetsOf(i.taxBreakdowns, r))
    /\ ExactSum(Nets(i.items)) + ExactSum(Taxes(i.taxBreakdowns)) = i.total

BalancedIsAccepted == stage = "refused" => ~(FieldsOK(inv) /\ Balances(inv))

=============================================================================
