----------------------------- MODULE MCInvoice -----------------------------
(***************************************************************************)
(* InvoiceMapping for TLC.  Received is a union of families, each of which *)
(* varies one part of a correct invoice through all its cases; the parts   *)
(* that the checks relate are varied together.                             *)
(***************************************************************************)
EXTENDS InvoiceMapping

SellerNip == <<1, 1, 4, 1, 4, 1, 4, 1, 4, 1>>      \* of config_correct_example.yaml
BuyerNip == <<5, 2, 6, 0, 2, 5, 0, 9, 9, 5>>

FullParty(nip) ==
    [nip |-> nip, name |-> TRUE, address1 |-> TRUE, address2 |-> FALSE, country |-> Nil,
     email |-> FALSE, phone |-> FALSE]

AnyParty(nip) ==
    [nip : {nip}, name : BOOLEAN, address1 : BOOLEAN, address2 : BOOLEAN,
     country : {Nil, "PL", "DE"}, email : {TRUE}, phone : {TRUE}]

Item(line, rate, net) ==
    [line |-> line, rate |-> rate, net |-> net, unit |-> FALSE, quantity |-> FALSE,
     price |-> FALSE]

Breakdown(rate, net, currency) ==
    LET taxable == rate \in Taxable
    IN  [rate |-> rate, net |-> net, tax |-> IF taxable THEN 70 ELSE Nil,
         taxPln |-> IF taxable /\ currency # "PLN" THEN 300 ELSE Nil]

(* A correct invoice over the given items: one breakdown per rate.         *)
InvoiceOver(type, currency, items) ==
    LET rates == SetToSeq({items[k].rate : k \in DOMAIN items})
        breakdowns == [k \in DOMAIN rates |->
                         Breakdown(rates[k], ExactSum(NetsOf(items, rates[k])), currency)]
        corrective == type \in CorrectiveType
    IN  [type |-> type, issueDate |-> "date",
         originalNumber |-> corrective, correctionReason |-> corrective,
         originalKsefId |-> corrective,
         originalIssueDate |-> IF corrective THEN "date" ELSE Nil,
         correctedBuyer |-> Nil,
         currency |-> currency, exchangeRate |-> IF currency = "PLN" THEN Nil ELSE 4,
         total |-> ExactSum(Nets(items)) + ExactSum(Taxes(breakdowns)),
         seller |-> FullParty(SellerNip), buyer |-> FullParty(BuyerNip),
         items |-> items, taxBreakdowns |-> breakdowns,
         payment |-> Nil, flags |-> {}]

Plain(type, currency) == InvoiceOver(type, currency, <<Item(1, "23", 100000)>>)

Types == InvoiceType \cup {"FV"}

-----------------------------------------------------------------------------

Parties ==
    UNION {{[Plain(t, "PLN") EXCEPT !.buyer = b, !.correctedBuyer = cb, !.seller.name = n] :
              b \in AnyParty(BuyerNip), n \in BOOLEAN,
              cb \in {Nil, FullParty(SellerNip)}
                     \cup {p \in AnyParty(SellerNip) : p.name /\ p.country # "PL"}} :
           t \in {"VAT", "UPR", "KOR"}}

Corrections ==
    UNION {{[Plain(t, "PLN") EXCEPT !.originalNumber = n, !.correctionReason = r,
                                    !.originalKsefId = k, !.originalIssueDate = d,
                                    !.correctedBuyer = cb, !.issueDate = own] :
              n \in BOOLEAN, r \in BOOLEAN, k \in BOOLEAN, d \in {Nil, "date", "bad"},
              cb \in {Nil, FullParty(SellerNip)}, own \in {"date", "bad"}} :
           t \in Types}

Payments ==
    {[Plain("VAT", "PLN") EXCEPT !.payment = p, !.flags = f] :
        p \in [dueDate : {Nil, "date", "bad"}, method : {Nil, 0, 1, 7, 8},
               account : {Nil, 9, 10, 34, 35}, bank : BOOLEAN],
        f \in {{}, {"cash"}, {"split", "reverse"}}}

Currencies ==
    {[Plain(t, c) EXCEPT !.exchangeRate = r, !.taxBreakdowns[1].taxPln = p] :
        t \in Types, c \in Currency \cup {Nil, "EU"}, r \in {Nil, -1, 0, 4}, p \in {Nil, 300}}

(* Around the limits of a simplified invoice, and below zero.              *)
Receipts ==
    {InvoiceOver("UPR", c, <<Item(1, "23", total - 70)>>) :
        c \in Currency,
        total \in {69, 70, 80, 99990, 100000, 100001, 449990, 450000, 450001}}

(* Two rates in one field; sums that floating point gets right and wrong;  *)
(* a breakdown split in two, dropped or changed; a wrong total.            *)
ItemLists ==
    LET items == [line : {1}, rate : {"23", "22", "5", "3", "4", "zw"},
                  net : {100, 200, -100}, unit : {FALSE}, quantity : {FALSE}, price : {FALSE}]
    IN  {<<i>> : i \in items}
        \cup {<<i, [j EXCEPT !.line = 2]>> : i \in items, j \in items}

Perturbed(i) ==
    {i, [i EXCEPT !.total = @ + 10],
        [i EXCEPT !.taxBreakdowns[1].net = @ + 100, !.total = @ + 100],
        [i EXCEPT !.taxBreakdowns[1].tax = IF @ = Nil THEN 0 ELSE Nil],
        [i EXCEPT !.taxBreakdowns[1].taxPln = IF @ = Nil THEN 300 ELSE Nil],
        [i EXCEPT !.taxBreakdowns = Tail(@)],
        [i EXCEPT !.taxBreakdowns = @ \o <<Breakdown("8", 0, i.currency)>>, !.total = @ + 70],
        [i EXCEPT !.taxBreakdowns =
            <<[Head(@) EXCEPT !.net = 100]>>
            \o <<[Head(@) EXCEPT !.net = @ - 100, !.tax = IF @ = Nil THEN Nil ELSE 0]>>
            \o Tail(@)]}

Sums ==
    UNION {UNION {Perturbed(InvoiceOver(t, c, items)) : items \in ItemLists} :
             t \in {"VAT", "KOR_ROZ"}, c \in {"PLN", "EUR"}}
    \cup {InvoiceOver("VAT", c, <<Item(1, r, 3000), Item(2, q, 4500)>>) :
             c \in {"PLN", "EUR"}, r \in TaxRate, q \in TaxRate}

(* Fractions of a cent that "%.2f" rounds up, down and to even, in one     *)
(* field and in two; then the tax has one, too.                            *)
Fractions ==
    LET invoices == {InvoiceOver("VAT", "PLN", <<Item(1, r, m), Item(2, q, n)>>) :
                        r \in {"zw", "oo", "23", "22"}, q \in {"zw", "oo", "23", "22"},
                        m \in {4, 5, 15, 125, 1005}, n \in {4, 5, 15, 125}}
    IN  invoices
        \cup {[i EXCEPT !.taxBreakdowns[1].tax = @ + 5, !.total = @ + 5] :
                 i \in {j \in invoices : j.taxBreakdowns[1].tax # Nil}}

Lines ==
    {InvoiceOver(t, "EUR", <<[Item(k, "8", 3000) EXCEPT !.quantity = q, !.price = p, !.unit = u],
                             Item(l, r, 1000)>>) :
        t \in {"ZAL", "UPR", "KOR_ZAL"}, k \in {0, 1}, l \in {1, 2}, r \in {"oo", "99"},
        q \in BOOLEAN, p \in BOOLEAN, u \in BOOLEAN}
    \cup {[Plain("VAT", "PLN") EXCEPT !.items = <<>>]}

Nips ==
    {[Plain("VAT", "PLN") EXCEPT !.seller.nip = n] : n \in {SellerNip} \cup Typos(SellerNip)}
    \cup {[Plain("VAT", "PLN") EXCEPT !.buyer.nip = n] : n \in {BuyerNip} \cup Typos(BuyerNip)}
    \cup {[Plain("KOR", "PLN") EXCEPT !.correctedBuyer = FullParty(n)] :
             n \in {BuyerNip} \cup Typos(BuyerNip)}

AllFamilies ==
    Parties \cup Corrections \cup Payments \cup Currencies \cup Receipts \cup Sums
    \cup Fractions \cup Lines \cup Nips

(* Ordinary invoices of one or two lines at one rate without tax, in whole *)
(* cents: the only sum in them is that of the two lines.                   *)
OneRate ==
    {InvoiceOver("VAT", "PLN", <<Item(1, "zw", m), Item(2, "zw", n)>>) :
        m \in {100 * k : k \in 1 .. 12}, n \in {100 * k : k \in 1 .. 12}}
    \cup {Plain("VAT", "PLN")}

=============================================================================
