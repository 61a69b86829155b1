----------------------------- MODULE Dashboard -----------------------------
(***************************************************************************)
(* The pages of the dashboard: dashboardHelper and GetAllInvoices, over    *)
(* the table of WebhookQueue.                                              *)
(*                                                                         *)
(* Rows with equal created_at come in the order of their ids: SQLite reads *)
(* the table by id and its sorter keeps that order.                        *)
(***************************************************************************)
EXTENDS WebhookQueue, Sequences

CONSTANTS
    PageSize,     \* config.DashPageSize
    MaxInt        \* 2^63 in the program: an int is in -MaxInt .. MaxInt - 1

ASSUME PageAssumption == PageSize \in Nat \ {0} /\ MaxInt \in Nat \ {0}

Wrapped(n) == ((n + MaxInt) % (2 * MaxInt)) - MaxInt

Filter == {"all", "PENDING", "SENT", "FAILED"}     \* bound: of the statuses that occur

(* The ids the WHERE clause selects; query is the external ids that are    *)
(* LIKE what was typed.                                                    *)
Matching(filter, query) ==
    {i \in Id : /\ Live(i)
                /\ filter # "all" => invoices[i].status = filter
                /\ invoices[i].ext \in query}

(* MUTANT of Before: by updated_at.                                        *)
UpdatedBefore(i, j) == j \in older[i]

(* ORDER BY created_at DESC                                                *)
Before(i, j) == created[i] > created[j] \/ (created[i] = created[j] /\ i < j)

Rank(i, S) == Cardinality({j \in S : Before(j, i)})

Listed(filter, query) ==
    LET S == Matching(filter, query)
    IN  [k \in 1 .. Cardinality(S) |-> CHOOSE i \in S : Rank(i, S) = k - 1]

(* A page that is no number, or below 1, is the first one.                 *)
PageOf(page) == IF page < 1 THEN 1 ELSE page

(* MUTANT of GetAllInvoices: pages are counted from 0.                     *)
GetAllInvoicesFromZero(filter, query, page, limit) ==
    LET rows   == Listed(filter, query)
        offset == Wrapped(page * limit)
        start  == IF offset < 0 THEN 0 ELSE offset
        end    == start + limit + 1
    IN  SubSeq(rows, start + 1, IF end < Len(rows) THEN end ELSE Len(rows))

(* LIMIT limit + 1 OFFSET (page - 1) * limit; SQLite takes a negative      *)
(* OFFSET for 0.                                                           *)
GetAllInvoices(filter, query, page, limit) ==
    LET rows   == Listed(filter, query)
        offset == Wrapped((page - 1) * limit)
        start  == IF offset < 0 THEN 0 ELSE offset
        end    == start + limit + 1
    IN  SubSeq(rows, start + 1, IF end < Len(rows) THEN end ELSE Len(rows))

dashboardHelper(filter, query, pageRaw) ==
    LET page == PageOf(pageRaw)
        rows == GetAllInvoices(filter, query, page, PageSize)
        more == Len(rows) > PageSize
    IN  [Invoices |-> IF more THEN SubSeq(rows, 1, PageSize) ELSE rows,
         Page |-> page, PrevPage |-> PageOf(page - 1), NextPage |-> page + 1, More |-> more]

-----------------------------------------------------------------------------
(* Properties.                                                             *)

RowsOn(filter, query, page) ==
    LET shown == dashboardHelper(filter, query, page).Invoices
    IN  {shown[k] : k \in DOMAIN shown}

LastPage(filter, query) ==
    LET n == Cardinality(Matching(filter, query)) IN IF n = 0 THEN 1 ELSE (n - 1) \div PageSize + 1

(* Following NextPage from the first page as long as there is More shows   *)
(* every row of the filter, and none twice, if the table stands still; the *)
(* row that is read beyond the page is not shown on it.                    *)
PagesPartition ==
    \A filter \in Filter, query \in SUBSET Ext :
        LET last == LastPage(filter, query) IN
        /\ UNION {RowsOn(filter, query, p) : p \in 1 .. last} = Matching(filter, query)
        /\ \A p \in 1 .. last :
             /\ dashboardHelper(filter, query, p).More <=> p < last
             /\ \A q \in 1 .. last :
                  RowsOn(filter, query, p) \cap RowsOn(filter, query, q) # {} => p = q

(* Who follows NextPage while invoices come in and change misses none: a   *)
(* row never moves to an earlier page unless a row left the list before    *)
(* it.  (New rows push others to later pages, where they are seen again.)  *)
RowsNeverHidden ==
    [][\A filter \in Filter : \A i \in Matching(filter, Ext) \cap Matching(filter, Ext)' :
          Matching(filter, Ext) \subseteq Matching(filter, Ext)' =>
              Rank(i, Matching(filter, Ext))' >= Rank(i, Matching(filter, Ext))]_vars

=============================================================================
