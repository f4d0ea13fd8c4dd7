------------------------------- MODULE Checkout -------------------------------
(*********************************************************************************)
(* Orders and their payment.  POST /orders writes an order in four statements of *)
(* its own; POST /checkout/:method runs the same statements in one database      *)
(* transaction, records the payment's row, and pays from the wallet in the same  *)
(* transaction or opens a charge at Paystack after it.  Requests interleave at   *)
(* every statement; authors change prices meanwhile.                             *)
(*                                                                               *)
(* The buyer is one user: an order of another user is refused before anything is *)
(* written.  A transaction's writes are kept in the request's draft, which nobody *)
(* else sees, until it commits.                                                  *)
(*********************************************************************************)
EXTENDS Naturals, Functions

CONSTANTS
  Books, Bogus,      \* books, and an id of none of them
  Carts,             \* what a request may ask for: sets of ids
  Prices,            \* what a book may cost
  Orders, Rows, Requests,
  None,              \* no order, row or draft
  Funds,             \* the balance of the buyer's wallet
  MaxFaults          \* bound: crashes and failed calls

ASSUME NamesAssumption == Bogus \notin Books /\ None \notin Orders \cup Rows
ASSUME CartsAssumption == Carts \subseteq (SUBSET (Books \cup {Bogus})) \ {{}}
ASSUME NumbersAssumption == Prices \subseteq Nat /\ Funds \in Nat /\ MaxFaults \in Nat

VARIABLES
  price,    \* the price of each book
  orders,   \* orders as committed: items with their prices, total, status, and who wrote them
  rows,     \* payment rows: order, amount, status
  charge,   \* each row's charge at Paystack: "none", "open" or "paid"
  refused,  \* rows with an attempt to pay that Paystack refused and reported
  pc, work, \* each request's control point and what it has in hand
  faults

vars == <<price, orders, rows, charge, refused, pc, work, faults>>

\* What a request is: POST /orders, or a checkout by one of the payment methods.
Methods == {"WALLET", "PAYSTACK", "CRYPTO"}
Kinds == {"ORDER"} \cup Methods
Authors == {"createOrder", "checkout"}
Author(kind) == IF kind = "ORDER" THEN "createOrder" ELSE "checkout"
Points == {"idle", "create", "quote", "items", "total", "record", "debit", "commit",
           "initiate", "fail"}

\* The prices of some books, at one moment; what they cost together.
Quotes == UNION {[S -> Prices] : S \in SUBSET Books}
Cost(quote) == SumFunction(quote)
Totals == {Cost(q) : q \in Quotes} \cup {0}

Order == [items : Quotes, total : Totals, status : {"PENDING", "PAID"}, by : Authors]
Row == [order : Orders, amount : Totals, status : {"PENDING", "FAILED"}]
Work == [kind : Kinds, ids : Carts \cup {{}}, fresh : BOOLEAN,
         order : Orders \cup {None}, draft : Order, quote : Quotes, row : Rows \cup {None}]

\* Nothing is mistaken for no order, row or work.
ASSUME NoneAssumption == None \notin Order /\ None \notin Row /\ None \notin Work

NoItems == [b \in {} |-> 0]
Blank(kind) == [items |-> NoItems, total |-> 0, status |-> "PENDING", by |-> Author(kind)]

Init ==
  /\ price \in [Books -> Prices]
  /\ orders = [o \in Orders |-> None]
  /\ rows = [p \in Rows |-> None]
  /\ charge = [p \in Rows |-> "none"] /\ refused = {}
  /\ pc = [r \in Requests |-> "idle"]
  /\ work = [r \in Requests |-> None]
  /\ faults = 0

Goto(r, next) == pc' = [pc EXCEPT ![r] = next]

\* A request returns or throws; an open transaction is rolled back, its draft dropped.
End(r) == Goto(r, "idle") /\ work' = [work EXCEPT ![r] = None]

\* Variant: the statements of createOrder are never given the transaction.
WriteOutside(r, o, order) ==
  /\ work' = [work EXCEPT ![r].order = o, ![r].draft = order]
  /\ orders' = [orders EXCEPT ![o] = order]
\* A write of the order: seen by everybody, or only in the transaction.
Write(r, o, order) ==
  /\ work' = [work EXCEPT ![r].order = o, ![r].draft = order]
  /\ orders' = IF work[r].kind = "ORDER" THEN [orders EXCEPT ![o] = order] ELSE orders

(********************************** createOrder **********************************)

\* POST /orders, or a checkout of books.
Start(r, kind, ids) ==
  /\ pc[r] = "idle"
  /\ work' = [work EXCEPT ![r] =
       [kind |-> kind, ids |-> ids, fresh |-> TRUE, order |-> None,
        draft |-> Blank(kind), quote |-> NoItems, row |-> None]]
  /\ Goto(r, "create")
  /\ UNCHANGED <<price, orders, rows, charge, refused, faults>>

Unused(o) == orders[o] = None /\ \A r \in Requests : work[r] # None => work[r].order # o

Create(r, o) ==
  /\ pc[r] = "create" /\ Unused(o)
  /\ Write(r, o, Blank(work[r].kind))
  /\ Goto(r, "quote")
  /\ UNCHANGED <<price, rows, charge, refused, faults>>

\* The books are read at once; an id of no book, or one given twice, is an error, which
\* leaves what is committed.
Quote(r) ==
  /\ pc[r] = "quote"
  /\ \/ /\ work[r].ids \subseteq Books
        /\ work' = [work EXCEPT ![r].quote = [b \in work[r].ids |-> price[b]]]
        /\ Goto(r, "items")
     \/ /\ ~ (work[r].ids \subseteq Books)
        /\ End(r)
  /\ UNCHANGED <<price, orders, rows, charge, refused, faults>>

Items(r) ==
  /\ pc[r] = "items"
  /\ Write(r, work[r].order, [work[r].draft EXCEPT !.items = work[r].quote])
  /\ Goto(r, "total")
  /\ UNCHANGED <<price, rows, charge, refused, faults>>

\* Variant: the total is made of the prices of now.
CurrentPrices(r) == [b \in work[r].ids |-> price[b]]
QuotedPrices(r) == work[r].quote

\* POST /orders is done, a checkout goes on.
Total(r) ==
  /\ pc[r] = "total"
  /\ LET order == [work[r].draft EXCEPT !.total = Cost(QuotedPrices(r))]
     IN  IF work[r].kind = "ORDER"
         THEN orders' = [orders EXCEPT ![work[r].order] = order] /\ End(r)
         ELSE Write(r, work[r].order, order) /\ Goto(r, "record")
  /\ UNCHANGED <<price, rows, charge, refused, faults>>

(****************************** createOrderCheckout ******************************)

\* A checkout of an order that exists, as it is at this moment.  The guard compares with
\* a status that only rows have, so it refuses no order.
StartExisting(r, method, o) ==
  /\ pc[r] = "idle" /\ orders[o] # None /\ orders[o].status # "SUCCESS"
  /\ work' = [work EXCEPT ![r] =
       [kind |-> method, ids |-> {}, fresh |-> FALSE, order |-> o,
        draft |-> orders[o], quote |-> NoItems, row |-> None]]
  /\ Goto(r, "record")
  /\ UNCHANGED <<price, orders, rows, charge, refused, faults>>

\* The row goes into the transaction, with the total of the order in hand.
Record(r, p) ==
  /\ pc[r] = "record" /\ rows[p] = None
  /\ \A q \in Requests : work[q] # None => work[q].row # p
  /\ work' = [work EXCEPT ![r].row = p]
  /\ Goto(r, IF work[r].kind = "WALLET" THEN "debit" ELSE "commit")
  /\ UNCHANGED <<price, orders, rows, charge, refused, faults>>

\* The wallet is looked up by the user's id, which is the id of no wallet: debit throws,
\* and the transaction is rolled back before the authors are credited.
Debit(r) ==
  /\ pc[r] = "debit"
  /\ End(r)
  /\ UNCHANGED <<price, orders, rows, charge, refused, faults>>

CommittedOrder(r) == IF work[r].fresh
                     THEN [orders EXCEPT ![work[r].order] = work[r].draft] ELSE orders

\* The transaction commits; a crypto checkout ends with the address to pay to.
Commit(r) ==
  /\ pc[r] = "commit"
  /\ orders' = CommittedOrder(r)
  /\ rows' = [rows EXCEPT ![work[r].row] =
       [order |-> work[r].order, amount |-> work[r].draft.total, status |-> "PENDING"]]
  /\ IF work[r].kind = "PAYSTACK"
     THEN Goto(r, "initiate") /\ UNCHANGED work ELSE End(r)
  /\ UNCHANGED <<price, charge, refused, faults>>

\* Paystack opens the charge and the buyer is sent to it.
Initiate(r) ==
  /\ pc[r] = "initiate"
  /\ charge' = [charge EXCEPT ![work[r].row] = "open"]
  /\ End(r)
  /\ UNCHANGED <<price, orders, rows, refused, faults>>

\* The call fails, or its answer is lost: without the address nobody can pay the charge.
InitiateFails(r) ==
  /\ pc[r] = "initiate" /\ faults < MaxFaults
  /\ faults' = faults + 1
  /\ Goto(r, "fail")
  /\ UNCHANGED <<price, orders, rows, charge, refused, work>>

Fail(r) ==
  /\ pc[r] = "fail"
  /\ rows' = [rows EXCEPT ![work[r].row].status = "FAILED"]
  /\ End(r)
  /\ UNCHANGED <<price, orders, charge, refused, faults>>

(******************************* The outside world *******************************)

\* The buyer pays; the event changes nothing here (FiatDeposit).
Pay(p) ==
  /\ charge[p] = "open"
  /\ charge' = [charge EXCEPT ![p] = "paid"]
  /\ UNCHANGED <<price, orders, rows, refused, pc, work, faults>>

\* An attempt is refused, and may be followed by another.
Refuse(p) ==
  /\ charge[p] = "open" /\ p \notin refused
  /\ refused' = refused \cup {p}
  /\ UNCHANGED <<price, orders, rows, charge, pc, work, faults>>

\* Variant: the case of a paid charge falls through to that of a refused one.
HandleFailedToo(p) ==
  /\ charge[p] = "paid" \/ p \in refused
  /\ rows[p] # None /\ rows[p].status = "PENDING"
  /\ rows' = [rows EXCEPT ![p].status = "FAILED"]
  /\ UNCHANGED <<price, orders, charge, refused, pc, work, faults>>
\* The event of a refused attempt reaches handleFailedPaystackDeposit.
HandleFailed(p) ==
  /\ p \in refused /\ rows[p] # None /\ rows[p].status = "PENDING"
  /\ rows' = [rows EXCEPT ![p].status = "FAILED"]
  /\ UNCHANGED <<price, orders, charge, refused, pc, work, faults>>

\* An author or an admin edits a book.
UpdateBook(b, n) ==
  /\ price[b] # n
  /\ price' = [price EXCEPT ![b] = n]
  /\ UNCHANGED <<orders, rows, charge, refused, pc, work, faults>>

\* A statement fails, and the request with it.
RequestFails(r) ==
  /\ pc[r] # "idle" /\ faults < MaxFaults
  /\ faults' = faults + 1
  /\ End(r)
  /\ UNCHANGED <<price, orders, rows, charge, refused>>

Crash ==
  /\ faults < MaxFaults
  /\ faults' = faults + 1
  /\ pc' = [r \in Requests |-> "idle"]
  /\ work' = [r \in Requests |-> None]
  /\ UNCHANGED <<price, orders, rows, charge, refused>>

RequestStep(r) ==
  \/ \E o \in Orders : Create(r, o)
  \/ Quote(r) \/ Items(r) \/ Total(r)
  \/ \E p \in Rows : Record(r, p)
  \/ Debit(r) \/ Commit(r) \/ Initiate(r) \/ Fail(r)

Next ==
  \/ \E r \in Requests :
       \/ \E kind \in Kinds, ids \in Carts : Start(r, kind, ids)
       \/ \E method \in Methods, o \in Orders : StartExisting(r, method, o)
       \/ RequestStep(r)
       \/ InitiateFails(r) \/ RequestFails(r)
  \/ \E p \in Rows : Pay(p) \/ Refuse(p) \/ HandleFailed(p)
  \/ \E b \in Books, n \in Prices : UpdateBook(b, n)
  \/ Crash

Safety == Init /\ [][Next]_vars

\* The server goes on with a request it has taken up.
Spec == Safety /\ \A r \in Requests : WF_vars(RequestStep(r))

(*********************************** Properties ***********************************)

TypeOK ==
  /\ price \in [Books -> Prices]
  /\ orders \in [Orders -> Order \cup {None}]
  /\ rows \in [Rows -> Row \cup {None}]
  /\ charge \in [Rows -> {"none", "open", "paid"}] /\ refused \subseteq Rows
  /\ pc \in [Requests -> Points]
  /\ work \in [Requests -> Work \cup {None}]
  /\ faults \in 0..MaxFaults

Complete(order) == order.total = Cost(order.items) /\ order.items # NoItems

\* A checkout leaves all or nothing: an order that a checkout wrote is complete and has
\* a row for its full amount, wherever the checkout failed or the process died.
CheckoutIsWhole ==
  \A o \in Orders : orders[o] # None /\ orders[o].by = "checkout" =>
    /\ Complete(orders[o])
    /\ \E p \in Rows : rows[p] # None /\ rows[p].order = o /\ rows[p].amount = orders[o].total

\* What is charged for an order is what its books cost when they were read, whoever edits
\* the books meanwhile; or nothing, when POST /orders had not got to the total.
ChargedInFull ==
  \A p \in Rows : rows[p] # None =>
    LET order == orders[rows[p].order]
    IN  /\ order # None
        /\ \/ rows[p].amount = Cost(order.items)
           \/ rows[p].amount = 0 /\ order.by = "createOrder"

\* A complete order is never written again, also by a checkout that read it before it was
\* complete.
CompleteForGood ==
  [][\A o \in Orders : orders[o] # None /\ Complete(orders[o]) => orders'[o] = orders[o]]_vars

\* A row is FAILED only if its charge was not opened or an attempt to pay it was refused,
\* whichever of the two writers of FAILED comes when.
FailedWithReason ==
  \A p \in Rows : rows[p] # None /\ rows[p].status = "FAILED" => charge[p] = "none" \/ p \in refused

\* A checkout from a wallet with enough money pays the order ("Handle WALLET payment
\* within the transaction", order-payment.service.ts).
WalletPays ==
  \A o \in Orders :
    (\E r \in Requests : /\ pc[r] = "debit" /\ work[r].order = o
                          /\ work[r].draft.total \in 1..Funds)
      ~> (orders[o] # None /\ orders[o].status = "PAID")
===============================================================================
