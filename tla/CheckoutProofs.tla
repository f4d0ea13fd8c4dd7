------------------------------ MODULE CheckoutProofs ------------------------------
(*********************************************************************************)
(* What a checkout commits and charges, for any number of books, orders, rows,    *)
(* requests, prices and faults.  Nothing depends on how a cost is computed.       *)
(*********************************************************************************)
EXTENDS Checkout, TLAPS

(********************************* The invariant *********************************)

\* An order that can be charged n for: complete, or one POST /orders is not done with.
Backed(o, n) ==
  /\ orders[o] # None
  /\ \/ Complete(orders[o]) /\ n = orders[o].total
     \/ orders[o].by = "createOrder" /\ n = 0

OrdersBacked == \A o \in Orders : orders[o] # None => Backed(o, orders[o].total)
RowsBacked == \A p \in Rows : rows[p] # None => Backed(rows[p].order, rows[p].amount)

\* A request making an order has it to itself: in the database when no transaction is
\* open, nowhere else when there is one.
Making(r) == pc[r] \in {"quote", "items", "total"}
Charging(r) == pc[r] \in {"record", "debit", "commit"}
Charged(r) == pc[r] \in {"initiate", "fail"}

MakerSound(r) ==
  LET w == work[r]
  IN  Making(r) =>
        /\ w.fresh /\ w.order \in Orders /\ w.row = None
        /\ w.draft.total = 0 /\ w.draft.by = Author(w.kind)
        /\ orders[w.order] = IF w.kind = "ORDER" THEN w.draft ELSE None
        /\ pc[r] \in {"quote", "items"} => w.draft.items = NoItems
        /\ pc[r] = "quote" => w.ids # {}
        /\ pc[r] = "items" => w.quote # NoItems
        /\ pc[r] = "total" => w.draft.items = w.quote /\ w.quote # NoItems

\* A checkout charges for its own complete order, or for one in the database.
ChargerSound(r) ==
  LET w == work[r]
  IN  Charging(r) =>
        /\ w.kind \in Methods /\ w.order \in Orders
        /\ w.fresh => orders[w.order] = None /\ Complete(w.draft) /\ w.draft.by = "checkout"
        /\ ~ w.fresh => Backed(w.order, w.draft.total)
        /\ pc[r] = "record" => w.row = None
        /\ pc[r] \in {"debit", "commit"} => w.row \in Rows /\ rows[w.row] = None

\* After the commit the charge is not open yet.
ChargedSound(r) ==
  Charged(r) => LET p == work[r].row
                IN  /\ p \in Rows /\ charge[p] = "none" /\ p \notin refused
                    /\ rows[p] # None /\ rows[p].status = "PENDING"

Waiting(r) ==
  pc[r] = "create" => work[r].fresh /\ work[r].order = None /\ work[r].row = None
                      /\ work[r].ids # {} /\ work[r].draft = Blank(work[r].kind)

RequestSound(r) ==
  /\ pc[r] = "idle" => work[r] = None
  /\ pc[r] # "idle" => work[r] \in Work
  /\ Waiting(r) /\ MakerSound(r) /\ ChargerSound(r) /\ ChargedSound(r)

RequestsSound == \A r \in Requests : RequestSound(r)

\* No two requests make the same order or have the same row.
Apart ==
  \A r, q \in Requests : r # q /\ pc[r] # "idle" /\ pc[q] # "idle" =>
    /\ work[r].fresh /\ work[q].fresh /\ work[r].order # None => work[q].order # work[r].order
    /\ work[r].row # None => work[q].row # work[r].row

\* There is no charge without a row, and none is refused before it is opened.
ChargesSound == \A p \in Rows :
  /\ rows[p] = None => charge[p] = "none"
  /\ charge[p] = "none" => p \notin refused

Committed == OrdersBacked /\ RowsBacked /\ ChargesSound /\ FailedWithReason /\ CheckoutIsWhole

Inv == TypeOK /\ RequestsSound /\ Apart /\ Committed

LEMMA Shapes ==
  /\ NoItems \in Quotes /\ DOMAIN NoItems = {}
  /\ \A q \in Quotes : Cost(q) \in Totals
  /\ 0 \in Totals
  /\ \A k \in Kinds : Blank(k) \in Order /\ Author(k) \in Authors
<1>1. NoItems \in [{} -> Prices] BY DEF NoItems
<1>2. {} \in SUBSET Books OBVIOUS
<1>3. NoItems \in Quotes BY <1>1, <1>2 DEF Quotes
<1>4. \A k \in Kinds : Author(k) \in Authors BY DEF Author, Authors
<1> QED BY <1>3, <1>4 DEF NoItems, Totals, Blank, Order

LEMMA InvInit == Init => Inv
BY NamesAssumption, NumbersAssumption
   DEF Init, Inv, Committed, TypeOK, OrdersBacked, RowsBacked, RequestsSound, RequestSound,
       Waiting, MakerSound, ChargerSound, ChargedSound, Making, Charging, Charged, Apart,
       ChargesSound, FailedWithReason, CheckoutIsWhole, Points

(************************** What is committed stays backed **************************)

\* Nobody takes an order back, and a complete one is not written again.
Kept == \A o \in Orders : orders[o] # None =>
          /\ orders'[o] # None /\ orders'[o].by = orders[o].by
          /\ Complete(orders[o]) => orders'[o] = orders[o]

\* What POST /orders writes is what it has in hand.
LEMMA Written ==
  ASSUME Inv, NEW r \in Requests, pc[r] \in {"items", "total"}, work[r].kind = "ORDER"
  PROVE  /\ work[r].order \in Orders /\ orders[work[r].order] = work[r].draft
         /\ work[r].draft \in Order /\ work[r].draft.total = 0
         /\ work[r].draft.by = "createOrder"
         /\ work[r].quote \in Quotes
         /\ pc[r] = "items" => work[r].draft.items = NoItems
         /\ pc[r] = "total" => work[r].draft.items = work[r].quote
BY DEF Inv, RequestsSound, RequestSound, MakerSound, Making, Work, Author

LEMMA OrderUpdates ==
  ASSUME NEW d \in Order, NEW q \in Quotes, NEW n \in Totals
  PROVE  /\ [d EXCEPT !.items = q] \in Order /\ [d EXCEPT !.total = n] \in Order
         /\ [d EXCEPT !.items = q].items = q /\ [d EXCEPT !.items = q].total = d.total
         /\ [d EXCEPT !.items = q].by = d.by
         /\ [d EXCEPT !.total = n].total = n /\ [d EXCEPT !.total = n].items = d.items
         /\ [d EXCEPT !.total = n].by = d.by
BY DEF Order

LEMMA KeptStep == Inv /\ [Next]_vars => Kept
<1> SUFFICES ASSUME Inv, [Next]_vars PROVE Kept
  OBVIOUS
<1>1. CASE orders' = orders BY <1>1 DEF Kept
<1>2. ASSUME NEW r \in Requests, NEW o \in Orders, Create(r, o) PROVE Kept
  BY <1>2 DEF Create, Unused, Write, Kept, Inv, TypeOK
<1>3. ASSUME NEW r \in Requests, Items(r), work[r].kind = "ORDER" PROVE Kept
  <2>1. PICK d \in Order : d = work[r].draft BY <1>3, Written DEF Items
  <2>2. PICK q \in Quotes : q = work[r].quote BY <1>3, Written DEF Items
  <2>3. orders' = [orders EXCEPT ![work[r].order] = [d EXCEPT !.items = q]]
    BY <1>3, <2>1, <2>2 DEF Items, Write
  <2>4. orders[work[r].order] = d /\ d.items = NoItems
    BY <1>3, <2>1, Written DEF Items
  <2>5. ~ Complete(d) BY <2>4 DEF Complete
  <2>6. [d EXCEPT !.items = q] \in Order /\ [d EXCEPT !.items = q].by = d.by BY OrderUpdates, Shapes
  <2> QED BY <2>3, <2>4, <2>5, <2>6, NoneAssumption DEF Kept, Inv, TypeOK
<1>4. ASSUME NEW r \in Requests, Total(r), work[r].kind = "ORDER" PROVE Kept
  <2>1. PICK d \in Order : d = work[r].draft BY <1>4, Written DEF Total
  <2>2. PICK q \in Quotes : q = work[r].quote BY <1>4, Written DEF Total
  <2>3. orders' = [orders EXCEPT ![work[r].order] = [d EXCEPT !.total = Cost(q)]]
    BY <1>4, <2>1, <2>2 DEF Total, QuotedPrices
  <2>4. orders[work[r].order] = d /\ d.items = q BY <1>4, <2>1, <2>2, Written DEF Total
  <2>5. Cost(q) \in Totals BY Shapes
  <2>6. [d EXCEPT !.total = Cost(q)] \in Order /\ [d EXCEPT !.total = Cost(q)].by = d.by
    BY <2>5, OrderUpdates
  <2>7. Complete(d) => [d EXCEPT !.total = Cost(q)] = d BY <2>4 DEF Complete, Order
  <2> QED BY <2>3, <2>4, <2>6, <2>7, NoneAssumption DEF Kept, Inv, TypeOK
<1>5. ASSUME NEW r \in Requests, Commit(r), work[r].fresh PROVE Kept
  <2>1. work[r].order \in Orders /\ orders[work[r].order] = None
    BY <1>5 DEF Commit, Inv, RequestsSound, RequestSound, ChargerSound, Charging
  <2>2. orders' = [orders EXCEPT ![work[r].order] = work[r].draft]
    BY <1>5 DEF Commit, CommittedOrder
  <2> QED BY <2>1, <2>2 DEF Kept, Inv, TypeOK
<1>6. \A r \in Requests : Items(r) /\ work[r].kind # "ORDER" => orders' = orders
  BY DEF Items, Write
<1>7. \A r \in Requests : Total(r) /\ work[r].kind # "ORDER" => orders' = orders
  BY DEF Total, Write
<1>8. \A r \in Requests : Commit(r) /\ ~work[r].fresh => orders' = orders
  BY DEF Commit, CommittedOrder
<1>9. ASSUME NEW r \in Requests,
             \/ \E kind \in Kinds, ids \in Carts : Start(r, kind, ids)
             \/ \E method \in Methods, o \in Orders : StartExisting(r, method, o)
             \/ Quote(r) \/ Debit(r) \/ Initiate(r) \/ Fail(r)
             \/ \E p \in Rows : Record(r, p)
             \/ InitiateFails(r) \/ RequestFails(r)
      PROVE  orders' = orders
  BY <1>9 DEF Start, StartExisting, Quote, Debit, Initiate, Fail, Record, InitiateFails,
              RequestFails
<1>10. ASSUME NEW p \in Rows, Pay(p) \/ Refuse(p) \/ HandleFailed(p) PROVE orders' = orders
  BY <1>10 DEF Pay, Refuse, HandleFailed
<1>11. CASE \/ \E b \in Books, n \in Prices : UpdateBook(b, n)
            \/ Crash \/ UNCHANGED vars
  BY <1>1, <1>11 DEF UpdateBook, Crash, vars
<1> QED
  BY <1>1, <1>2, <1>3, <1>4, <1>5, <1>6, <1>7, <1>8, <1>9, <1>10, <1>11 DEF Next, RequestStep

LEMMA StillBacked ==
  ASSUME Kept, NEW o \in Orders, NEW n, Backed(o, n)
  PROVE  Backed(o, n)'
BY DEF Kept, Backed

(***************************** The steps of one request *****************************)

\* Two requests of which one is q, the other has w in hand.
ApartFrom(w, q) ==
  pc[q] # "idle" =>
    /\ w.fresh /\ work[q].fresh /\ w.order # None => work[q].order # w.order
    /\ w.row # None => work[q].row # w.row

\* A step that leaves q where it is, and what q has reserved as it is.
Untouched(q) ==
  /\ pc'[q] = pc[q] /\ work'[q] = work[q]
  /\ Making(q) \/ (Charging(q) /\ work[q].fresh) =>
       orders'[work[q].order] = orders[work[q].order]
  /\ pc[q] \in {"debit", "commit"} => rows'[work[q].row] = rows[work[q].row]
  /\ Charged(q) => /\ rows'[work[q].row] = rows[work[q].row]
                   /\ charge'[work[q].row] = charge[work[q].row]
                   /\ work[q].row \notin refused'

LEMMA UntouchedSound ==
  ASSUME Inv, Kept, NEW q \in Requests, Untouched(q) PROVE RequestSound(q)'
<1>1. RequestSound(q) BY DEF Inv, RequestsSound
<1>2. pc'[q] = pc[q] /\ work'[q] = work[q] BY DEF Untouched
<1>3. ASSUME ~ work[q].fresh, Charging(q) PROVE Backed(work[q].order, work[q].draft.total)'
  <2>1. PICK o \in Orders : o = work[q].order BY <1>1, <1>3 DEF RequestSound, ChargerSound
  <2>2. PICK n : n = work[q].draft.total OBVIOUS
  <2>3. Backed(o, n) BY <1>1, <1>3, <2>1, <2>2 DEF RequestSound, ChargerSound
  <2>4. Backed(o, n)' BY <2>3, StillBacked
  <2> QED BY <1>2, <2>1, <2>2, <2>4 DEF Backed
<1>4. Waiting(q)' BY <1>1, <1>2 DEF RequestSound, Waiting
<1>5. MakerSound(q)' BY <1>1, <1>2 DEF RequestSound, MakerSound, Making, Untouched
<1>6. ChargerSound(q)' BY <1>1, <1>2, <1>3 DEF RequestSound, ChargerSound, Charging, Untouched
<1>7. ChargedSound(q)' BY <1>1, <1>2 DEF RequestSound, ChargedSound, Charged, Untouched
<1> QED BY <1>1, <1>2, <1>4, <1>5, <1>6, <1>7 DEF RequestSound

\* A step of r that respects what the others have reserved.
LEMMA StepOf ==
  ASSUME Inv, Kept, NEW r \in Requests, \A q \in Requests \ {r} : Untouched(q),
         RequestSound(r)',
         pc'[r] # "idle" => \A q \in Requests \ {r} : ApartFrom(work'[r], q)
  PROVE  (RequestsSound /\ Apart)'
<1>1. \A q \in Requests \ {r} : RequestSound(q)' BY UntouchedSound
<1>2. \A q \in Requests \ {r} : pc'[q] = pc[q] /\ work'[q] = work[q] BY DEF Untouched
<1>3. Apart' BY <1>2 DEF Inv, Apart, ApartFrom
<1> QED BY <1>1, <1>3 DEF RequestsSound

\* A step of no request.
LEMMA StepOfNone ==
  ASSUME Inv, Kept, UNCHANGED <<pc, work>>, \A q \in Requests : Untouched(q)
  PROVE  (RequestsSound /\ Apart)'
<1>1. \A q \in Requests : RequestSound(q)' BY UntouchedSound
<1>2. Apart' BY DEF Inv, Apart
<1> QED BY <1>1, <1>2 DEF RequestsSound

\* A step that commits nothing.
LEMMA QuietStep ==
  ASSUME Inv, NEW r \in Requests, UNCHANGED <<price, orders, rows, charge, refused>>,
         faults' \in 0..MaxFaults, NEW next \in Points, NEW w \in Work \cup {None},
         pc' = [pc EXCEPT ![r] = next], work' = [work EXCEPT ![r] = w],
         RequestSound(r)', next # "idle" => \A q \in Requests \ {r} : ApartFrom(w, q)
  PROVE  Inv'
<1>1. TypeOK' BY DEF Inv, TypeOK
<1>2. Kept BY DEF Kept
<1>3. pc'[r] = next /\ work'[r] = w BY DEF Inv, TypeOK
<1>4. \A q \in Requests \ {r} : pc'[q] = pc[q] /\ work'[q] = work[q] BY DEF Inv, TypeOK
<1>5. \A q \in Requests : Charged(q) => work[q].row \notin refused
  BY DEF Inv, RequestsSound, RequestSound, ChargedSound
<1>8. \A q \in Requests \ {r} : Untouched(q) BY <1>4, <1>5 DEF Untouched
<1>6. (RequestsSound /\ Apart)' BY <1>2, <1>3, <1>8, StepOf
<1>7. Committed'
  BY DEF Inv, Committed, OrdersBacked, RowsBacked, Backed, ChargesSound, FailedWithReason,
         CheckoutIsWhole
<1> QED BY <1>1, <1>6, <1>7 DEF Inv

LEMMA StartStep ==
  ASSUME Inv, NEW r \in Requests, NEW kind \in Kinds, NEW ids \in Carts, Start(r, kind, ids)
  PROVE  Inv'
<1> DEFINE w == [kind |-> kind, ids |-> ids, fresh |-> TRUE, order |-> None,
                 draft |-> Blank(kind), quote |-> NoItems, row |-> None]
<1>1. w \in Work BY Shapes DEF Work
<1>2. pc' = [pc EXCEPT ![r] = "create"] /\ work' = [work EXCEPT ![r] = w] BY DEF Start, Goto
<1>3. pc'[r] = "create" /\ work'[r] = w BY <1>2 DEF Inv, TypeOK
<1>4. RequestSound(r)'
  BY <1>1, <1>3, CartsAssumption
     DEF RequestSound, Waiting, MakerSound, ChargerSound, ChargedSound, Making, Charging, Charged
<1>5. \A q \in Requests \ {r} : ApartFrom(w, q) BY DEF ApartFrom
<1>6. "create" \in Points /\ faults' \in 0..MaxFaults BY DEF Points, Start, Inv, TypeOK
<1>7. UNCHANGED <<price, orders, rows, charge, refused>> BY DEF Start
<1> HIDE DEF w
<1> QED BY <1>1, <1>2, <1>4, <1>5, <1>6, <1>7, QuietStep

LEMMA StartExistingStep ==
  ASSUME Inv, NEW r \in Requests, NEW method \in Methods, NEW o \in Orders,
         StartExisting(r, method, o)
  PROVE  Inv'
<1>0. PICK d \in Order : d = orders[o] BY DEF StartExisting, Inv, TypeOK
<1> DEFINE w == [kind |-> method, ids |-> {}, fresh |-> FALSE, order |-> o,
                 draft |-> d, quote |-> NoItems, row |-> None]
<1>1. w \in Work BY Shapes DEF Work, Kinds
<1>2. pc' = [pc EXCEPT ![r] = "record"] /\ work' = [work EXCEPT ![r] = w]
  BY <1>0 DEF StartExisting, Goto
<1>3. pc'[r] = "record" /\ work'[r] = w BY <1>2 DEF Inv, TypeOK
<1>4. Backed(o, d.total) BY <1>0 DEF StartExisting, Inv, Committed, OrdersBacked
<1>5. UNCHANGED <<price, orders, rows, charge, refused>> BY DEF StartExisting
<1>6. Backed(o, d.total)' BY <1>4, <1>5 DEF Backed
<1>7. RequestSound(r)'
  BY <1>1, <1>3, <1>6
     DEF RequestSound, Waiting, MakerSound, ChargerSound, ChargedSound, Making, Charging, Charged
<1>8. \A q \in Requests \ {r} : ApartFrom(w, q) BY DEF ApartFrom
<1>9. "record" \in Points /\ faults' \in 0..MaxFaults BY DEF Points, StartExisting, Inv, TypeOK
<1> HIDE DEF w
<1> QED BY <1>1, <1>2, <1>5, <1>7, <1>8, <1>9, QuietStep

\* A request that ends, having committed nothing in this step.
LEMMA EndStep ==
  ASSUME Inv, NEW r \in Requests, End(r), UNCHANGED <<price, orders, rows, charge, refused>>,
         faults' \in 0..MaxFaults
  PROVE  Inv'
<1>1. pc' = [pc EXCEPT ![r] = "idle"] /\ work' = [work EXCEPT ![r] = None] BY DEF End, Goto
<1>2. pc'[r] = "idle" /\ work'[r] = None BY <1>1 DEF Inv, TypeOK
<1>3. RequestSound(r)'
  BY <1>2 DEF RequestSound, Waiting, MakerSound, ChargerSound, ChargedSound, Making, Charging,
              Charged
<1>4. "idle" \in Points BY DEF Points
<1> QED BY <1>1, <1>3, <1>4, QuietStep

LEMMA QuoteStep == ASSUME Inv, NEW r \in Requests, Quote(r) PROVE Inv'
<1>0. UNCHANGED <<price, orders, rows, charge, refused>> /\ faults' \in 0..MaxFaults
  BY DEF Quote, Inv, TypeOK
<1>1. CASE End(r) BY <1>0, <1>1, EndStep
<1>2. CASE ~ End(r)
  <2> DEFINE quote == [b \in work[r].ids |-> price[b]]
             w == [work[r] EXCEPT !.quote = quote]
  <2>1. work[r].ids \subseteq Books /\ work' = [work EXCEPT ![r].quote = quote]
        /\ pc' = [pc EXCEPT ![r] = "items"] /\ pc[r] = "quote"
    BY <1>2 DEF Quote, Goto
  <2>2. RequestSound(r) /\ work[r] \in Work BY <2>1 DEF Inv, RequestsSound, RequestSound
  <2>3. quote \in [work[r].ids -> Prices] BY <2>1 DEF Inv, TypeOK
  <2>4. quote \in Quotes BY <2>1, <2>3 DEF Quotes
  <2>5. work[r].ids # {} BY <2>1, <2>2 DEF RequestSound, MakerSound, Making
  <2>6. quote # NoItems BY <2>5, Shapes
  <2>7. w \in Work BY <2>2, <2>4 DEF Work
  <2>8. /\ w.fresh = work[r].fresh /\ w.order = work[r].order /\ w.row = work[r].row
        /\ w.draft = work[r].draft /\ w.kind = work[r].kind /\ w.quote = quote
    BY <2>2 DEF Work
  <2>9. work' = [work EXCEPT ![r] = w] BY <2>1
  <2>10. pc'[r] = "items" /\ work'[r] = w BY <2>1, <2>9 DEF Inv, TypeOK
  <2> HIDE DEF w, quote
  <2>11. RequestSound(r)'
    BY <1>0, <2>1, <2>2, <2>6, <2>7, <2>8, <2>10
       DEF RequestSound, Waiting, MakerSound, ChargerSound, ChargedSound, Making, Charging, Charged
  <2>12. \A q \in Requests \ {r} : ApartFrom(w, q) BY <2>1, <2>8 DEF Inv, Apart, ApartFrom
  <2>13. "items" \in Points BY DEF Points
  <2> QED BY <1>0, <2>1, <2>7, <2>9, <2>11, <2>12, <2>13, QuietStep
<1> QED BY <1>1, <1>2

LEMMA RecordStep == ASSUME Inv, NEW r \in Requests, NEW p \in Rows, Record(r, p) PROVE Inv'
<1> DEFINE next == IF work[r].kind = "WALLET" THEN "debit" ELSE "commit"
<1>1. /\ UNCHANGED <<price, orders, rows, charge, refused>> /\ faults' \in 0..MaxFaults
      /\ pc[r] = "record" /\ rows[p] = None
      /\ work' = [work EXCEPT ![r] = [work[r] EXCEPT !.row = p]]
      /\ pc' = [pc EXCEPT ![r] = next]
      /\ \A q \in Requests : work[q] # None => work[q].row # p
  BY DEF Record, Inv, TypeOK, Goto
<1>2. RequestSound(r) /\ work[r] \in Work BY <1>1 DEF Inv, RequestsSound, RequestSound
<1>4. PICK w \in Work : w = [work[r] EXCEPT !.row = p] BY <1>2 DEF Work
<1>3. /\ w.fresh = work[r].fresh /\ w.order = work[r].order /\ w.row = p
      /\ w.draft = work[r].draft /\ w.kind = work[r].kind
  BY <1>2, <1>4 DEF Work
<1>5. PICK n \in {"debit", "commit"} : n = next OBVIOUS
<1>6. pc'[r] = n /\ work'[r] = w /\ n \in Points BY <1>1, <1>4, <1>5 DEF Inv, TypeOK, Points
<1>10. work' = [work EXCEPT ![r] = w] /\ pc' = [pc EXCEPT ![r] = n] BY <1>1, <1>4, <1>5
<1> HIDE DEF next
<1>7. ASSUME ~ w.fresh PROVE Backed(w.order, w.draft.total)'
  <2>1. Backed(work[r].order, work[r].draft.total)
    BY <1>1, <1>2, <1>3, <1>7 DEF RequestSound, ChargerSound, Charging
  <2>2. Backed(w.order, w.draft.total) BY <2>1, <1>3
  <2> QED BY <1>1, <2>2 DEF Backed
<1>8. RequestSound(r)'
  <2>1. /\ w.kind \in Methods /\ w.order \in Orders
        /\ w.fresh => orders[w.order] = None /\ Complete(w.draft) /\ w.draft.by = "checkout"
    BY <1>1, <1>2, <1>3 DEF RequestSound, ChargerSound, Charging
  <2>2. orders' = orders /\ rows'[p] = None BY <1>1
  <2>3. ChargerSound(r)' BY <1>3, <1>6, <1>7, <2>1, <2>2 DEF ChargerSound, Charging
  <2>4. pc'[r] \in {"debit", "commit"} BY <1>6
  <2> QED
    BY <1>6, <2>3, <2>4
       DEF RequestSound, Waiting, MakerSound, ChargedSound, Making, Charged
<1>9. \A q \in Requests \ {r} : ApartFrom(w, q)
  BY <1>1, <1>3, NoneAssumption DEF Inv, Apart, ApartFrom, RequestsSound, RequestSound
<1> QED BY <1>1, <1>6, <1>8, <1>9, <1>10, QuietStep

LEMMA InitiateFailsStep == ASSUME Inv, NEW r \in Requests, InitiateFails(r) PROVE Inv'
<1>1. /\ UNCHANGED <<price, orders, rows, charge, refused>> /\ faults' \in 0..MaxFaults
      /\ pc[r] = "initiate" /\ pc' = [pc EXCEPT ![r] = "fail"] /\ UNCHANGED work
  BY NumbersAssumption DEF InitiateFails, Inv, TypeOK, Goto
<1>2. RequestSound(r) /\ work[r] \in Work BY <1>1 DEF Inv, RequestsSound, RequestSound
<1>3. pc'[r] = "fail" /\ work'[r] = work[r] BY <1>1 DEF Inv, TypeOK
<1>4. RequestSound(r)'
  BY <1>1, <1>2, <1>3
     DEF RequestSound, Waiting, MakerSound, ChargerSound, ChargedSound, Making, Charging, Charged
<1>5. PICK w \in Work : w = work[r] BY <1>2
<1>6. work' = [work EXCEPT ![r] = w] BY <1>1, <1>5 DEF Inv, TypeOK
<1>7. \A q \in Requests \ {r} : ApartFrom(w, q) BY <1>1, <1>5 DEF Inv, Apart, ApartFrom
<1>8. "fail" \in Points BY DEF Points
<1> QED BY <1>1, <1>4, <1>6, <1>7, <1>8, QuietStep

LEMMA StoppedStep ==
  ASSUME Inv, NEW r \in Requests, Debit(r) \/ RequestFails(r) PROVE Inv'
BY NumbersAssumption, EndStep DEF Debit, RequestFails, Inv, TypeOK

(******************************* The making of an order *******************************)

\* What a request that writes has in hand after it.
LEMMA InHand ==
  ASSUME Inv, NEW r \in Requests, work[r] \in Work, NEW o \in Orders, NEW d \in Order,
         Write(r, o, d)
  PROVE  \E w \in Work : /\ work' = [work EXCEPT ![r] = w]
                         /\ w.order = o /\ w.draft = d /\ w.kind = work[r].kind
                         /\ w.fresh = work[r].fresh /\ w.ids = work[r].ids
                         /\ w.quote = work[r].quote /\ w.row = work[r].row
<1> DEFINE w == [work[r] EXCEPT !.order = o, !.draft = d]
<1>1. work' = [work EXCEPT ![r] = w] BY DEF Write, Inv, TypeOK
<1>2. /\ w \in Work /\ w.order = o /\ w.draft = d /\ w.kind = work[r].kind
      /\ w.fresh = work[r].fresh /\ w.ids = work[r].ids
      /\ w.quote = work[r].quote /\ w.row = work[r].row
  BY DEF Work
<1> QED BY <1>1, <1>2

\* A step that writes an order of POST /orders, or nothing that others see.
LEMMA MakeStep ==
  ASSUME Inv, Kept, NEW r \in Requests, UNCHANGED <<price, rows, charge, refused, faults>>,
         NEW o \in Orders, NEW d \in Order,
         \/ orders' = orders
         \/ /\ orders' = [orders EXCEPT ![o] = d]
            /\ d.by = "createOrder" /\ (d.total = 0 \/ Complete(d)),
         \A q \in Requests \ {r} : Making(q) \/ (Charging(q) /\ work[q].fresh) => work[q].order # o,
         NEW next \in Points, NEW w \in Work \cup {None},
         pc' = [pc EXCEPT ![r] = next], work' = [work EXCEPT ![r] = w],
         RequestSound(r)', next # "idle" => \A q \in Requests \ {r} : ApartFrom(w, q)
  PROVE  Inv'
<1>1. TypeOK' BY DEF Inv, TypeOK
<1>2. pc'[r] = next /\ work'[r] = w BY DEF Inv, TypeOK
<1>3. ASSUME NEW q \in Requests \ {r} PROVE Untouched(q)
  <2>1. RequestSound(q) BY DEF Inv, RequestsSound
  <2>2. Making(q) \/ Charging(q) => work[q].order \in Orders
    BY <2>1 DEF RequestSound, MakerSound, ChargerSound
  <2>3. Making(q) \/ (Charging(q) /\ work[q].fresh) =>
          orders'[work[q].order] = orders[work[q].order]
    BY <2>2 DEF Inv, TypeOK
  <2>4. Charged(q) => work[q].row \notin refused BY <2>1 DEF RequestSound, ChargedSound
  <2> QED BY <2>3, <2>4 DEF Untouched, Inv, TypeOK
<1>4. (RequestsSound /\ Apart)' BY <1>2, <1>3, StepOf
<1>5. OrdersBacked'
  BY NoneAssumption DEF Inv, TypeOK, Committed, OrdersBacked, Backed
<1>6. RowsBacked'
  <2> SUFFICES ASSUME NEW p \in Rows, rows'[p] # None
               PROVE  Backed(rows[p].order, rows[p].amount)'
    BY DEF RowsBacked
  <2>1. PICK x \in Orders, n \in Totals : x = rows[p].order /\ n = rows[p].amount BY DEF Inv, TypeOK, Row
  <2>2. Backed(x, n) BY <2>1 DEF Inv, Committed, RowsBacked
  <2>3. Backed(x, n)' BY <2>2, StillBacked
  <2> QED BY <2>1, <2>3 DEF Backed
<1>7. CheckoutIsWhole'
  BY DEF Inv, TypeOK, Committed, CheckoutIsWhole
<1>8. (ChargesSound /\ FailedWithReason)'
  BY DEF Inv, Committed, ChargesSound, FailedWithReason
<1> QED BY <1>1, <1>4, <1>5, <1>6, <1>7, <1>8 DEF Inv, Committed

LEMMA CreateStep ==
  ASSUME Inv, Kept, NEW r \in Requests, NEW o \in Orders, Create(r, o) PROVE Inv'
<1>1. RequestSound(r) /\ work[r] \in Work /\ pc[r] = "create"
  BY DEF Create, Inv, RequestsSound, RequestSound
<1>2. PICK d \in Order : d = Blank(work[r].kind) BY <1>1, Shapes DEF Work
<1>3. d.by = Author(work[r].kind) /\ d.total = 0 /\ d.items = NoItems BY <1>2 DEF Blank
<1>4. PICK w \in Work : /\ work' = [work EXCEPT ![r] = w]
                        /\ w.order = o /\ w.draft = d /\ w.kind = work[r].kind
                        /\ w.fresh = work[r].fresh /\ w.ids = work[r].ids
                        /\ w.quote = work[r].quote /\ w.row = work[r].row
  BY <1>1, <1>2, InHand DEF Create
<1>5. /\ orders' = IF work[r].kind = "ORDER" THEN [orders EXCEPT ![o] = d] ELSE orders
      /\ orders[o] = None
  BY <1>2 DEF Create, Write, Unused
<1>6. /\ UNCHANGED <<price, rows, charge, refused, faults>>
      /\ pc' = [pc EXCEPT ![r] = "quote"] /\ "quote" \in Points
  BY DEF Create, Goto, Points
<1>7. pc'[r] = "quote" /\ work'[r] = w BY <1>4, <1>6 DEF Inv, TypeOK
<1>8. orders'[o] = IF w.kind = "ORDER" THEN d ELSE None BY <1>4, <1>5 DEF Inv, TypeOK
<1>9. w.fresh /\ w.row = None /\ w.ids # {} BY <1>1, <1>4 DEF RequestSound, Waiting
<1>10. RequestSound(r)'
  BY <1>3, <1>4, <1>7, <1>8, <1>9
     DEF RequestSound, Waiting, MakerSound, ChargerSound, ChargedSound, Making, Charging, Charged
<1>11. \A q \in Requests \ {r} : pc[q] # "idle" => work[q].order # o
  BY NoneAssumption DEF Create, Unused, Inv, RequestsSound, RequestSound
<1>12. \A q \in Requests \ {r} : ApartFrom(w, q) BY <1>4, <1>9, <1>11 DEF ApartFrom
<1>13. \A q \in Requests \ {r} : Making(q) \/ (Charging(q) /\ work[q].fresh) => work[q].order # o
  BY <1>11 DEF Making, Charging
<1>14. \/ orders' = orders
       \/ orders' = [orders EXCEPT ![o] = d] /\ d.by = "createOrder" /\ (d.total = 0 \/ Complete(d))
  BY <1>3, <1>5 DEF Author
<1> QED BY <1>4, <1>6, <1>10, <1>12, <1>13, <1>14, MakeStep

\* What a request that makes an order has to itself.
LEMMA Own ==
  ASSUME Inv, NEW r \in Requests, Making(r)
  PROVE  /\ work[r] \in Work /\ work[r].fresh /\ work[r].order \in Orders /\ work[r].row = None
         /\ \A q \in Requests \ {r} :
              Making(q) \/ (Charging(q) /\ work[q].fresh) => work[q].order # work[r].order
<1>1. pc[r] # "idle" /\ RequestSound(r) BY DEF Making, Inv, RequestsSound
<1>2. work[r] \in Work /\ work[r].fresh /\ work[r].order \in Orders /\ work[r].row = None
  BY <1>1 DEF RequestSound, MakerSound
<1>3. \A q \in Requests : Making(q) => pc[q] # "idle" /\ work[q].fresh
  BY DEF Inv, RequestsSound, RequestSound, MakerSound, Making
<1>4. \A q \in Requests : Charging(q) => pc[q] # "idle" BY DEF Charging
<1>5. work[r].order # None BY <1>2, NamesAssumption
<1> QED BY <1>1, <1>2, <1>3, <1>4, <1>5 DEF Inv, Apart

LEMMA ItemsStep == ASSUME Inv, Kept, NEW r \in Requests, Items(r) PROVE Inv'
<1>1. pc[r] = "items" /\ Making(r) /\ RequestSound(r)
  BY DEF Items, Making, Inv, RequestsSound
<1>2. /\ work[r] \in Work /\ work[r].fresh /\ work[r].order \in Orders /\ work[r].row = None
      /\ \A q \in Requests \ {r} :
           Making(q) \/ (Charging(q) /\ work[q].fresh) => work[q].order # work[r].order
  BY <1>1, Own
<1>3. PICK o \in Orders, old \in Order, quote \in Quotes :
        o = work[r].order /\ old = work[r].draft /\ quote = work[r].quote
  BY <1>2 DEF Work
<1>4. PICK d \in Order : d = [old EXCEPT !.items = quote] BY OrderUpdates, Shapes
<1>5. d.items = quote /\ d.total = old.total /\ d.by = old.by BY <1>4, OrderUpdates, Shapes
<1>6. /\ quote # NoItems /\ old.total = 0 /\ old.by = Author(work[r].kind)
      /\ orders[o] = IF work[r].kind = "ORDER" THEN old ELSE None
  BY <1>1, <1>3 DEF RequestSound, MakerSound
<1>7. Write(r, o, d) BY <1>3, <1>4 DEF Items
<1>8. PICK w \in Work : /\ work' = [work EXCEPT ![r] = w]
                        /\ w.order = o /\ w.draft = d /\ w.kind = work[r].kind
                        /\ w.fresh = work[r].fresh /\ w.ids = work[r].ids
                        /\ w.quote = work[r].quote /\ w.row = work[r].row
  <2>1. work[r] \in Work BY <1>2
  <2> QED BY <2>1, <1>7, InHand
<1>9. orders' = IF work[r].kind = "ORDER" THEN [orders EXCEPT ![o] = d] ELSE orders
  BY <1>7 DEF Write
<1>10. /\ UNCHANGED <<price, rows, charge, refused, faults>>
       /\ pc' = [pc EXCEPT ![r] = "total"] /\ "total" \in Points
  BY DEF Items, Goto, Points
<1>11. pc'[r] = "total" /\ work'[r] = w BY <1>8, <1>10 DEF Inv, TypeOK
<1>12. orders'[o] = IF w.kind = "ORDER" THEN d ELSE None BY <1>6, <1>8, <1>9 DEF Inv, TypeOK
<1>13. RequestSound(r)'
  <2>1. w.fresh /\ w.order \in Orders /\ w.row = None /\ w.draft = d /\ w.quote = quote
    BY <1>2, <1>3, <1>8
  <2>2. d.total = 0 /\ d.by = Author(w.kind) BY <1>5, <1>6, <1>8
  <2>3. MakerSound(r)' BY <1>5, <1>6, <1>8, <1>11, <1>12, <2>1, <2>2 DEF MakerSound, Making
  <2> QED
    BY <1>11, <2>3 DEF RequestSound, Waiting, ChargerSound, ChargedSound, Charging, Charged
<1>14. \A q \in Requests \ {r} : ApartFrom(w, q)
  BY <1>1, <1>2, <1>3, <1>8 DEF Inv, Apart, ApartFrom
<1>15. \/ orders' = orders
       \/ orders' = [orders EXCEPT ![o] = d] /\ d.by = "createOrder" /\ (d.total = 0 \/ Complete(d))
  BY <1>5, <1>6, <1>9 DEF Author
<1>16. \A q \in Requests \ {r} : Making(q) \/ (Charging(q) /\ work[q].fresh) => work[q].order # o
  BY <1>2, <1>3
<1> QED BY <1>8, <1>10, <1>13, <1>14, <1>15, <1>16, MakeStep

LEMMA TotalStep == ASSUME Inv, Kept, NEW r \in Requests, Total(r) PROVE Inv'
<1>1. pc[r] = "total" /\ Making(r) /\ RequestSound(r)
  BY DEF Total, Making, Inv, RequestsSound
<1>2. /\ work[r] \in Work /\ work[r].fresh /\ work[r].order \in Orders /\ work[r].row = None
      /\ \A q \in Requests \ {r} :
           Making(q) \/ (Charging(q) /\ work[q].fresh) => work[q].order # work[r].order
  BY <1>1, Own
<1>3. PICK o \in Orders, old \in Order, quote \in Quotes :
        o = work[r].order /\ old = work[r].draft /\ quote = work[r].quote
  BY <1>2 DEF Work
<1>4. PICK n \in Totals : n = Cost(quote) BY Shapes
<1>5. PICK d \in Order : d = [old EXCEPT !.total = n] BY OrderUpdates, Shapes
<1>6. d.items = old.items /\ d.total = n /\ d.by = old.by BY <1>5, OrderUpdates, Shapes
<1>7. quote # NoItems /\ old.items = quote /\ old.by = Author(work[r].kind)
      /\ (work[r].kind # "ORDER" => orders[o] = None)
  BY <1>1, <1>3 DEF RequestSound, MakerSound
<1>8. Complete(d) BY <1>4, <1>6, <1>7 DEF Complete
<1>9. \A q \in Requests \ {r} : Making(q) \/ (Charging(q) /\ work[q].fresh) => work[q].order # o
  BY <1>2, <1>3
<1>10. UNCHANGED <<price, rows, charge, refused, faults>> BY DEF Total
<1>11. CASE work[r].kind = "ORDER"
  <2>1. orders' = [orders EXCEPT ![o] = d] /\ End(r)
    BY <1>3, <1>4, <1>5, <1>11 DEF Total, QuotedPrices
  <2>2. pc' = [pc EXCEPT ![r] = "idle"] /\ work' = [work EXCEPT ![r] = None]
    BY <2>1 DEF End, Goto
  <2>3. pc'[r] = "idle" /\ work'[r] = None BY <2>2 DEF Inv, TypeOK
  <2>4. RequestSound(r)'
    BY <2>3 DEF RequestSound, Waiting, MakerSound, ChargerSound, ChargedSound, Making, Charging,
                Charged
  <2>5. d.by = "createOrder" BY <1>6, <1>7, <1>11 DEF Author
  <2>6. "idle" \in Points BY DEF Points
  <2> QED BY <1>8, <1>9, <1>10, <2>1, <2>2, <2>4, <2>5, <2>6, MakeStep
<1>12. CASE work[r].kind # "ORDER"
  <2>1. Write(r, o, d) /\ pc' = [pc EXCEPT ![r] = "record"]
    BY <1>3, <1>4, <1>5, <1>12 DEF Total, QuotedPrices, Goto
  <2>2. work[r] \in Work BY <1>2
  <2>3. PICK w \in Work : /\ work' = [work EXCEPT ![r] = w]
                          /\ w.order = o /\ w.draft = d /\ w.kind = work[r].kind
                          /\ w.fresh = work[r].fresh /\ w.ids = work[r].ids
                          /\ w.quote = work[r].quote /\ w.row = work[r].row
    BY <2>1, <2>2, InHand
  <2>4. pc'[r] = "record" /\ work'[r] = w BY <2>1, <2>3 DEF Inv, TypeOK
  <2>5. orders' = orders BY <1>12, <2>1 DEF Write
  <2>6. w.kind \in Methods BY <1>12, <2>2, <2>3 DEF Work, Kinds
  <2>7. w.fresh /\ w.row = None /\ orders'[o] = None BY <1>2, <1>7, <1>12, <2>3, <2>5
  <2>8. w.draft.by = "checkout" BY <1>6, <1>7, <1>12, <2>3 DEF Author
  <2>9. ChargerSound(r)'
    BY <1>8, <2>3, <2>4, <2>6, <2>7, <2>8 DEF ChargerSound, Charging
  <2>10. RequestSound(r)'
    BY <2>4, <2>9 DEF RequestSound, Waiting, MakerSound, ChargedSound, Making, Charged
  <2>11. \A q \in Requests \ {r} : ApartFrom(w, q)
    BY <1>1, <1>2, <1>3, <2>3 DEF Inv, Apart, ApartFrom
  <2>12. "record" \in Points BY DEF Points
  <2> QED BY <1>9, <1>10, <2>1, <2>3, <2>5, <2>10, <2>11, <2>12, MakeStep
<1> QED BY <1>11, <1>12

(******************************** Rows and their charges ********************************)

\* A row that fails for a reason leaves what is committed sound.
LEMMA FailRow ==
  ASSUME Inv, NEW p \in Rows, rows[p] # None, UNCHANGED <<orders, charge, refused>>,
         rows' = [rows EXCEPT ![p].status = "FAILED"], charge[p] = "none" \/ p \in refused
  PROVE  Committed' /\ rows' \in [Rows -> Row \cup {None}]
<1>1. PICK row \in Row : row = rows[p] BY DEF Inv, TypeOK
<1>2. PICK new \in Row : new = [row EXCEPT !.status = "FAILED"] BY DEF Row
<1>3. new.order = row.order /\ new.amount = row.amount BY <1>2 DEF Row
<1>4. rows' = [rows EXCEPT ![p] = new] BY <1>1, <1>2
<1>5. rows' \in [Rows -> Row \cup {None}] BY <1>4 DEF Inv, TypeOK
<1>6. /\ rows'[p] = new /\ new # None
      /\ \A x \in Rows \ {p} : rows'[x] = rows[x]
  BY <1>4, NoneAssumption DEF Inv, TypeOK
<1>7. \A x \in Rows : /\ rows'[x] # None <=> rows[x] # None
                      /\ rows'[x] # None => /\ rows'[x].order = rows[x].order
                                            /\ rows'[x].amount = rows[x].amount
  BY <1>1, <1>3, <1>6
<1>8. OrdersBacked' BY DEF Inv, Committed, OrdersBacked, Backed
<1>9. RowsBacked' BY <1>7 DEF Inv, Committed, RowsBacked, Backed
<1>10. CheckoutIsWhole' BY <1>7 DEF Inv, Committed, CheckoutIsWhole
<1>11. (ChargesSound /\ FailedWithReason)'
  BY <1>6, <1>7 DEF Inv, Committed, ChargesSound, FailedWithReason
<1> QED BY <1>5, <1>8, <1>9, <1>10, <1>11 DEF Committed

LEMMA CommitStep == ASSUME Inv, Kept, NEW r \in Requests, Commit(r) PROVE Inv'
<1>1. pc[r] = "commit" /\ RequestSound(r) /\ work[r] \in Work
  BY DEF Commit, Inv, RequestsSound, RequestSound
<1>2. PICK o \in Orders, p \in Rows, d \in Order :
        o = work[r].order /\ p = work[r].row /\ d = work[r].draft
  BY <1>1 DEF RequestSound, ChargerSound, Charging, Work
<1>3. /\ rows[p] = None
      /\ work[r].fresh => orders[o] = None /\ Complete(d) /\ d.by = "checkout"
      /\ ~ work[r].fresh => Backed(o, d.total)
  BY <1>1, <1>2 DEF RequestSound, ChargerSound, Charging
<1>4. orders' = IF work[r].fresh THEN [orders EXCEPT ![o] = d] ELSE orders
  BY <1>2 DEF Commit, CommittedOrder
<1>5. PICK row \in Row : row = [order |-> o, amount |-> d.total, status |-> "PENDING"]
  BY DEF Row, Order
<1>6. rows' = [rows EXCEPT ![p] = row] BY <1>2, <1>5 DEF Commit
<1>7. UNCHANGED <<price, charge, refused, faults>> BY DEF Commit
<1>8. /\ rows'[p] = row /\ row # None /\ row.order = o /\ row.amount = d.total
      /\ row.status = "PENDING" /\ \A x \in Rows \ {p} : rows'[x] = rows[x]
  BY <1>5, <1>6, NoneAssumption DEF Inv, TypeOK
<1>9. charge[p] = "none" /\ p \notin refused BY <1>3 DEF Inv, Committed, ChargesSound
<1>10. Backed(o, d.total)'
  <2>1. CASE work[r].fresh BY <1>3, <1>4, <2>1, NoneAssumption DEF Backed, Inv, TypeOK
  <2>2. CASE ~ work[r].fresh
    <3>1. PICK n : n = d.total OBVIOUS
    <3>2. Backed(o, n)' BY <1>3, <2>2, <3>1, StillBacked
    <3> QED BY <3>1, <3>2
  <2> QED BY <2>1, <2>2
<1>11. OrdersBacked'
  <2> SUFFICES ASSUME NEW x \in Orders, orders'[x] # None PROVE Backed(x, orders[x].total)'
    BY DEF OrdersBacked
  <2>1. CASE x = o /\ work[r].fresh BY <1>4, <1>10, <2>1 DEF Inv, TypeOK
  <2>2. CASE ~ (x = o /\ work[r].fresh)
    <3>1. orders'[x] = orders[x] BY <1>4, <2>2 DEF Inv, TypeOK
    <3> QED BY <3>1 DEF Inv, Committed, OrdersBacked, Backed
  <2> QED BY <2>1, <2>2
<1>12. RowsBacked'
  <2> SUFFICES ASSUME NEW x \in Rows, rows'[x] # None
               PROVE  Backed(rows[x].order, rows[x].amount)'
    BY DEF RowsBacked
  <2>1. CASE x = p BY <1>8, <1>10, <2>1 DEF Backed
  <2>2. CASE x # p
    <3>1. PICK y \in Orders, n \in Totals : y = rows[x].order /\ n = rows[x].amount
      BY <1>8, <2>2 DEF Inv, TypeOK, Row
    <3>2. Backed(y, n) BY <1>8, <2>2, <3>1 DEF Inv, Committed, RowsBacked
    <3>3. Backed(y, n)' BY <3>2, StillBacked
    <3> QED BY <1>8, <2>2, <3>1, <3>3 DEF Backed
  <2> QED BY <2>1, <2>2
<1>13. CheckoutIsWhole'
  <2> SUFFICES ASSUME NEW x \in Orders, orders'[x] # None, orders'[x].by = "checkout"
               PROVE  /\ Complete(orders'[x])
                      /\ \E y \in Rows : /\ rows'[y] # None /\ rows'[y].order = x
                                         /\ rows'[y].amount = orders'[x].total
    BY DEF CheckoutIsWhole
  <2>1. CASE x = o /\ work[r].fresh BY <1>3, <1>4, <1>8, <2>1 DEF Inv, TypeOK
  <2>2. CASE ~ (x = o /\ work[r].fresh)
    <3>1. orders'[x] = orders[x] BY <1>4, <2>2 DEF Inv, TypeOK
    <3> QED BY <1>3, <1>8, <3>1 DEF Inv, Committed, CheckoutIsWhole
  <2> QED BY <2>1, <2>2
<1>14. (ChargesSound /\ FailedWithReason)'
  BY <1>7, <1>8 DEF Inv, Committed, ChargesSound, FailedWithReason
<1>15. orders' \in [Orders -> Order \cup {None}] /\ rows' \in [Rows -> Row \cup {None}]
  BY <1>4, <1>6 DEF Inv, TypeOK
<1>16. ASSUME NEW q \in Requests \ {r} PROVE Untouched(q)
  <2>1. RequestSound(q) BY DEF Inv, RequestsSound
  <2>2. pc'[q] = pc[q] /\ work'[q] = work[q] BY DEF Commit, End, Goto, Inv, TypeOK
  <2>3. pc[q] # "idle" => /\ work[r].fresh /\ work[q].fresh => work[q].order # o
                          /\ work[q].row # p
    BY <1>1, <1>2, NamesAssumption DEF Inv, Apart
  <2>4. Making(q) \/ Charging(q) => pc[q] # "idle" /\ work[q].order \in Orders
    BY <2>1 DEF RequestSound, MakerSound, ChargerSound, Making, Charging
  <2>5. Making(q) => work[q].fresh BY <2>1 DEF RequestSound, MakerSound
  <2>6. Making(q) \/ (Charging(q) /\ work[q].fresh) =>
          orders'[work[q].order] = orders[work[q].order]
    BY <1>4, <2>3, <2>4, <2>5 DEF Inv, TypeOK
  <2>7. pc[q] \in {"debit", "commit"} \/ Charged(q) => rows'[work[q].row] = rows[work[q].row]
    BY <1>8, <2>1, <2>3 DEF RequestSound, ChargerSound, ChargedSound, Charging, Charged
  <2>8. Charged(q) => work[q].row \notin refused' /\ charge' = charge
    BY <1>7, <2>1 DEF RequestSound, ChargedSound
  <2> QED BY <2>2, <2>6, <2>7, <2>8 DEF Untouched
<1>17. CASE work[r].kind = "PAYSTACK"
  <2>1. pc' = [pc EXCEPT ![r] = "initiate"] /\ work' = work BY <1>17 DEF Commit, Goto
  <2>2. pc'[r] = "initiate" /\ work'[r] = work[r] BY <2>1 DEF Inv, TypeOK
  <2>3. RequestSound(r)'
    BY <1>1, <1>2, <1>7, <1>8, <1>9, <2>2
       DEF RequestSound, Waiting, MakerSound, ChargerSound, ChargedSound, Making, Charging, Charged
  <2>4. \A q \in Requests \ {r} : ApartFrom(work[r], q) BY <1>1 DEF Inv, Apart, ApartFrom
  <2>5. (RequestsSound /\ Apart)' BY <1>16, <2>2, <2>3, <2>4, StepOf
  <2>6. TypeOK' BY <1>7, <1>15, <2>1 DEF Inv, TypeOK, Points
  <2> QED BY <1>11, <1>12, <1>13, <1>14, <2>5, <2>6 DEF Inv, Committed
<1>18. CASE work[r].kind # "PAYSTACK"
  <2>1. pc' = [pc EXCEPT ![r] = "idle"] /\ work' = [work EXCEPT ![r] = None]
    BY <1>18 DEF Commit, End, Goto
  <2>2. pc'[r] = "idle" /\ work'[r] = None BY <2>1 DEF Inv, TypeOK
  <2>3. RequestSound(r)'
    BY <2>2 DEF RequestSound, Waiting, MakerSound, ChargerSound, ChargedSound, Making, Charging,
                Charged
  <2>4. (RequestsSound /\ Apart)' BY <1>16, <2>2, <2>3, StepOf
  <2>5. TypeOK' BY <1>7, <1>15, <2>1 DEF Inv, TypeOK, Points
  <2> QED BY <1>11, <1>12, <1>13, <1>14, <2>4, <2>5 DEF Inv, Committed
<1> QED BY <1>17, <1>18

\* The end of a request whose row is p, when only p's row and charge change.
LEMMA ChargedEnd ==
  ASSUME Inv, Kept, NEW r \in Requests, Charged(r), NEW p \in Rows, p = work[r].row, End(r),
         UNCHANGED <<price, orders, refused, faults>>,
         rows' \in [Rows -> Row \cup {None}], charge' \in [Rows -> {"none", "open", "paid"}],
         \A x \in Rows \ {p} : rows'[x] = rows[x] /\ charge'[x] = charge[x],
         Committed'
  PROVE  Inv'
<1>1. pc' = [pc EXCEPT ![r] = "idle"] /\ work' = [work EXCEPT ![r] = None] BY DEF End, Goto
<1>2. pc'[r] = "idle" /\ work'[r] = None BY <1>1 DEF Inv, TypeOK
<1>3. RequestSound(r)'
  BY <1>2 DEF RequestSound, Waiting, MakerSound, ChargerSound, ChargedSound, Making, Charging,
              Charged
<1>4. ASSUME NEW q \in Requests \ {r} PROVE Untouched(q)
  <2>1. RequestSound(q) BY DEF Inv, RequestsSound
  <2>2. pc[q] \in {"debit", "commit"} \/ Charged(q) => work[q].row \in Rows \ {p}
    BY <2>1, NamesAssumption
       DEF Inv, Apart, RequestSound, ChargerSound, ChargedSound, Charging, Charged
  <2>3. Charged(q) => work[q].row \notin refused BY <2>1 DEF RequestSound, ChargedSound
  <2> QED BY <1>1, <2>2, <2>3 DEF Untouched, Inv, TypeOK
<1>5. (RequestsSound /\ Apart)' BY <1>2, <1>3, <1>4, StepOf
<1>6. TypeOK' BY <1>1 DEF Inv, TypeOK, Points
<1> QED BY <1>5, <1>6 DEF Inv

LEMMA InitiateStep == ASSUME Inv, Kept, NEW r \in Requests, Initiate(r) PROVE Inv'
<1>1. Charged(r) /\ RequestSound(r) BY DEF Initiate, Charged, Inv, RequestsSound
<1>2. PICK p \in Rows : p = work[r].row BY <1>1 DEF RequestSound, ChargedSound
<1>3. rows[p] # None /\ rows[p].status = "PENDING" BY <1>1, <1>2 DEF RequestSound, ChargedSound
<1>4. /\ End(r) /\ UNCHANGED <<price, orders, rows, refused, faults>>
      /\ charge' = [charge EXCEPT ![p] = "open"]
  BY <1>2 DEF Initiate
<1>5. /\ charge' \in [Rows -> {"none", "open", "paid"}]
      /\ charge'[p] = "open" /\ \A x \in Rows \ {p} : charge'[x] = charge[x]
  BY <1>4 DEF Inv, TypeOK
<1>6. Committed'
  BY <1>3, <1>4, <1>5 DEF Inv, Committed, OrdersBacked, RowsBacked, Backed, ChargesSound,
                          FailedWithReason, CheckoutIsWhole
<1>7. rows' \in [Rows -> Row \cup {None}] /\ \A x \in Rows : rows'[x] = rows[x]
  BY <1>4 DEF Inv, TypeOK
<1> QED BY <1>1, <1>2, <1>4, <1>5, <1>6, <1>7, ChargedEnd

LEMMA FailStep == ASSUME Inv, Kept, NEW r \in Requests, Fail(r) PROVE Inv'
<1>1. Charged(r) /\ RequestSound(r) BY DEF Fail, Charged, Inv, RequestsSound
<1>2. PICK p \in Rows : p = work[r].row BY <1>1 DEF RequestSound, ChargedSound
<1>3. rows[p] # None /\ charge[p] = "none" BY <1>1, <1>2 DEF RequestSound, ChargedSound
<1>4. /\ End(r) /\ UNCHANGED <<price, orders, charge, refused, faults>>
      /\ rows' = [rows EXCEPT ![p].status = "FAILED"]
  BY <1>2 DEF Fail
<1>5. Committed' /\ rows' \in [Rows -> Row \cup {None}] BY <1>3, <1>4, FailRow
<1>6. \A x \in Rows \ {p} : rows'[x] = rows[x] /\ charge'[x] = charge[x]
  BY <1>4 DEF Inv, TypeOK
<1>7. charge' \in [Rows -> {"none", "open", "paid"}] BY <1>4 DEF Inv, TypeOK
<1> QED BY <1>1, <1>2, <1>4, <1>5, <1>6, <1>7, ChargedEnd

(********************************* The outside world *********************************)

LEMMA PayStep == ASSUME Inv, Kept, NEW p \in Rows, Pay(p) \/ Refuse(p) PROVE Inv'
<1>1. /\ charge[p] = "open" /\ UNCHANGED <<price, orders, rows, pc, work, faults>>
      /\ charge' \in [Rows -> {"none", "open", "paid"}] /\ refused' \subseteq Rows
      /\ charge'[p] # "none" /\ \A x \in Rows \ {p} : charge'[x] = charge[x]
      /\ refused \subseteq refused' /\ refused' \subseteq refused \cup {p}
  BY DEF Pay, Refuse, Inv, TypeOK
<1>2. ASSUME NEW q \in Requests PROVE Untouched(q)
  <2>1. RequestSound(q) BY DEF Inv, RequestsSound
  <2>2. Charged(q) => work[q].row \in Rows \ {p} /\ work[q].row \notin refused
    BY <1>1, <2>1 DEF RequestSound, ChargedSound
  <2> QED BY <1>1, <2>2 DEF Untouched
<1>3. (RequestsSound /\ Apart)' BY <1>1, <1>2, StepOfNone
<1>4. TypeOK' BY <1>1 DEF Inv, TypeOK
<1>5. Committed'
  <2>1. (OrdersBacked /\ RowsBacked /\ CheckoutIsWhole)'
    BY <1>1 DEF Inv, Committed, OrdersBacked, RowsBacked, Backed, CheckoutIsWhole
  <2>2. (ChargesSound /\ FailedWithReason)'
    BY <1>1 DEF Inv, Committed, ChargesSound, FailedWithReason
  <2> QED BY <2>1, <2>2 DEF Committed
<1> QED BY <1>3, <1>4, <1>5 DEF Inv

LEMMA HandleFailedStep == ASSUME Inv, Kept, NEW p \in Rows, HandleFailed(p) PROVE Inv'
<1>1. /\ p \in refused /\ rows[p] # None /\ rows' = [rows EXCEPT ![p].status = "FAILED"]
      /\ UNCHANGED <<price, orders, charge, refused, pc, work, faults>>
  BY DEF HandleFailed
<1>2. Committed' /\ rows' \in [Rows -> Row \cup {None}] BY <1>1, FailRow
<1>3. \A x \in Rows \ {p} : rows'[x] = rows[x] BY <1>1 DEF Inv, TypeOK
<1>4. ASSUME NEW q \in Requests PROVE Untouched(q)
  <2>1. RequestSound(q) BY DEF Inv, RequestsSound
  <2>2. pc[q] \in {"debit", "commit"} => work[q].row \in Rows \ {p}
    BY <1>1, <2>1 DEF RequestSound, ChargerSound, Charging
  <2>3. Charged(q) => work[q].row \in Rows \ {p} /\ work[q].row \notin refused
    BY <1>1, <2>1 DEF RequestSound, ChargedSound
  <2> QED BY <1>1, <1>3, <2>2, <2>3 DEF Untouched
<1>5. (RequestsSound /\ Apart)' BY <1>1, <1>4, StepOfNone
<1>6. TypeOK' BY <1>1, <1>2 DEF Inv, TypeOK
<1> QED BY <1>2, <1>5, <1>6 DEF Inv

\* A step that changes at most the prices.
LEMMA PriceStep ==
  ASSUME Inv, price' \in [Books -> Prices],
         UNCHANGED <<orders, rows, charge, refused, pc, work, faults>>
  PROVE  Inv'
BY DEF Inv, TypeOK, Committed, OrdersBacked, RowsBacked, Backed, ChargesSound,
       FailedWithReason, CheckoutIsWhole, Apart, RequestsSound, RequestSound, Waiting, MakerSound,
       ChargerSound, ChargedSound, Making, Charging, Charged

LEMMA CrashStep == ASSUME Inv, Crash PROVE Inv'
<1>1. /\ UNCHANGED <<price, orders, rows, charge, refused>> /\ faults' \in 0..MaxFaults
      /\ \A q \in Requests : pc'[q] = "idle" /\ work'[q] = None
  BY NumbersAssumption DEF Crash, Inv, TypeOK
<1>2. TypeOK' BY <1>1 DEF Inv, TypeOK, Crash, Points
<1>3. RequestsSound'
  BY <1>1 DEF RequestsSound, RequestSound, Waiting, MakerSound, ChargerSound, ChargedSound,
              Making, Charging, Charged
<1>4. Apart' BY <1>1 DEF Apart
<1>5. Committed'
  BY <1>1 DEF Inv, Committed, OrdersBacked, RowsBacked, Backed, ChargesSound, FailedWithReason,
              CheckoutIsWhole
<1> QED BY <1>2, <1>3, <1>4, <1>5 DEF Inv

(************************************* Together *************************************)

LEMMA InvStep == Inv /\ [Next]_vars => Inv'
<1> SUFFICES ASSUME Inv, [Next]_vars PROVE Inv'
  OBVIOUS
<1>1. Kept BY KeptStep
<1>2. ASSUME NEW r \in Requests, RequestStep(r) PROVE Inv'
  BY <1>1, <1>2, CreateStep, QuoteStep, ItemsStep, TotalStep, RecordStep, StoppedStep,
     CommitStep, InitiateStep, FailStep
     DEF RequestStep
<1>3. ASSUME NEW r \in Requests,
             \/ \E kind \in Kinds, ids \in Carts : Start(r, kind, ids)
             \/ \E method \in Methods, o \in Orders : StartExisting(r, method, o)
             \/ InitiateFails(r) \/ RequestFails(r)
      PROVE  Inv'
  BY <1>3, StartStep, StartExistingStep, InitiateFailsStep, StoppedStep
<1>4. ASSUME NEW p \in Rows, Pay(p) \/ Refuse(p) \/ HandleFailed(p) PROVE Inv'
  BY <1>1, <1>4, PayStep, HandleFailedStep
<1>5. ASSUME NEW b \in Books, NEW n \in Prices, UpdateBook(b, n) PROVE Inv'
  BY <1>5, PriceStep DEF UpdateBook, Inv, TypeOK
<1>6. CASE Crash BY <1>6, CrashStep
<1>7. CASE UNCHANGED vars BY <1>7, PriceStep DEF vars, Inv, TypeOK
<1> QED BY <1>2, <1>3, <1>4, <1>5, <1>6, <1>7 DEF Next

LEMMA InvAlways == Safety => []Inv
<1> QED BY InvInit, InvStep, PTL DEF Safety

\* Every state of orders, rows, charges and requests is one the code can be in.
THEOREM CheckoutTyped == Safety => []TypeOK
<1>1. Inv => TypeOK BY DEF Inv
<1> QED BY <1>1, InvAlways, PTL

\* createOrderCheckout commits an order with its books, its total and a row for it, or
\* nothing, whatever fails and whoever else writes.
THEOREM CheckoutWhole == Safety => []CheckoutIsWhole
<1>1. Inv => CheckoutIsWhole BY DEF Inv, Committed
<1> QED BY <1>1, InvAlways, PTL

\* The amount of a row is the cost of the books of its order, at the prices createOrder
\* read; or nothing, for an order POST /orders was still at.
THEOREM CheckoutChargedInFull == Safety => []ChargedInFull
<1>1. Inv => ChargedInFull
  BY DEF Inv, Committed, RowsBacked, Backed, Complete, ChargedInFull
<1> QED BY <1>1, InvAlways, PTL

\* FAILED is written for a charge that was not opened or an attempt that was refused, by
\* createOrderCheckout or by handleFailedPaystackDeposit.
THEOREM CheckoutFailedWithReason == Safety => []FailedWithReason
<1>1. Inv => FailedWithReason BY DEF Inv, Committed
<1> QED BY <1>1, InvAlways, PTL

\* No statement of createOrder or createOrderCheckout changes an order that is complete.
THEOREM CheckoutCompleteForGood == Safety => CompleteForGood
<1>1. Inv /\ [Next]_vars =>
        [\A o \in Orders : orders[o] # None /\ Complete(orders[o]) => orders'[o] = orders[o]]_vars
  BY KeptStep DEF Kept
<1> QED BY <1>1, InvAlways, PTL DEF Safety, CompleteForGood
===================================================================================
