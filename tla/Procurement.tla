----------------------------- MODULE Procurement ------------------------------
(***************************************************************************)
(* Buying: requests that several vendors quote for, and purchase orders,    *)
(* made from an awarded quote or by hand.  A request and an order have at   *)
(* most one line per item.  No command cancels an order.  Goods that arrive *)
(* go to stock or become equipment: see ReceiveOrder.                       *)
(***************************************************************************)
EXTENDS Premises

CONSTANTS
  Requests, Orders,  \* bound how many are ever made
  Sizes, Prices      \* of a line, by the piece; what has no line is at 0

ASSUME LinesAreNatural == Sizes \cup Prices \subseteq Nat \ {0}
ASSUME OrdersAreFinite == IsFiniteSet(Orders)
ASSUME NowhereIsNoOrder == Nowhere \notin Orders

VARIABLES
  request,   \* operations_vendor_quote_requests.status
  wanted,    \* operations_vendor_quote_request_lines.quantity; 0 is no line
  sendTo,    \* .warehouse_id
  quote,     \* operations_vendor_quotes.status
  bid,       \* operations_vendor_quote_lines.unit_cost_minor
  bidIn,     \* operations_vendor_quotes.currency
  orderOf,   \* .purchase_order_id
  order,     \* operations_purchase_orders.status
  dock,      \* .warehouse_id
  currency,  \* what its prices are in
  ordered,   \* operations_purchase_order_lines.quantity; 0 is no line
  price,     \* .unit_cost_minor
  arrived,   \* .received_quantity
  payable    \* what the receipts of an order made the tenant owe for a line

sourcing == <<request, wanted, sendTo, quote, bid, bidIn, orderOf>>
ordering == <<order, dock, currency, ordered, price, arrived, payable>>
buyingVars == <<sourcing, ordering>>

NoLine == [i \in Items |-> 0]
LinesIn(N) == [Items -> N \cup {0}] \ {NoLine}
LinesOf(l) == {i \in Items : l[i] # 0}

ProcurementTypeOK ==
  /\ request \in [Requests -> {"none", "open", "awarded", "cancelled"}]
  /\ wanted \in [Requests -> [Items -> Nat]]
  /\ sendTo \in [Requests -> Warehouses \cup {Nowhere}]
  /\ quote \in [Requests -> [Vendors -> {"none", "received", "awarded", "rejected"}]]
  /\ bid \in [Requests -> [Vendors -> [Items -> Nat]]]
  /\ bidIn \in [Requests -> [Vendors -> Currencies]]
  /\ orderOf \in [Requests -> Orders \cup {Nowhere}]
  /\ order \in [Orders -> {"none", "draft", "approved", "partially_received", "received"}]
  /\ dock \in [Orders -> Warehouses \cup {Nowhere}]
  /\ currency \in [Orders -> Currencies]
  /\ ordered \in [Orders -> [Items -> Nat]]
  /\ price \in [Orders -> [Items -> Nat]]
  /\ arrived \in [Orders -> [Items -> Nat]]
  /\ payable \in [Orders -> [Items -> Nat]]

ProcurementInit ==
  /\ request = [r \in Requests |-> "none"]
  /\ wanted = [r \in Requests |-> NoLine]
  /\ sendTo = [r \in Requests |-> Nowhere]
  /\ quote = [r \in Requests |-> [v \in Vendors |-> "none"]]
  /\ bid = [r \in Requests |-> [v \in Vendors |-> NoLine]]
  /\ bidIn = [r \in Requests |-> [v \in Vendors |-> "USD"]]
  /\ orderOf = [r \in Requests |-> Nowhere]
  /\ order = [o \in Orders |-> "none"]
  /\ dock = [o \in Orders |-> Nowhere]
  /\ currency = [o \in Orders |-> "USD"]
  /\ ordered = [o \in Orders |-> NoLine]
  /\ price = [o \in Orders |-> NoLine]
  /\ arrived = [o \in Orders |-> NoLine]
  /\ payable = [o \in Orders |-> NoLine]

-----------------------------------------------------------------------------
(* Quotes *)

CreateQuoteRequest(r, w, lines) ==
  /\ request[r] = "none"
  /\ Open(w)
  /\ \A i \in LinesOf(lines) : catalog[i] = "active"
  /\ request' = [request EXCEPT ![r] = "open"]
  /\ wanted' = [wanted EXCEPT ![r] = lines]
  /\ sendTo' = [sendTo EXCEPT ![r] = w]
  /\ UNCHANGED <<quote, bid, bidIn, orderOf, ordering>>

(* The lines of a quote are counted and one of them must be of this request;
   the others may be priced for lines of other requests. *)
ElsewhereFor(r) == UNION {{<<x, i>> : i \in LinesOf(wanted[x])} : x \in Requests \ {r}}

RecordQuote(r, v, prices, cur) ==
  LET priced == LinesOf(prices) IN
  /\ request[r] = "open" /\ v \in vendors
  /\ quote[r][v] = "none"
  /\ priced # {} /\ priced \subseteq LinesOf(wanted[r])
  /\ Cardinality(LinesOf(wanted[r]) \ priced) <= Cardinality(ElsewhereFor(r))
  /\ quote' = [quote EXCEPT ![r][v] = "received"]
  /\ bid' = [bid EXCEPT ![r][v] = prices]
  /\ bidIn' = [bidIn EXCEPT ![r][v] = cur]
  /\ UNCHANGED <<request, wanted, sendTo, orderOf, ordering>>

CancelQuoteRequest(r) ==
  /\ request[r] = "open"
  /\ request' = [request EXCEPT ![r] = "cancelled"]
  /\ UNCHANGED <<wanted, sendTo, quote, bid, bidIn, orderOf, ordering>>

Draft(o, w, cur, lines, prices) ==
  /\ order[o] = "none"
  /\ order' = [order EXCEPT ![o] = "draft"]
  /\ dock' = [dock EXCEPT ![o] = w]
  /\ currency' = [currency EXCEPT ![o] = cur]
  /\ ordered' = [ordered EXCEPT ![o] = lines]
  /\ price' = [price EXCEPT ![o] = prices]
  /\ UNCHANGED <<arrived, payable>>

(* Variant: the request stays open for another award. *)
AwardAgain(r, v, o) ==
  /\ request[r] = "open" /\ quote[r][v] = "received"
  /\ Draft(o, sendTo[r], bidIn[r][v],
           [i \in Items |-> IF i \in LinesOf(bid[r][v]) THEN wanted[r][i] ELSE 0], bid[r][v])
  /\ orderOf' = [orderOf EXCEPT ![r] = o]
  /\ UNCHANGED <<request, wanted, sendTo, quote, bid, bidIn>>

(* Neither the warehouse nor the items are looked at again.  A quote may have
   expired, which is a reason to do nothing. *)
AwardQuote(r, v, o) ==
  /\ request[r] = "open" /\ quote[r][v] = "received"
  /\ Draft(o, sendTo[r], bidIn[r][v],
           [i \in Items |-> IF i \in LinesOf(bid[r][v]) THEN wanted[r][i] ELSE 0], bid[r][v])
  /\ request' = [request EXCEPT ![r] = "awarded"]
  /\ orderOf' = [orderOf EXCEPT ![r] = o]
  /\ quote' = [quote EXCEPT ![r] =
       [x \in Vendors |-> IF x = v THEN "awarded"
                          ELSE IF @[x] = "received" THEN "rejected" ELSE @[x]]]
  /\ UNCHANGED <<wanted, sendTo, bid, bidIn>>

-----------------------------------------------------------------------------
(* Orders *)

CreateOrder(o, w, cur, lines, prices) ==
  /\ vendors # {} /\ Open(w)
  /\ \A i \in LinesOf(lines) : catalog[i] = "active"
  /\ Draft(o, w, cur, lines, prices)
  /\ UNCHANGED sourcing

ApproveOrder(o) ==
  /\ order[o] = "draft"
  /\ order' = [order EXCEPT ![o] = "approved"]
  /\ UNCHANGED <<sourcing, dock, currency, ordered, price, arrived, payable>>

Receivable == {"approved", "partially_received"}

(* What of an order arrives, as far as the order goes. *)
Arrive(o, taken) ==
  /\ order[o] \in Receivable
  /\ \A i \in Items : taken[i] <= ordered[o][i] - arrived[o][i]
  /\ arrived' = [arrived EXCEPT ![o] = [i \in Items |-> @[i] + taken[i]]]
  /\ order' = [order EXCEPT ![o] = IF arrived'[o] = ordered[o] THEN "received"
                                   ELSE "partially_received"]
  /\ payable' = [payable EXCEPT ![o] = [i \in Items |-> @[i] + taken[i] * price[o][i]]]
  /\ UNCHANGED <<sourcing, dock, currency, ordered, price>>

BuyingStep ==
  \/ \E r \in Requests :
       \/ \E w \in Warehouses, lines \in LinesIn(Sizes) : CreateQuoteRequest(r, w, lines)
       \/ \E v \in Vendors :
            \/ \E prices \in LinesIn(Prices), cur \in Currencies : RecordQuote(r, v, prices, cur)
            \/ \E o \in Orders : AwardQuote(r, v, o)
       \/ CancelQuoteRequest(r)
  \/ \E o \in Orders :
       \/ \E w \in Warehouses, cur \in Currencies :
            \E lines \in LinesIn(Sizes), prices \in LinesIn(Prices) :
              LinesOf(prices) = LinesOf(lines) /\ CreateOrder(o, w, cur, lines, prices)
       \/ ApproveOrder(o)
===============================================================================
