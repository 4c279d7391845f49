----------------------------- MODULE Inventory -----------------------------
(***************************************************************************)
(* What order placement promises, with every lock, transaction and retry   *)
(* hidden: an order is placed in ONE step.  In that step each product it   *)
(* names is on sale and has the quantity ordered in stock, its stock drops *)
(* by exactly that quantity, and the unit price written into the order is  *)
(* the price of that very moment.  A request places at most one order, and *)
(* no order is ever withdrawn.  Nothing else touches an order; only an     *)
(* administrator touches the stock of a product otherwise.                 *)
(*                                                                         *)
(* This is the contract claimed by the comment of OrderService.create      *)
(* (src/src/modules/orders/services/order.service.ts:32-52).  OrderTx      *)
(* implements it; see OrderTx!PlacesOrdersAtomically.                      *)
(***************************************************************************)
EXTENDS Integers

CONSTANTS
    Request,    \* the order requests the system receives
    Row,        \* the rows of the products table
    MaxInt      \* the largest value of the column products.stock

VARIABLES
    stock,      \* stock[r]: units of product r on the shelf
    price,      \* price[r]: its price in cents
    listed,     \* listed[r]: the row is not soft-deleted
    orders      \* the placed orders

vars == <<stock, price, listed, orders>>

Quantities == [Row -> 0..MaxInt]

Init ==
    /\ stock \in Quantities
    /\ price \in [Row -> Nat]
    /\ listed \in [Row -> BOOLEAN]
    /\ orders = {}

\* Request q takes qty[r] units of every row r, all of them or none.
PlaceOrder(q, qty) ==
    /\ \A o \in orders : o.id # q
    /\ \E r \in Row : qty[r] > 0
    /\ \A r \in Row : qty[r] > 0 => listed[r] /\ qty[r] <= stock[r]
    /\ stock' = [r \in Row |-> stock[r] - qty[r]]
    /\ orders' = orders \cup
         {[id |-> q, qty |-> qty,
           unitPrice |-> [r \in Row |-> IF qty[r] > 0 THEN price[r] ELSE 0]]}
    /\ UNCHANGED <<price, listed>>

\* An administrator sets the stock and the price of a product.
UpdateRow(r) ==
    /\ stock' \in Quantities
    /\ price' \in [Row -> Nat]
    /\ \A x \in Row \ {r} : stock'[x] = stock[x] /\ price'[x] = price[x]
    /\ UNCHANGED <<listed, orders>>

\* An administrator takes a product off sale.
Delist(r) ==
    /\ listed' = [listed EXCEPT ![r] = FALSE]
    /\ UNCHANGED <<stock, price, orders>>

Next ==
    \/ \E q \in Request, qty \in Quantities : PlaceOrder(q, qty)
    \/ \E r \in Row : UpdateRow(r) \/ Delist(r)

Spec == Init /\ [][Next]_vars
=============================================================================
