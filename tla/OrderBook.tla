------------------------------ MODULE OrderBook ------------------------------
(***************************************************************************)
(* What the shop promises about its orders, without carts, conversations,  *)
(* delivery or failures: the book only grows, an entry keeps its customer  *)
(* and its goods for ever, and its status moves along the graph of         *)
(* domain/order.py except for the two writes of order_service.py that do   *)
(* not consult it: a payment link puts an order (back) to AWAITING_PAYMENT *)
(* and its customer may cancel it at any time.                             *)
(***************************************************************************)
EXTENDS Sequences, Naturals, OrderDomain

CONSTANTS Users, Baskets, MaxOrders

VARIABLE book   \* the orders, oldest first

Entries == [user : Users, items : Baskets, status : Statuses]

TypeOK == book \in Seq(Entries) /\ Len(book) <= MaxOrders

Init == book = <<>>

\* create_order
Place(u, items) ==
  /\ Len(book) < MaxOrders
  /\ book' = Append(book, [user |-> u, items |-> items, status |-> "ACCEPTED"])

SetStatus(i, status) == book' = [book EXCEPT ![i].status = status]

\* update_order_status
Advance(i) == \E status \in Statuses :
                /\ CanTransition(book[i].status, status)
                /\ SetStatus(i, status)

\* set_payment_url
AwaitPayment(i) == SetStatus(i, "AWAITING_PAYMENT")

\* cancel_order_with_reason
CustomerCancels(i) == SetStatus(i, "CANCELLED")

Next ==
  \/ \E u \in Users, items \in Baskets : Place(u, items)
  \/ \E i \in DOMAIN book : Advance(i) \/ AwaitPayment(i) \/ CustomerCancels(i)

Spec == Init /\ [][Next]_book
==============================================================================
