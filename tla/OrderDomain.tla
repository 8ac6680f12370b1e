----------------------------- MODULE OrderDomain -----------------------------
(***************************************************************************)
(* The order aggregate of tg_bot/domain/order.py: its statuses, the legal  *)
(* moves between them, and which moves the admin panel offers.  A module   *)
(* of constant definitions; OrderBook and OrderCheckout give it state.     *)
(***************************************************************************)

Statuses == {"ACCEPTED", "AWAITING_PAYMENT", "PAID", "ASSEMBLING",
             "READY_FOR_PICKUP", "SHIPPED", "COMPLETED", "CANCELLED"}

\* Order.VALID_TRANSITIONS: the statuses reachable in one move from each.
ValidTransitions ==
  [ ACCEPTED         |-> {"AWAITING_PAYMENT", "CANCELLED"},
    AWAITING_PAYMENT |-> {"PAID", "CANCELLED"},
    PAID             |-> {"ASSEMBLING", "CANCELLED"},
    ASSEMBLING       |-> {"READY_FOR_PICKUP", "SHIPPED", "CANCELLED"},
    READY_FOR_PICKUP |-> {"COMPLETED", "CANCELLED"},
    SHIPPED          |-> {"COMPLETED", "CANCELLED"},
    COMPLETED        |-> {},
    CANCELLED        |-> {} ]

\* Order.can_transition
CanTransition(current, new) ==
  current \in Statuses /\ new \in ValidTransitions[current]

\* status_map of handle_order_action: what each admin button asks for.
StaffStatus ==
  [ set_paid      |-> "PAID",
    set_shipped   |-> "SHIPPED",
    set_ready     |-> "READY_FOR_PICKUP",
    set_completed |-> "COMPLETED",
    set_cancelled |-> "CANCELLED" ]

StaffActions == DOMAIN StaffStatus

\* is_unpaid of get_user_order_details_keyboard: the customer is shown the
\* pay link and the cancel button exactly in these statuses.
Unpaid == {"ACCEPTED", "AWAITING_PAYMENT"}

\* repeatable_statuses of the same keyboard: where "repeat" is offered.
Repeatable == {"PAID", "SHIPPED", "READY_FOR_PICKUP", "COMPLETED", "CANCELLED"}
==============================================================================
