---------------------------- MODULE OrderCheckout ----------------------------
(***************************************************************************)
(* Carts, checkout, payment links and the life of an order: the order      *)
(* conversation of tg_bot/handlers/order.py with its helper modules        *)
(* (order_cart, order_delivery_checkout, order_gift), the cancellation     *)
(* conversation of user_panel.py and the order buttons of admin_panel.py,  *)
(* over order_service.py, cart_service.py and payment_service.py.          *)
(*                                                                         *)
(* The bot handles one update at a time, so a handler never interleaves    *)
(* with another handler.  It does interleave, at every await, with the     *)
(* periodic flush of the persisted session, with exceptions, with a crash  *)
(* of the process, and with the catalogue sync a starting process runs in  *)
(* its post_init: a rolling update stops the old container only when the   *)
(* new one is ready.  The two handlers that write several things           *)
(* (finalize_order_and_pay and the refilling of a cart) are therefore the  *)
(* steps of a task, and every other handler is one action.                 *)
(***************************************************************************)
EXTENDS CartService, OrderDomain, Sequences

CONSTANTS
  Users,
  DeliveryPrices,          \* prices a delivery choice may have
  GiftKinds,               \* answers to the gift question
  None,                    \* no user, order, amount, choice or link
  ItemRowsLoad,            \* get_full_order_details can build its OrderItems
  OrderHasDeliveryFields,  \* Order has the fields the admin notice reads
  AdminTargets,            \* bot_data names a chat to notify of new orders
  AutoApprove,             \* feature flag auto_approve_orders
  MaxOrders, MaxFaults, MaxSyncs, MaxDays   \* bounds

ASSUME OptionAssumption ==
  /\ ItemRowsLoad \in BOOLEAN
  /\ OrderHasDeliveryFields \in BOOLEAN
  /\ AdminTargets \in BOOLEAN
  /\ AutoApprove \in BOOLEAN
  /\ GiftKinds \subseteq {"for_me", "present", "present_with_card"}

ASSUME BoundAssumption ==
  /\ MaxOrders \in Nat
  /\ MaxFaults \in Nat
  /\ MaxSyncs \in Nat
  /\ MaxDays \in Nat

Amounts  == {Goods(lines) + price : lines \in Lines, price \in DeliveryPrices}
OrderIds == 1 .. MaxOrders

ASSUME MoneyAssumption ==
  /\ 0 \in DeliveryPrices /\ DeliveryPrices \subseteq Int
  /\ \A lines \in Lines : Goods(lines) \in Int

ASSUME NoneAssumption ==
  /\ None \notin Users \cup OrderIds \cup Amounts \cup DeliveryPrices \cup Products
  /\ None \notin GiftKinds \cup {"new", "edit", "change", "repeat"}

VARIABLES
  \* the database
  orders,      \* table orders with its order_items, by id
  cart,        \* table cart_items, by user
  avail,       \* products.is_available
  variants,    \* prices in product_variants, by product
  \* memory of the bot process
  conv,        \* state of order_conversation, by user
  session,     \* the checkout keys of context.user_data, by user
  cancelling,  \* order the cancellation conversation asks a reason for
  task,        \* the running multi-step handler
  syncing,     \* product whose variants the catalogue sync has deleted
  \* the pickle file
  stored,      \* conv and session as last flushed
  \* history and bounds
  ordered,     \* the user's cart rows have already been written to an order
  faults, syncs, days

database == <<orders, cart>>
catalogue == <<avail, variants, syncing, syncs, days>>
chat == <<conv, session, cancelling>>
disk == <<stored, faults>>
vars == <<orders, cart, avail, variants, conv, session, cancelling, task,
          syncing, stored, ordered, faults, syncs, days>>

ConvStates == {"END", "SHOPPING", "CART_VIEW", "DELIVERY_METHOD",
               "DELIVERY_WEBAPP", "ASKING_GIFT", "ORDER_CREATED"}

Orders == [user : Users, status : Statuses, items : Lines, total : Amounts,
           delivery : DeliveryPrices, gift : GiftKinds,
           payUrl : Amounts \cup {None}]   \* the amount the link charges

\* editing_order_id, current_active_order_id, temp_delivery_data
Sessions == [editing  : OrderIds \cup {None},
             active   : OrderIds \cup {None},
             delivery : DeliveryPrices \cup {None}]

EmptySession == [editing |-> None, active |-> None, delivery |-> None]

\* hidden is no variable of the code: the products of the cart that the
\* snapshot lines does not show.
Tasks == [pc       : {"idle", "persist", "forget", "clear", "pay", "link",
                      "present", "approve", "empty", "refill"},
          kind     : {"new", "edit", "change", "repeat", None},
          user     : Users \cup {None},
          order    : OrderIds \cup {None},
          lines    : Lines,
          hidden   : SUBSET Products,
          total    : Amounts \cup {None},
          delivery : DeliveryPrices \cup {None},
          gift     : GiftKinds \cup {None},
          link     : Amounts \cup {None}]

Idle == [pc |-> "idle", kind |-> None, user |-> None, order |-> None,
         lines |-> EmptyCart, hidden |-> {}, total |-> None,
         delivery |-> None, gift |-> None, link |-> None]

OrdersType == orders \in Seq(Orders) /\ Len(orders) <= MaxOrders

CartType == cart \in [Users -> Carts] /\ ordered \in [Users -> BOOLEAN]

CatalogueType ==
  /\ avail \in [Products -> BOOLEAN]
  /\ variants \in [Products -> SUBSET Prices]
  /\ syncing \in Products \cup {None}
  /\ syncs \in 0 .. MaxSyncs /\ days \in 0 .. MaxDays

ChatType ==
  /\ conv \in [Users -> ConvStates]
  /\ session \in [Users -> Sessions]
  /\ cancelling \in [Users -> OrderIds \cup {None}]

DiskType ==
  /\ stored \in [conv : [Users -> ConvStates], session : [Users -> Sessions]]
  /\ faults \in 0 .. MaxFaults

TypeOK ==
  /\ OrdersType
  /\ CartType
  /\ CatalogueType
  /\ ChatType
  /\ DiskType
  /\ task \in Tasks

Init ==
  /\ orders = <<>>
  /\ cart = [u \in Users |-> EmptyCart]
  /\ avail = [p \in Products |-> TRUE]
  /\ variants \in [Products -> SUBSET Prices \ {{}}]
  /\ conv = [u \in Users |-> "END"]
  /\ session = [u \in Users |-> EmptySession]
  /\ cancelling = [u \in Users |-> None]
  /\ task = Idle
  /\ syncing = None
  /\ stored = [conv |-> conv, session |-> session]
  /\ ordered = [u \in Users |-> FALSE]
  /\ faults = 0 /\ syncs = 0 /\ days = 0

------------------------------------------------------------------------------
(* Browsing and the cart.                                                  *)

\* Deliberate bug: concurrent_updates(True).
HandlesConcurrently(u, states) == conv[u] \in states

\* The dispatcher is free and u is in one of the given conversation states.
Handles(u, states) == task.pc = "idle" /\ conv[u] \in states

GoTo(u, state) == conv' = [conv EXCEPT ![u] = state]

\* clear_cart
EmptiesCart(u) ==
  /\ cart' = [cart EXCEPT ![u] = EmptyCart]
  /\ ordered' = [ordered EXCEPT ![u] = FALSE]

\* start_user_order: an entry point that is also re-entered from every state.
\* It keeps whatever checkout was under way in user_data.
StartOrdering(u) ==
  /\ task.pc = "idle"
  /\ GoTo(u, "SHOPPING")
  /\ UNCHANGED <<database, catalogue, session, cancelling, task, ordered, disk>>

\* change_quantity, add_to_cart, the quantity grids, the cart's plus and minus
\* buttons and undo, all of which end in update_item.
PutInCart(u, p, qty, saved) ==
  /\ Handles(u, {"SHOPPING", "CART_VIEW"})
  /\ saved \in CurrentPrices(variants, p)
  /\ cart' = [cart EXCEPT ![u] = UpdateItem(@, p, qty, saved)]
  /\ ordered' = [ordered EXCEPT ![u] = FALSE]
  /\ UNCHANGED <<orders, catalogue, chat, task, disk>>

\* internal_cart_remove and the decrement of a single piece.
TakeFromCart(u, p) ==
  /\ Handles(u, {"SHOPPING", "CART_VIEW"})
  /\ p \in DOMAIN cart[u]
  /\ cart' = [cart EXCEPT ![u] = RemoveItem(@, p)]
  /\ ordered' = [ordered EXCEPT ![u] = FALSE]
  /\ UNCHANGED <<orders, catalogue, chat, task, disk>>

\* show_cart, also reached with the back buttons of the delivery screens: an
\* unavailable product only adds a warning to the screen.
ShowCart(u) ==
  /\ Handles(u, ConvStates \ {"END", "ORDER_CREATED"})
  /\ \/ /\ StaleRows(cart[u], avail, variants) # {}
        /\ EmptiesCart(u)
        /\ GoTo(u, "SHOPPING")
     \/ /\ StaleRows(cart[u], avail, variants) = {}
        /\ GoTo(u, "CART_VIEW")
        /\ UNCHANGED <<cart, ordered>>
  /\ UNCHANGED <<orders, catalogue, session, cancelling, task, disk>>

\* handle_cart_interaction, CB_CLEAR_CART
ClearCartButton(u) ==
  /\ Handles(u, {"CART_VIEW"})
  /\ EmptiesCart(u)
  /\ UNCHANGED <<orders, catalogue, chat, task, disk>>

\* handle_cart_interaction, CB_CHECKOUT.  A cart with an unavailable or without
\* a priced product stays on the screen: no change of state.
Checkout(u) ==
  /\ Handles(u, {"CART_VIEW"})
  /\ \/ /\ StaleRows(cart[u], avail, variants) # {}
        /\ EmptiesCart(u)
        /\ GoTo(u, "END")
     \/ /\ StaleRows(cart[u], avail, variants) = {}
        /\ UnavailableRows(cart[u], avail) = {}
        /\ GetCart(cart[u], variants) # EmptyCart
        /\ GoTo(u, "DELIVERY_METHOD")
        /\ UNCHANGED <<cart, ordered>>
  /\ UNCHANGED <<orders, catalogue, session, cancelling, task, disk>>

------------------------------------------------------------------------------
(* Delivery and gift.                                                      *)

\* handle_cdek_selection, handle_yandex_selection
OpenDeliveryMap(u) ==
  /\ Handles(u, {"DELIVERY_METHOD"})
  /\ GoTo(u, "DELIVERY_WEBAPP")
  /\ UNCHANGED <<database, catalogue, session, cancelling, task, ordered, disk>>

\* prompt_gift_choice with the delivery data a choice of delivery computed.
PromptGift(u, price) ==
  /\ session' = [session EXCEPT ![u].delivery = price]
  /\ GoTo(u, "ASKING_GIFT")

\* finalize_pickup_choice: picking the order up costs nothing.
ChoosePickup(u) ==
  /\ Handles(u, {"DELIVERY_METHOD"})
  /\ PromptGift(u, 0)
  /\ UNCHANGED <<database, catalogue, cancelling, task, ordered, disk>>

\* handle_webapp_data: the point and the price picked on the map, or a payload
\* that does not parse and ends the conversation.
PickOnMap(u, price) ==
  /\ Handles(u, {"DELIVERY_WEBAPP"})
  /\ \/ PromptGift(u, price)
     \/ GoTo(u, "END") /\ UNCHANGED session
  /\ UNCHANGED <<database, catalogue, cancelling, task, ordered, disk>>

\* use_saved_address: the price of a CDEK point is left at 0, a Yandex point is
\* priced by the server.  Without a saved address the map stays open.
UseSavedAddress(u, price) ==
  /\ Handles(u, {"DELIVERY_WEBAPP"})
  /\ PromptGift(u, price)
  /\ UNCHANGED <<database, catalogue, cancelling, task, ordered, disk>>

\* handle_gift_choice, handle_gift_comment or handle_gift_skip after the
\* delivery data is gone, and finalize_order_and_pay with nothing to order.
AbandonCheckout(u) ==
  /\ Handles(u, {"ASKING_GIFT"})
  /\ \/ session[u].delivery = None
     \/ GetCart(cart[u], variants) = EmptyCart
  /\ GoTo(u, "END")
  /\ UNCHANGED <<database, catalogue, session, cancelling, task, ordered, disk>>

\* The same handlers up to the first write of finalize_order_and_pay:
\* calculate_order_totals takes the snapshot everything after it uses.
AnswerGift(u, gift) ==
  LET lines == GetCart(cart[u], variants)
      edit  == session[u].editing # None
  IN  /\ Handles(u, {"ASKING_GIFT"})
      /\ session[u].delivery # None
      /\ lines # EmptyCart
      /\ edit \/ Len(orders) < MaxOrders
      /\ task' = [Idle EXCEPT !.pc = "persist",
                              !.kind = IF edit THEN "edit" ELSE "new",
                              !.user = u,
                              !.lines = lines,
                              !.hidden = DOMAIN cart[u] \ DOMAIN lines,
                              !.total = Goods(lines) + session[u].delivery,
                              !.delivery = session[u].delivery,
                              !.gift = gift]
      /\ UNCHANGED <<database, catalogue, chat, ordered, disk>>

------------------------------------------------------------------------------
(* finalize_order_and_pay, one step per await that writes.                 *)

At(pc) == task.pc = pc

GoOn(pc) == task' = [task EXCEPT !.pc = pc]

\* The handler returns (or raises): the dispatcher takes the next update.
HandlerEnds == task' = Idle

\* persist_order without editing_order_id: create_order refuses a total that is
\* not positive, and finalize_order_and_pay ends the conversation.
RejectTotal ==
  /\ At("persist") /\ task.kind = "new"
  /\ task.total <= 0
  /\ HandlerEnds
  /\ GoTo(task.user, "END")
  /\ UNCHANGED <<database, catalogue, session, cancelling, ordered, disk>>

\* persist_order without editing_order_id: one transaction for order and items.
PersistNew ==
  /\ At("persist") /\ task.kind = "new"
  /\ task.total > 0
  /\ orders' = Append(orders, [user |-> task.user, status |-> "ACCEPTED",
                               items |-> task.lines, total |-> task.total,
                               delivery |-> task.delivery, gift |-> task.gift,
                               payUrl |-> None])
  /\ ordered' = [ordered EXCEPT ![task.user] = TRUE]
  /\ task' = [task EXCEPT !.pc = "clear", !.order = Len(orders) + 1]
  /\ UNCHANGED <<cart, catalogue, chat, disk>>

\* Deliberate bugs: the link survives; the items are rewritten too.
RedeliveredWithOldLink(order) ==
  [order EXCEPT !.total = task.total, !.delivery = task.delivery, !.gift = task.gift]
RedeliveredWithItems(order) ==
  [order EXCEPT !.total = task.total, !.delivery = task.delivery, !.gift = task.gift,
                !.payUrl = None, !.items = task.lines]

\* update_order_delivery rewrites the money and the gift of the order, not its
\* items, and drops the link unless the order is paid.
Redelivered(order) ==
  [order EXCEPT !.total = task.total, !.delivery = task.delivery, !.gift = task.gift,
                !.payUrl = IF order.status = "PAID" THEN @ ELSE None]

\* persist_order with editing_order_id: the UPDATE commits ...
PersistEdit ==
  LET i == session[task.user].editing
  IN  /\ At("persist") /\ task.kind = "edit"
      /\ orders' = [orders EXCEPT ![i] = Redelivered(@)]
      /\ task' = [task EXCEPT !.pc = "forget", !.order = i]
      /\ UNCHANGED <<cart, catalogue, chat, ordered, disk>>

\* ... and when the call returns, which it may not, the id is forgotten.
ForgetEditing ==
  /\ At("forget")
  /\ session' = [session EXCEPT ![task.user].editing = None]
  /\ GoOn("clear")
  /\ UNCHANGED <<database, catalogue, conv, cancelling, ordered, disk>>

\* clear_cart and current_active_order_id.
ClearCart ==
  /\ At("clear")
  /\ EmptiesCart(task.user)
  /\ session' = [session EXCEPT ![task.user].active = task.order]
  /\ GoOn("pay")
  /\ UNCHANGED <<orders, catalogue, conv, cancelling, disk>>

\* create_payment_url: a link for the amount it was given, or an error marker.
CreatePayment ==
  /\ At("pay")
  /\ \/ task' = [task EXCEPT !.pc = "link", !.link = task.total]
     \/ GoOn("present")
  /\ UNCHANGED <<database, catalogue, chat, ordered, disk>>

\* set_payment_url: no look at the current status.
SetPaymentUrl ==
  /\ At("link")
  /\ orders' = [orders EXCEPT ![task.order].payUrl = task.link,
                              ![task.order].status = "AWAITING_PAYMENT"]
  /\ GoOn("present")
  /\ UNCHANGED <<cart, catalogue, chat, ordered, disk>>

\* Deliberate bug: the conversation is over once the order is placed.
ShowsNothing(u) == GoTo(u, "END")

\* return order_created_state
ShowsOrder(u) == GoTo(u, "ORDER_CREATED")

\* Deliberate bug: update_order_status without validate_transition.
SetsAnyStatus(i, status) == orders' = [orders EXCEPT ![i].status = status]

\* update_order_status
UpdateOrderStatus(i, status) ==
  /\ CanTransition(orders[i].status, status)
  /\ orders' = [orders EXCEPT ![i].status = status]

\* _notify_admins_about_new_order, which with somebody to notify reads
\* order.delivery_type and order.delivery_address.
NoticeRaises ==
  task.kind = "new" /\ AdminTargets /\ ~OrderHasDeliveryFields

\* send_order_success_message, then the notice for a new order.
Present ==
  /\ At("present")
  /\ \/ /\ NoticeRaises
        /\ HandlerEnds
        /\ UNCHANGED conv
     \/ /\ ~NoticeRaises
        /\ IF AutoApprove
             THEN GoOn("approve") /\ UNCHANGED conv
             ELSE HandlerEnds /\ ShowsOrder(task.user)
  /\ UNCHANGED <<database, catalogue, session, cancelling, ordered, disk>>

\* The auto_approve_orders branch: update_order_status raises when the move is
\* not legal, and the handler with it.
Approve ==
  /\ At("approve")
  /\ \/ /\ UpdateOrderStatus(task.order, "AWAITING_PAYMENT")
        /\ ShowsOrder(task.user)
     \/ /\ ~CanTransition(orders[task.order].status, "AWAITING_PAYMENT")
        /\ UNCHANGED <<orders, conv>>
  /\ HandlerEnds
  /\ UNCHANGED <<cart, catalogue, session, cancelling, ordered, disk>>

------------------------------------------------------------------------------
(* The screen of a created order, and repeating an old one.                *)

\* handle_order_created_actions, cancel: whatever the order's status by now.
CancelOnScreen(u) ==
  /\ Handles(u, {"ORDER_CREATED"})
  /\ ItemRowsLoad /\ session[u].active # None
  /\ orders' = [orders EXCEPT ![session[u].active].status = "CANCELLED"]
  /\ UNCHANGED <<cart, catalogue, chat, task, ordered, disk>>

\* handle_order_created_actions without an active order.
LoseOrderScreen(u) ==
  /\ Handles(u, {"ORDER_CREATED"})
  /\ session[u].active = None
  /\ GoTo(u, "END")
  /\ UNCHANGED <<database, catalogue, session, cancelling, task, ordered, disk>>

\* handle_order_created_actions, change delivery: up to the first write.
ChangeDelivery(u) ==
  LET i == session[u].active
  IN  /\ Handles(u, {"ORDER_CREATED"})
      /\ ItemRowsLoad /\ i # None
      /\ task' = [Idle EXCEPT !.pc = "empty", !.kind = "change", !.user = u,
                              !.order = i, !.lines = orders[i].items]
      /\ UNCHANGED <<database, catalogue, chat, ordered, disk>>

\* handle_repeat_order: an entry point.  Only the goods still offered go into
\* the cart; with none left the catalogue is shown.
RepeatOrder(u, i) ==
  LET offered == {p \in DOMAIN orders[i].items : avail[p]}
  IN  /\ task.pc = "idle" /\ ItemRowsLoad
      /\ orders[i].user = u /\ orders[i].status \in Repeatable
      /\ \/ /\ offered = {}
            /\ GoTo(u, "SHOPPING")
            /\ UNCHANGED task
         \/ /\ offered # {}
            /\ task' = [Idle EXCEPT !.pc = "empty", !.kind = "repeat",
                                    !.user = u, !.order = i,
                                    !.lines = Restrict(orders[i].items, offered)]
            /\ UNCHANGED conv
      /\ UNCHANGED <<database, catalogue, session, cancelling, ordered, disk>>

RefillClear ==
  /\ At("empty")
  /\ EmptiesCart(task.user)
  /\ GoOn("refill")
  /\ UNCHANGED <<orders, catalogue, chat, disk>>

\* Deliberate bug: the loop takes the same item again.
RefillItemAgain(p, saved) ==
  /\ At("refill")
  /\ p \in DOMAIN task.lines
  /\ saved \in CurrentPrices(variants, p)
  /\ cart' = [cart EXCEPT ![task.user] =
                UpdateItem(@, p, task.lines[p].qty, saved)]
  /\ UNCHANGED <<orders, catalogue, chat, task, ordered, disk>>

\* One update_item of the refilling loop.  The rows copied for a change of
\* delivery belong to an order that exists.
RefillItem(p, saved) ==
  /\ At("refill")
  /\ p \in DOMAIN task.lines
  /\ saved \in CurrentPrices(variants, p)
  /\ cart' = [cart EXCEPT ![task.user] =
                UpdateItem(@, p, task.lines[p].qty, saved)]
  /\ ordered' = [ordered EXCEPT ![task.user] = (task.kind = "change")]
  /\ task' = [task EXCEPT !.lines = Restrict(@, DOMAIN @ \ {p})]
  /\ UNCHANGED <<orders, catalogue, chat, disk>>

\* The end of the loop: editing_order_id and the delivery screen, or show_cart.
RefillDone ==
  /\ At("refill")
  /\ task.lines = EmptyCart
  /\ \/ /\ task.kind = "change"
        /\ session' = [session EXCEPT ![task.user].editing = task.order]
        /\ GoTo(task.user, "DELIVERY_METHOD")
     \/ /\ task.kind = "repeat"
        /\ GoTo(task.user, "CART_VIEW")
        /\ UNCHANGED session
  /\ HandlerEnds
  /\ UNCHANGED <<database, catalogue, cancelling, ordered, disk>>

\* edit_message_text raises after editing_order_id was set.
EditScreenFails ==
  /\ At("refill") /\ task.kind = "change"
  /\ task.lines = EmptyCart
  /\ faults < MaxFaults
  /\ session' = [session EXCEPT ![task.user].editing = task.order]
  /\ HandlerEnds
  /\ faults' = faults + 1
  /\ UNCHANGED <<database, catalogue, conv, cancelling, ordered, stored>>

------------------------------------------------------------------------------
(* Cancelling with a reason, the staff's buttons, leaving.                 *)

\* Deliberate bug: the details screen of any order can be opened.
PromptCancelOfAnyone(u, i) ==
  /\ task.pc = "idle" /\ ItemRowsLoad
  /\ cancelling' = [cancelling EXCEPT ![u] = i]
  /\ UNCHANGED <<database, catalogue, conv, session, task, ordered, disk>>

\* prompt_for_cancellation_reason, from a details screen of one's own order; the
\* screen may be older than the payment.
PromptCancel(u, i) ==
  /\ task.pc = "idle" /\ ItemRowsLoad
  /\ orders[i].user = u
  /\ cancelling' = [cancelling EXCEPT ![u] = i]
  /\ UNCHANGED <<database, catalogue, conv, session, task, ordered, disk>>

\* handle_cancellation_reason, however long after the prompt.
GiveCancelReason(u) ==
  /\ task.pc = "idle"
  /\ cancelling[u] # None
  /\ orders' = [orders EXCEPT ![cancelling[u]].status = "CANCELLED"]
  /\ cancelling' = [cancelling EXCEPT ![u] = None]
  /\ UNCHANGED <<cart, catalogue, conv, session, task, ordered, disk>>

\* exit_cancellation
KeepOrder(u) ==
  /\ task.pc = "idle"
  /\ cancelling[u] # None
  /\ cancelling' = [cancelling EXCEPT ![u] = None]
  /\ UNCHANGED <<database, catalogue, conv, session, task, ordered, disk>>

\* handle_order_action: the order is loaded first, then update_order_status.
StaffAction(action, i) ==
  /\ task.pc = "idle" /\ ItemRowsLoad
  /\ UpdateOrderStatus(i, StaffStatus[action])
  /\ UNCHANGED <<cart, catalogue, chat, task, ordered, disk>>

\* exit_to_user_main_menu
ExitToMainMenu(u) ==
  /\ Handles(u, ConvStates \ {"END"})
  /\ session' = [session EXCEPT ![u].delivery = None, ![u].editing = None]
  /\ GoTo(u, "END")
  /\ UNCHANGED <<database, catalogue, cancelling, task, ordered, disk>>

\* handle_logout_action: user_data.clear(); the conversations do not notice.
Logout(u) ==
  /\ task.pc = "idle"
  /\ session' = [session EXCEPT ![u] = EmptySession]
  /\ cancelling' = [cancelling EXCEPT ![u] = None]
  /\ UNCHANGED <<database, catalogue, conv, task, ordered, disk>>

------------------------------------------------------------------------------
(* What runs beside the handlers.                                          *)

\* _process_single_product_directory, in the handler of the staff's sync button
\* or in another process that starts: the product row is written and its
\* variants are deleted; the sync runs outside any transaction.
SyncWipe(p, available) ==
  /\ syncing = None /\ syncs < MaxSyncs
  /\ avail' = [avail EXCEPT ![p] = available]
  /\ variants' = [variants EXCEPT ![p] = {}]
  /\ syncing' = p
  /\ syncs' = syncs + 1
  /\ UNCHANGED <<database, days, chat, task, ordered, disk>>

\* _parse_and_insert_variants: none when the price block does not parse or the
\* sync of this product fails.
SyncFill(prices) ==
  /\ syncing # None
  /\ variants' = [variants EXCEPT ![syncing] = prices]
  /\ syncing' = None
  /\ UNCHANGED <<database, avail, syncs, days, chat, task, ordered, disk>>

\* 24 hours pass: every row of every cart is old now.
DayPasses ==
  /\ days < MaxDays
  /\ days' = days + 1
  /\ cart' = [u \in Users |->
                [p \in DOMAIN cart[u] |-> [cart[u][p] EXCEPT !.old = TRUE]]]
  /\ UNCHANGED <<orders, avail, variants, syncing, syncs, chat, task, ordered, disk>>

\* An exception no handler catches: what was awaited before it stays done, the
\* conversation keeps its state, the dispatcher goes on.
HandlerRaises ==
  /\ task.pc # "idle" /\ faults < MaxFaults
  /\ HandlerEnds
  /\ faults' = faults + 1
  /\ UNCHANGED <<database, catalogue, chat, ordered, stored>>

\* PicklePersistence, every update_interval or at a clean stop.
Flush ==
  /\ faults < MaxFaults
  /\ stored' = [conv |-> conv, session |-> session]
  /\ UNCHANGED <<database, catalogue, chat, task, ordered, faults>>

\* The process dies and starts again from the pickle file.  The cancellation
\* conversation and a catalogue sync under way are not persisted.
Crash ==
  /\ faults < MaxFaults
  /\ faults' = faults + 1
  /\ conv' = stored.conv
  /\ session' = stored.session
  /\ cancelling' = [u \in Users |-> None]
  /\ task' = Idle
  /\ syncing' = None
  /\ UNCHANGED <<database, avail, variants, syncs, days, stored, ordered>>

------------------------------------------------------------------------------

Customer(u) ==
  \/ StartOrdering(u)
  \/ \E p \in Products, qty \in 1 .. MaxQty, saved \in Prices \cup {0} :
       PutInCart(u, p, qty, saved)
  \/ \E p \in Products : TakeFromCart(u, p)
  \/ ShowCart(u)
  \/ ClearCartButton(u)
  \/ Checkout(u)
  \/ OpenDeliveryMap(u)
  \/ ChoosePickup(u)
  \/ \E price \in DeliveryPrices : PickOnMap(u, price) \/ UseSavedAddress(u, price)
  \/ AbandonCheckout(u)
  \/ \E gift \in GiftKinds : AnswerGift(u, gift)
  \/ CancelOnScreen(u)
  \/ LoseOrderScreen(u)
  \/ ChangeDelivery(u)
  \/ \E i \in DOMAIN orders : RepeatOrder(u, i)
  \/ \E i \in DOMAIN orders : PromptCancel(u, i)
  \/ GiveCancelReason(u)
  \/ KeepOrder(u)
  \/ ExitToMainMenu(u)
  \/ Logout(u)

\* The steps of the handler that is running.
TaskStep ==
  \/ RejectTotal
  \/ PersistNew
  \/ PersistEdit
  \/ ForgetEditing
  \/ ClearCart
  \/ CreatePayment
  \/ SetPaymentUrl
  \/ Present
  \/ Approve
  \/ RefillClear
  \/ \E p \in Products, saved \in Prices \cup {0} : RefillItem(p, saved)
  \/ RefillDone

Staff == \E action \in StaffActions, i \in DOMAIN orders : StaffAction(action, i)

Environment ==
  \/ \E p \in Products, available \in BOOLEAN : SyncWipe(p, available)
  \/ \E prices \in SUBSET Prices : SyncFill(prices)
  \/ DayPasses
  \/ EditScreenFails
  \/ HandlerRaises
  \/ Flush
  \/ Crash

Next ==
  \/ \E u \in Users : Customer(u)
  \/ TaskStep
  \/ Staff
  \/ Environment

Spec == Init /\ [][Next]_vars

\* The event loop resumes a handler whose awaited call returned; every call it
\* awaits (pool, HTTP client, Bot API) has a timeout.
FairSpec == Spec /\ WF_vars(TaskStep)

------------------------------------------------------------------------------
(* Properties.                                                             *)

UnpaidWithLink(i) == orders[i].status \in Unpaid /\ orders[i].payUrl # None

\* The pay button of an unpaid order charges what the order costs now: the link
\* is replaced or dropped whenever update_order_delivery changes the total, and
\* no failure or crash between the two writes leaves the old link behind.
PayButtonChargesTotal ==
  \A i \in DOMAIN orders : UnpaidWithLink(i) => orders[i].payUrl = orders[i].total

\* The rows of a cart are the given lines, and beside them the hidden ones.
CartIs(rows, lines, hidden) ==
  /\ DOMAIN rows = DOMAIN lines \cup hidden
  /\ \A p \in DOMAIN lines : rows[p].qty = lines[p].qty

\* Until create_order commits, the whole cart is still there; what clear_cart
\* then deletes is in the order, piece for piece, save the rows that the
\* catalogue did not let get_cart see at the snapshot (ClearedGoodsOrdered is
\* about those); and the order has these lines until the handler ends.  So no
\* exception, crash, sync or other customer's update between the steps makes
\* the statement that empties the cart delete goods that were shown to the
\* customer and not ordered.
CheckoutKeepsGoods ==
  task.kind = "new" =>
    /\ At("persist") => CartIs(cart[task.user], task.lines, task.hidden)
    /\ At("clear") =>
         CartIs(cart[task.user], orders[task.order].items, task.hidden)
    /\ ~At("persist") => orders[task.order].items = task.lines

\* The order the screen acts on, the order being edited and the order being
\* cancelled exist and belong to that customer, in memory and after a restart
\* from the pickle file.
OwnsOrder(u, i) == i # None => i \in DOMAIN orders /\ orders[i].user = u

SessionPointsAtOwnOrder ==
  \A u \in Users :
    /\ OwnsOrder(u, session[u].editing) /\ OwnsOrder(u, session[u].active)
    /\ OwnsOrder(u, stored.session[u].editing)
    /\ OwnsOrder(u, stored.session[u].active)
    /\ OwnsOrder(u, cancelling[u])

\* What a running handler knows about its own variables, and the database about
\* the handler: the strengthening that makes the invariants above inductive.
CheckoutSteps == {"forget", "clear", "pay", "link", "present", "approve"}

TaskInv ==
  /\ IF At("idle") THEN task = Idle ELSE task.user \in Users
  /\ At("persist") =>
       /\ task.kind \in {"new", "edit"}
       /\ task.total \in Amounts /\ task.delivery \in DeliveryPrices
       /\ task.gift \in GiftKinds
       /\ task.kind = "new" => Len(orders) < MaxOrders
       /\ task.kind = "edit" => session[task.user].editing # None
  /\ task.pc \in CheckoutSteps =>
       /\ task.kind \in {"new", "edit"}
       /\ OwnsOrder(task.user, task.order) /\ task.order # None
       /\ task.total \in Amounts
  /\ task.pc \in {"forget", "clear", "pay", "link"} =>
       /\ task.total = orders[task.order].total
       /\ task.kind = "new" => orders[task.order].status = "ACCEPTED"
  /\ At("forget") => task.kind = "edit"
  /\ At("link") => task.link = task.total
  /\ task.pc \in {"empty", "refill"} =>
       /\ task.kind \in {"change", "repeat"}
       /\ OwnsOrder(task.user, task.order) /\ task.order # None

TypeInv == TypeOK /\ TaskInv /\ SessionPointsAtOwnOrder

IInv ==
  /\ TypeInv
  /\ PayButtonChargesTotal
  /\ CheckoutKeepsGoods

Finished == {"COMPLETED", "CANCELLED"}

\* An order that was completed or cancelled stays so, but for one way: its own
\* customer changes its delivery and the new payment link re-opens it (which
\* StatusMovesAreLegal reports).  No new checkout, staff button, repeat, old
\* screen, sync, failure or other customer brings it back.
OnlyItsRedeliveryReopens ==
  [][\A i \in DOMAIN orders :
       orders[i].status \in Finished /\ orders'[i].status \notin Finished =>
         /\ task.kind = "edit" /\ task.order = i
         /\ task.user = orders[i].user]_vars

\* The detailed system keeps the promises of the order book.
BookOf(table) == [i \in DOMAIN table |-> [user   |-> table[i].user,
                                         items  |-> table[i].items,
                                         status |-> table[i].status]]

Book == INSTANCE OrderBook WITH Baskets <- Lines, book <- BookOf(orders)

ImplementsOrderBook == Book!Spec

\* The dispatcher, which serves every customer, is always freed again.
DispatcherFreed == []<>(task.pc = "idle")

\* A customer whose order was written ends up on the screen of that order, the
\* one with the buttons handle_order_created_actions answers.
CheckoutAnswered ==
  \A u \in Users :
    (At("clear") /\ task.user = u) ~> (conv[u] = "ORDER_CREATED")

------------------------------------------------------------------------------
(* What docs, comments and tests say and the code does not do.             *)


\* MANIFEST.md, Graceful Shutdown: a stop, and with it a deployment, loses
\* nothing from a cart.  The rows a checkout deletes are in its order.
ClearedGoodsOrdered ==
  At("clear") /\ task.kind = "new" =>
    DOMAIN cart[task.user] \subseteq DOMAIN orders[task.order].items

\* MANIFEST.md, Retry & Idempotency: a repeated request creates no duplicate.
\* The rows of a cart become at most one order: create_order never writes rows
\* that an earlier order already holds.
OneOrderPerCart ==
  [][Len(orders') > Len(orders) => ~ordered[task.user]]_vars
==============================================================================
