------------------------ MODULE OrderCheckout_proofs -------------------------
(***************************************************************************)
(* Proofs about OrderCheckout for every catalogue, every number of         *)
(* customers and orders, and every bound.                                  *)
(***************************************************************************)
EXTENDS OrderCheckout, SequenceTheorems, WellFoundedInduction, TLAPS

(* Partial functions, as carts and order lines are.                        *)

LEMMA PartialIntro ==
  ASSUME NEW S, NEW T, NEW D \in SUBSET S, NEW f \in [D -> T]
  PROVE  f \in PartialFunctions(S, T)
BY DEF PartialFunctions

LEMMA PartialElim ==
  ASSUME NEW S, NEW T, NEW f \in PartialFunctions(S, T)
  PROVE  DOMAIN f \in SUBSET S /\ f \in [DOMAIN f -> T]
<1>1. PICK D \in SUBSET S : f \in [D -> T]
  BY DEF PartialFunctions
<1> QED
  BY <1>1

LEMMA LinesElim ==
  ASSUME NEW l \in Lines
  PROVE  /\ DOMAIN l \in SUBSET Products
         /\ l \in [DOMAIN l -> [qty : 1 .. MaxQty, price : Prices]]
BY PartialElim DEF Lines

LEMMA EmptyCartType == EmptyCart \in Carts /\ EmptyCart \in Lines
<1>1. ASSUME NEW T PROVE EmptyCart \in PartialFunctions(Products, T)
  <2>1. EmptyCart \in [{} -> T]
    BY DEF EmptyCart
  <2> QED
    BY <2>1, PartialIntro
<1> QED
  BY <1>1 DEF Carts, Lines

\* The cheapest variant is one of the product's variants.
LEMMA MinInPrices ==
  ASSUME NEW S \in SUBSET Prices, S # {}
  PROVE  Min(S) \in S
<1>1. S \subseteq Nat
  BY CatalogueAssumption
<1>2. IsWellFoundedOn(OpToRel(<, Nat), Nat)
  BY NatLessThanWellFounded
<1>3. PICK x \in S : \A y \in S : <<y, x>> \notin OpToRel(<, Nat)
  BY <1>1, <1>2, WFMin, Zenon
<1>4. ASSUME NEW y \in S PROVE x =< y
  <2>1. <<y, x>> \in Nat \X Nat /\ x \in Nat /\ y \in Nat
    BY <1>1
  <2>2. ~(y < x)
    BY <1>3, <2>1, Zenon DEF OpToRel
  <2> QED
    BY <2>1, <2>2
<1> QED
  BY <1>4 DEF Min

\* The snapshot get_cart returns is a list of order lines.
LEMMA GetCartType ==
  ASSUME NEW c \in Carts, NEW v \in [Products -> SUBSET Prices]
  PROVE  GetCart(c, v) \in Lines
<1> DEFINE D == {q \in DOMAIN c : v[q] # {}}
<1>1. DOMAIN c \in SUBSET Products /\ c \in [DOMAIN c -> Rows]
  BY PartialElim DEF Carts
<1>2. \A p \in D : c[p].qty \in 1 .. MaxQty
  BY <1>1 DEF Rows
<1>3. \A p \in D : Min(v[p]) \in Prices
  BY <1>1, MinInPrices
<1>4. GetCart(c, v) \in [D -> [qty : 1 .. MaxQty, price : Prices]]
  BY <1>2, <1>3 DEF GetCart
<1> QED
  BY <1>1, <1>4, PartialIntro DEF Lines

LEMMA UpdateItemType ==
  ASSUME NEW c \in Carts, NEW p \in Products, NEW qty \in 1 .. MaxQty,
         NEW saved \in Prices \cup {0}
  PROVE  UpdateItem(c, p, qty, saved) \in Carts
<1>1. DOMAIN c \in SUBSET Products /\ c \in [DOMAIN c -> Rows]
  BY PartialElim DEF Carts
<1>2. UpdateItem(c, p, qty, saved) \in [DOMAIN c \cup {p} -> Rows]
  BY <1>1 DEF UpdateItem, Rows
<1> QED
  BY <1>1, <1>2, PartialIntro DEF Carts

\* A restriction of a partial function is one.
LEMMA RestrictType ==
  ASSUME NEW S, NEW T, NEW f \in PartialFunctions(S, T), NEW D \in SUBSET DOMAIN f
  PROVE  Restrict(f, D) \in PartialFunctions(S, T)
<1>1. DOMAIN f \in SUBSET S /\ f \in [DOMAIN f -> T]
  BY PartialElim
<1>2. Restrict(f, D) \in [D -> T]
  BY <1>1 DEF Restrict
<1> QED
  BY <1>1, <1>2, PartialIntro

LEMMA AgeingType ==
  ASSUME NEW c \in Carts
  PROVE  [p \in DOMAIN c |-> [c[p] EXCEPT !.old = TRUE]] \in Carts
<1>1. DOMAIN c \in SUBSET Products /\ c \in [DOMAIN c -> Rows]
  BY PartialElim DEF Carts
<1>2. [p \in DOMAIN c |-> [c[p] EXCEPT !.old = TRUE]] \in [DOMAIN c -> Rows]
  BY <1>1 DEF Rows
<1> QED
  BY <1>1, <1>2, PartialIntro DEF Carts

------------------------------------------------------------------------------
(* Frames: what an action that leaves some variables alone preserves.      *)

LEMMA TypeFrames ==
  ASSUME TypeOK
  PROVE  /\ UNCHANGED orders => OrdersType'
         /\ UNCHANGED <<cart, ordered>> => CartType'
         /\ UNCHANGED <<avail, variants, syncing, syncs, days>> => CatalogueType'
         /\ UNCHANGED <<conv, session, cancelling>> => ChatType'
         /\ UNCHANGED <<stored, faults>> => DiskType'
BY DEF TypeOK, OrdersType, CartType, CatalogueType, ChatType, DiskType

\* The table of orders only grows, and an order keeps its customer.
OrdersKept ==
  \A i \in DOMAIN orders : i \in DOMAIN orders' /\ orders'[i].user = orders[i].user

LEMMA SessionFrame ==
  ASSUME SessionPointsAtOwnOrder, OrdersKept,
         UNCHANGED <<session, cancelling, stored>>
  PROVE  SessionPointsAtOwnOrder'
BY DEF SessionPointsAtOwnOrder, OwnsOrder, OrdersKept

LEMMA OrdersUnchanged == ASSUME UNCHANGED orders PROVE OrdersKept
BY DEF OrdersKept

\* No handler is running after the step.
LEMMA IdleFrame ==
  ASSUME task \in Tasks, TaskInv,
         task' = Idle \/ (UNCHANGED task /\ task.pc = "idle")
  PROVE  task' \in Tasks /\ TaskInv'
<1>1. Idle \in Tasks
  BY EmptyCartType DEF Idle, Tasks
<1>2. task' = Idle /\ task'.pc = "idle"
  BY DEF TaskInv, At, Idle
<1> QED
  BY <1>1, <1>2 DEF TaskInv, At, CheckoutSteps

LEMMA TaskFrame ==
  ASSUME TaskInv, UNCHANGED <<task, orders, session>>
  PROVE  TaskInv'
BY DEF TaskInv, At, CheckoutSteps, OwnsOrder

\* Replacing one order.
LEMMA SetOrder ==
  ASSUME OrdersType, NEW i \in DOMAIN orders, NEW o \in Orders,
         orders' = [orders EXCEPT ![i] = o]
  PROVE  /\ OrdersType'
         /\ DOMAIN orders' = DOMAIN orders
         /\ \A j \in DOMAIN orders : orders'[j] = IF j = i THEN o ELSE orders[j]
         /\ o.user = orders[i].user => OrdersKept
<1>1. orders \in Seq(Orders) /\ Len(orders) =< MaxOrders
  BY DEF OrdersType
<1>2. DOMAIN orders = 1 .. Len(orders)
  BY <1>1, LenProperties
<1>3. /\ orders' \in Seq(Orders) /\ Len(orders') = Len(orders)
      /\ \A j \in DOMAIN orders : orders'[j] = IF j = i THEN o ELSE orders[j]
  BY <1>1, <1>2, ExceptSeq
<1>4. DOMAIN orders' = DOMAIN orders
  BY <1>2, <1>3, LenProperties
<1> QED
  BY <1>1, <1>3, <1>4 DEF OrdersType, OrdersKept

\* Every order of the table is one.
LEMMA OrderOf ==
  ASSUME OrdersType, NEW i \in DOMAIN orders
  PROVE  orders[i] \in Orders /\ i \in OrderIds
<1>1. orders \in Seq(Orders) /\ Len(orders) =< MaxOrders
  BY DEF OrdersType
<1>2. Len(orders) \in Nat /\ DOMAIN orders = 1 .. Len(orders)
  BY <1>1, LenProperties
<1> QED
  BY <1>1, <1>2, ElementOfSeq, BoundAssumption DEF OrderIds

\* Moving one order to another status.
LEMMA SetStatusOf ==
  ASSUME OrdersType, NEW i \in DOMAIN orders, NEW s \in Statuses,
         orders' = [orders EXCEPT ![i].status = s]
  PROVE  /\ OrdersType' /\ OrdersKept
         /\ DOMAIN orders' = DOMAIN orders
         /\ \A j \in DOMAIN orders :
              orders'[j] = IF j = i THEN [orders[i] EXCEPT !.status = s] ELSE orders[j]
<1> DEFINE o == [orders[i] EXCEPT !.status = s]
<1>1. orders[i] \in Orders
  BY OrderOf
<1>2. o \in Orders /\ o.user = orders[i].user
  BY <1>1 DEF Orders
<1>3. orders' = [orders EXCEPT ![i] = o]
  OBVIOUS
<1> HIDE DEF o
<1>4. /\ OrdersType' /\ OrdersKept /\ DOMAIN orders' = DOMAIN orders
      /\ \A j \in DOMAIN orders : orders'[j] = IF j = i THEN o ELSE orders[j]
  BY <1>2, <1>3, SetOrder
<1> QED
  BY <1>4 DEF o

------------------------------------------------------------------------------
(* TypeInv is inductive.                                                   *)

LEMMA TypeInit == Init => TypeInv
<1> SUFFICES ASSUME Init PROVE TypeInv
  OBVIOUS
<1> USE DEF Init
<1>1. OrdersType
  BY BoundAssumption, EmptySeq DEF OrdersType
<1>2. CartType
  BY EmptyCartType DEF CartType
<1>3. CatalogueType
  BY BoundAssumption DEF CatalogueType
<1>4. ChatType
  BY DEF ChatType, ConvStates, Sessions, EmptySession
<1>5. DiskType
  BY <1>4, BoundAssumption DEF DiskType, ChatType
<1>6. task \in Tasks
  BY EmptyCartType DEF Idle, Tasks
<1>7. TaskInv
  BY DEF TaskInv, At, Idle, CheckoutSteps
<1>8. SessionPointsAtOwnOrder
  BY DEF SessionPointsAtOwnOrder, OwnsOrder, EmptySession
<1> QED
  BY <1>1, <1>2, <1>3, <1>4, <1>5, <1>6, <1>7, <1>8 DEF TypeInv, TypeOK

\* The steps of a customer that touch neither an order nor a task.
LEMMA BrowsingType ==
  ASSUME TypeInv, NEW u \in Users,
         \/ StartOrdering(u)
         \/ \E p \in Products, qty \in 1 .. MaxQty, saved \in Prices \cup {0} :
              PutInCart(u, p, qty, saved)
         \/ \E p \in Products : TakeFromCart(u, p)
         \/ ShowCart(u)
         \/ ClearCartButton(u)
         \/ Checkout(u)
         \/ OpenDeliveryMap(u)
         \/ ChoosePickup(u)
         \/ \E price \in DeliveryPrices : PickOnMap(u, price) \/ UseSavedAddress(u, price)
         \/ AbandonCheckout(u)
         \/ LoseOrderScreen(u)
         \/ KeepOrder(u)
         \/ ExitToMainMenu(u)
         \/ Logout(u)
  PROVE  TypeInv'
<1> USE DEF Handles, GoTo, database, catalogue, chat, disk
<1>1. TypeOK /\ TaskInv /\ SessionPointsAtOwnOrder
  BY DEF TypeInv
<1>2. CartType /\ ChatType /\ task \in Tasks
  BY <1>1 DEF TypeOK
<1>3. OrdersKept
  BY OrdersUnchanged
     DEF StartOrdering, PutInCart, TakeFromCart, ShowCart, ClearCartButton,
         Checkout, OpenDeliveryMap, ChoosePickup, PickOnMap, UseSavedAddress,
         AbandonCheckout,
         LoseOrderScreen, KeepOrder, ExitToMainMenu, Logout
<1>4. OrdersType' /\ CatalogueType' /\ DiskType' /\ task' \in Tasks /\ TaskInv'
  BY <1>1, <1>2, TypeFrames, IdleFrame
     DEF StartOrdering, PutInCart, TakeFromCart, ShowCart, ClearCartButton,
         Checkout, OpenDeliveryMap, ChoosePickup, PickOnMap, UseSavedAddress,
         AbandonCheckout,
         LoseOrderScreen, KeepOrder, ExitToMainMenu, Logout
<1> SUFFICES CartType' /\ ChatType' /\ SessionPointsAtOwnOrder'
  BY <1>4 DEF TypeInv, TypeOK
<1>5. ASSUME NEW state \in ConvStates, GoTo(u, state)
      PROVE  conv' \in [Users -> ConvStates]
  BY <1>2, <1>5 DEF ChatType
<1>6. ASSUME EmptiesCart(u) PROVE CartType'
  BY <1>2, <1>6, EmptyCartType DEF EmptiesCart, CartType
<1>7. CASE StartOrdering(u)
  BY <1>1, <1>2, <1>3, <1>5, <1>7, TypeFrames, SessionFrame
     DEF StartOrdering, ChatType, ConvStates
<1>8. CASE \E p \in Products, qty \in 1 .. MaxQty, saved \in Prices \cup {0} :
             PutInCart(u, p, qty, saved)
  <2> PICK p \in Products, qty \in 1 .. MaxQty, saved \in Prices \cup {0} :
             PutInCart(u, p, qty, saved)
    BY <1>8
  <2>1. UpdateItem(cart[u], p, qty, saved) \in Carts
    BY <1>2, UpdateItemType DEF CartType
  <2>2. CartType'
    BY <1>2, <2>1 DEF PutInCart, CartType
  <2> QED
    BY <1>1, <1>3, <2>2, TypeFrames, SessionFrame DEF PutInCart
<1>9. CASE \E p \in Products : TakeFromCart(u, p)
  <2> PICK p \in Products : TakeFromCart(u, p)
    BY <1>9
  <2>1. RemoveItem(cart[u], p) \in Carts
    BY <1>2, RestrictType DEF CartType, RemoveItem, Carts
  <2>2. CartType'
    BY <1>2, <2>1 DEF TakeFromCart, CartType
  <2> QED
    BY <1>1, <1>3, <2>2, TypeFrames, SessionFrame DEF TakeFromCart
<1>10. CASE ShowCart(u)
  <2>1. CartType'
    BY <1>1, <1>6, <1>10, TypeFrames DEF ShowCart
  <2>2. ChatType'
    BY <1>2, <1>5, <1>10 DEF ShowCart, ChatType, ConvStates
  <2> QED
    BY <1>1, <1>3, <1>10, <2>1, <2>2, SessionFrame DEF ShowCart
<1>11. CASE ClearCartButton(u)
  BY <1>1, <1>3, <1>6, <1>11, TypeFrames, SessionFrame DEF ClearCartButton
<1>12. CASE Checkout(u)
  <2>1. CartType'
    BY <1>1, <1>6, <1>12, TypeFrames DEF Checkout
  <2>2. ChatType'
    BY <1>2, <1>5, <1>12 DEF Checkout, ChatType, ConvStates
  <2> QED
    BY <1>1, <1>3, <1>12, <2>1, <2>2, SessionFrame DEF Checkout
<1>13. CASE OpenDeliveryMap(u) \/ AbandonCheckout(u) \/ LoseOrderScreen(u)
  <2>1. ChatType'
    BY <1>2, <1>5, <1>13
       DEF OpenDeliveryMap, AbandonCheckout, LoseOrderScreen, ChatType, ConvStates
  <2> QED
    BY <1>1, <1>3, <1>13, <2>1, TypeFrames, SessionFrame
       DEF OpenDeliveryMap, AbandonCheckout, LoseOrderScreen
<1>14. CASE \/ ChoosePickup(u)
            \/ \E price \in DeliveryPrices : PickOnMap(u, price) \/ UseSavedAddress(u, price)
  <2>1. CASE UNCHANGED session
    <3>1. ChatType'
      BY <1>2, <1>5, <1>14, <2>1
         DEF ChoosePickup, PickOnMap, UseSavedAddress, PromptGift, ChatType, ConvStates
    <3> QED
      BY <1>1, <1>3, <1>14, <2>1, <3>1, TypeFrames, SessionFrame
         DEF ChoosePickup, PickOnMap, UseSavedAddress
  <2>2. CASE \E price \in DeliveryPrices : PromptGift(u, price)
    <3> PICK price \in DeliveryPrices : PromptGift(u, price)
      BY <2>2
    <3>1. UNCHANGED <<cart, ordered, cancelling, stored>>
      BY <1>14 DEF ChoosePickup, PickOnMap, UseSavedAddress
    <3>2. ChatType'
      BY <1>2, <1>5, <3>1 DEF PromptGift, ChatType, ConvStates, Sessions
    <3>3. SessionPointsAtOwnOrder'
      BY <1>1, <1>2, <1>3, <3>1
         DEF PromptGift, SessionPointsAtOwnOrder, OwnsOrder, OrdersKept, ChatType, Sessions
    <3> QED
      BY <1>1, <3>1, <3>2, <3>3, TypeFrames
  <2> QED
    BY <1>14, <2>1, <2>2, MoneyAssumption DEF ChoosePickup, PickOnMap, UseSavedAddress
<1>15. CASE KeepOrder(u) \/ ExitToMainMenu(u) \/ Logout(u)
  <2>1. ChatType'
    BY <1>2, <1>5, <1>15
       DEF KeepOrder, ExitToMainMenu, Logout, ChatType, ConvStates, Sessions,
           EmptySession
  <2>2. SessionPointsAtOwnOrder'
    BY <1>1, <1>2, <1>3, <1>15
       DEF KeepOrder, ExitToMainMenu, Logout, SessionPointsAtOwnOrder, OwnsOrder,
           OrdersKept, ChatType, Sessions, EmptySession
  <2> QED
    BY <1>1, <1>15, <2>1, <2>2, TypeFrames DEF KeepOrder, ExitToMainMenu, Logout
<1> QED
  BY <1>7, <1>8, <1>9, <1>10, <1>11, <1>12, <1>13, <1>14, <1>15

\* The steps of a customer that start a task.
LEMMA StartTaskType ==
  ASSUME TypeInv, NEW u \in Users,
         \/ \E gift \in GiftKinds : AnswerGift(u, gift)
         \/ ChangeDelivery(u)
         \/ \E i \in DOMAIN orders : RepeatOrder(u, i)
  PROVE  TypeInv'
<1> USE DEF Handles, GoTo, database, catalogue, chat, disk
<1>1. TypeOK /\ TaskInv /\ SessionPointsAtOwnOrder
  BY DEF TypeInv
<1>2. OrdersType /\ CartType /\ CatalogueType /\ ChatType /\ task \in Tasks
  BY <1>1 DEF TypeOK
<1>3. OrdersKept
  BY OrdersUnchanged DEF AnswerGift, ChangeDelivery, RepeatOrder
<1>4. OrdersType' /\ CartType' /\ CatalogueType' /\ DiskType' /\ SessionPointsAtOwnOrder'
  BY <1>1, <1>3, TypeFrames, SessionFrame DEF AnswerGift, ChangeDelivery, RepeatOrder
<1> SUFFICES ChatType' /\ task' \in Tasks /\ TaskInv'
  BY <1>4 DEF TypeInv, TypeOK
<1>5. EmptyCart \in Lines
  BY EmptyCartType
<1>6. CASE \E gift \in GiftKinds : AnswerGift(u, gift)
  <2> PICK gift \in GiftKinds : AnswerGift(u, gift)
    BY <1>6
  <2> DEFINE lines == GetCart(cart[u], variants)
             total == Goods(lines) + session[u].delivery
             kind  == IF session[u].editing # None THEN "edit" ELSE "new"
             hidden == DOMAIN cart[u] \ DOMAIN lines
  <2>1. lines \in Lines
    BY <1>2, GetCartType DEF CartType, CatalogueType
  <2>2. session[u].delivery \in DeliveryPrices
    BY <1>2 DEF AnswerGift, ChatType, Sessions
  <2>3. total \in Amounts
    BY <2>1, <2>2 DEF Amounts
  <2>4. task' = [pc |-> "persist", kind |-> kind, user |-> u, order |-> None,
                 lines |-> lines, hidden |-> hidden, total |-> total,
                 delivery |-> session[u].delivery, gift |-> gift, link |-> None]
    BY DEF AnswerGift, Idle
  <2>5. /\ UNCHANGED <<orders, conv, session, cancelling>>
        /\ kind = "new" => Len(orders) < MaxOrders
    BY DEF AnswerGift
  <2>8. hidden \in SUBSET Products
    BY <1>2, PartialElim DEF CartType, Carts
  <2> HIDE DEF lines, total, hidden
  <2>6. task' \in Tasks
    BY <2>1, <2>2, <2>3, <2>4, <2>8 DEF Tasks
  <2>7. TaskInv'
    BY <2>2, <2>3, <2>4, <2>5 DEF TaskInv, At, CheckoutSteps
  <2> QED
    BY <1>1, <2>5, <2>6, <2>7, TypeFrames
<1>7. ASSUME NEW kind \in {"change", "repeat"}, NEW i \in DOMAIN orders,
             NEW lines \in Lines, orders[i].user = u,
             task' = [Idle EXCEPT !.pc = "empty", !.kind = kind, !.user = u,
                                  !.order = i, !.lines = lines],
             UNCHANGED orders
      PROVE  task' \in Tasks /\ TaskInv'
  <2>1. i \in OrderIds
    BY <1>2, OrderOf
  <2>2. task' = [pc |-> "empty", kind |-> kind, user |-> u, order |-> i,
                 lines |-> lines, hidden |-> {}, total |-> None,
                 delivery |-> None, gift |-> None, link |-> None]
    BY <1>7 DEF Idle
  <2>3. task' \in Tasks
    BY <2>1, <2>2 DEF Tasks
  <2>4. TaskInv'
    BY <1>7, <2>1, <2>2, NoneAssumption DEF TaskInv, At, CheckoutSteps, OwnsOrder
  <2> QED
    BY <2>3, <2>4
<1>8. CASE ChangeDelivery(u)
  <2>1. session[u].active \in DOMAIN orders /\ orders[session[u].active].user = u
    BY <1>1, <1>8 DEF ChangeDelivery, SessionPointsAtOwnOrder, OwnsOrder
  <2>2. orders[session[u].active].items \in Lines
    BY <1>2, <2>1, OrderOf DEF Orders
  <2>3. ChatType'
    BY <1>1, <1>8, TypeFrames DEF ChangeDelivery
  <2> QED
    BY <1>7, <1>8, <2>1, <2>2, <2>3 DEF ChangeDelivery
<1>9. CASE \E i \in DOMAIN orders : RepeatOrder(u, i)
  <2> PICK i \in DOMAIN orders : RepeatOrder(u, i)
    BY <1>9
  <2> DEFINE offered == {p \in DOMAIN orders[i].items : avail[p]}
  <2>1. Restrict(orders[i].items, offered) \in Lines
    BY <1>2, OrderOf, RestrictType DEF Orders, Lines
  <2>2. ChatType'
    BY <1>2 DEF RepeatOrder, ChatType, ConvStates
  <2>3. CASE task' = task
    BY <1>1, <1>2, <2>2, <2>3, IdleFrame DEF RepeatOrder
  <2>4. CASE task' # task
    BY <1>7, <2>1, <2>2, <2>4 DEF RepeatOrder
  <2> QED
    BY <2>3, <2>4
<1> QED
  BY <1>6, <1>8, <1>9

\* The steps of a customer or of the staff that cancel or move an order.
LEMMA MoveOrderType ==
  ASSUME TypeInv,
         \/ \E u \in Users :
              \/ CancelOnScreen(u)
              \/ GiveCancelReason(u)
              \/ \E i \in DOMAIN orders : PromptCancel(u, i)
         \/ Staff
  PROVE  TypeInv'
<1> USE DEF Handles, GoTo, database, catalogue, chat, disk
<1>1. TypeOK /\ TaskInv /\ SessionPointsAtOwnOrder
  BY DEF TypeInv
<1>2. OrdersType /\ ChatType /\ task \in Tasks
  BY <1>1 DEF TypeOK
<1>3. CartType' /\ CatalogueType' /\ DiskType' /\ task' \in Tasks /\ TaskInv'
  BY <1>1, <1>2, TypeFrames, IdleFrame
     DEF CancelOnScreen, GiveCancelReason, PromptCancel, Staff, StaffAction
<1> SUFFICES OrdersType' /\ ChatType' /\ SessionPointsAtOwnOrder'
  BY <1>3 DEF TypeInv, TypeOK
<1>4. \A i \in DOMAIN orders, s \in Statuses :
        orders' = [orders EXCEPT ![i].status = s] => OrdersType' /\ OrdersKept
  BY <1>2, SetStatusOf
<1>5. ASSUME NEW u \in Users, CancelOnScreen(u)
      PROVE  OrdersType' /\ ChatType' /\ SessionPointsAtOwnOrder'
  <2>1. session[u].active \in DOMAIN orders
    BY <1>1, <1>5 DEF CancelOnScreen, SessionPointsAtOwnOrder, OwnsOrder
  <2>2. OrdersType' /\ OrdersKept
    BY <1>4, <1>5, <2>1 DEF CancelOnScreen, Statuses
  <2> QED
    BY <1>1, <1>5, <2>2, TypeFrames, SessionFrame DEF CancelOnScreen
<1>6. ASSUME NEW u \in Users, GiveCancelReason(u)
      PROVE  OrdersType' /\ ChatType' /\ SessionPointsAtOwnOrder'
  <2>1. cancelling[u] \in DOMAIN orders
    BY <1>1, <1>6 DEF GiveCancelReason, SessionPointsAtOwnOrder, OwnsOrder
  <2>2. OrdersType' /\ OrdersKept
    BY <1>4, <1>6, <2>1 DEF GiveCancelReason, Statuses
  <2>3. ChatType'
    BY <1>2, <1>6 DEF GiveCancelReason, ChatType
  <2>4. SessionPointsAtOwnOrder'
    BY <1>1, <1>2, <1>6, <2>2
       DEF GiveCancelReason, SessionPointsAtOwnOrder, OwnsOrder, OrdersKept, ChatType
  <2> QED
    BY <2>2, <2>3, <2>4
<1>7. ASSUME NEW u \in Users, NEW i \in DOMAIN orders, PromptCancel(u, i)
      PROVE  OrdersType' /\ ChatType' /\ SessionPointsAtOwnOrder'
  <2>1. i \in OrderIds
    BY <1>2, OrderOf
  <2>2. ChatType'
    BY <1>2, <1>7, <2>1 DEF PromptCancel, ChatType
  <2>3. SessionPointsAtOwnOrder'
    BY <1>1, <1>2, <1>7 DEF PromptCancel, SessionPointsAtOwnOrder, OwnsOrder, ChatType
  <2> QED
    BY <1>1, <1>7, <2>2, <2>3, TypeFrames DEF PromptCancel
<1>8. ASSUME NEW action \in StaffActions, NEW i \in DOMAIN orders, StaffAction(action, i)
      PROVE  OrdersType' /\ ChatType' /\ SessionPointsAtOwnOrder'
  <2>1. StaffStatus[action] \in Statuses
    BY DEF StaffActions, StaffStatus, Statuses
  <2>2. OrdersType' /\ OrdersKept
    BY <1>4, <1>8, <2>1 DEF StaffAction, UpdateOrderStatus
  <2> QED
    BY <1>1, <1>8, <2>2, TypeFrames, SessionFrame DEF StaffAction
<1> QED
  BY <1>5, <1>6, <1>7, <1>8 DEF Staff

\* What each write does to the table.
LEMMA PersistNewEffect ==
  ASSUME TypeInv, PersistNew
  PROVE  /\ OrdersType' /\ OrdersKept
         /\ Len(orders) \in Nat /\ Len(orders) < MaxOrders
         /\ Len(orders) + 1 \in OrderIds
         /\ DOMAIN orders = 1 .. Len(orders)
         /\ DOMAIN orders' = 1 .. (Len(orders) + 1)
         /\ \A i \in DOMAIN orders : orders'[i] = orders[i]
         /\ orders'[Len(orders) + 1] =
              [user |-> task.user, status |-> "ACCEPTED", items |-> task.lines,
               total |-> task.total, delivery |-> task.delivery,
               gift |-> task.gift, payUrl |-> None]
<1> DEFINE o == [user |-> task.user, status |-> "ACCEPTED", items |-> task.lines,
                 total |-> task.total, delivery |-> task.delivery,
                 gift |-> task.gift, payUrl |-> None]
<1>1. OrdersType /\ TaskInv /\ task \in Tasks
  BY DEF TypeInv, TypeOK
<1>2. task.user \in Users
  BY <1>1 DEF TaskInv, PersistNew, At
<1>3. o \in Orders
  BY <1>1, <1>2 DEF PersistNew, At, TaskInv, Tasks, Orders, Statuses
<1>4. /\ orders \in Seq(Orders) /\ Len(orders) \in Nat
      /\ DOMAIN orders = 1 .. Len(orders) /\ Len(orders) < MaxOrders
  BY <1>1, LenProperties DEF OrdersType, PersistNew, At, TaskInv
<1>5. orders' = Append(orders, o)
  BY DEF PersistNew
<1> HIDE DEF o
<1>6. /\ orders' \in Seq(Orders) /\ Len(orders') = Len(orders) + 1
      /\ \A i \in 1 .. Len(orders) : orders'[i] = orders[i]
      /\ orders'[Len(orders) + 1] = o
  BY <1>3, <1>4, <1>5, AppendProperties
<1>7. DOMAIN orders' = 1 .. (Len(orders) + 1)
  BY <1>6, LenProperties
<1>8. OrdersType' /\ OrdersKept /\ Len(orders) + 1 \in OrderIds
  BY <1>4, <1>6, <1>7, BoundAssumption DEF OrdersType, OrdersKept, OrderIds
<1> QED
  BY <1>4, <1>6, <1>7, <1>8 DEF o

LEMMA PersistEditEffect ==
  ASSUME TypeInv, PersistEdit
  PROVE  /\ OrdersType' /\ OrdersKept
         /\ DOMAIN orders' = DOMAIN orders
         /\ session[task.user].editing \in DOMAIN orders
         /\ orders'[session[task.user].editing] =
              Redelivered(orders[session[task.user].editing])
         /\ \A j \in DOMAIN orders :
              /\ orders[j] \in Orders
              /\ orders'[j] = orders[j] \/ orders'[j] = Redelivered(orders[j])
<1> DEFINE i == session[task.user].editing
<1>1. OrdersType /\ TaskInv /\ SessionPointsAtOwnOrder
  BY DEF TypeInv, TypeOK
<1>2. i \in DOMAIN orders
  BY <1>1 DEF PersistEdit, At, TaskInv, SessionPointsAtOwnOrder, OwnsOrder
<1>3. \A j \in DOMAIN orders : orders[j] \in Orders
  BY <1>1, OrderOf
<1>4. Redelivered(orders[i]) \in Orders /\ Redelivered(orders[i]).user = orders[i].user
  BY <1>1, <1>2, <1>3 DEF PersistEdit, At, TaskInv, Redelivered, Orders
<1>5. orders' = [orders EXCEPT ![i] = Redelivered(orders[i])]
  BY DEF PersistEdit
<1> QED
  BY <1>1, <1>2, <1>3, <1>4, <1>5, SetOrder

LEMMA SetPaymentUrlEffect ==
  ASSUME TypeInv, SetPaymentUrl
  PROVE  /\ OrdersType' /\ OrdersKept
         /\ task.order \in DOMAIN orders
         /\ task.link = orders[task.order].total
         /\ DOMAIN orders' = DOMAIN orders
         /\ \A j \in DOMAIN orders :
              orders'[j] = IF j = task.order
                             THEN [orders[j] EXCEPT !.payUrl = task.link,
                                                    !.status = "AWAITING_PAYMENT"]
                             ELSE orders[j]
<1> DEFINE i == task.order
           o == [orders[i] EXCEPT !.payUrl = task.link, !.status = "AWAITING_PAYMENT"]
<1>1. OrdersType /\ TaskInv
  BY DEF TypeInv, TypeOK
<1>2. i \in DOMAIN orders /\ task.link = orders[i].total
  BY <1>1 DEF SetPaymentUrl, At, TaskInv, CheckoutSteps, OwnsOrder
<1>3. orders[i] \in Orders
  BY <1>1, <1>2, OrderOf
<1>4. o \in Orders /\ o.user = orders[i].user
  BY <1>1, <1>2, <1>3 DEF Orders, Statuses
<1>5. orders' = [orders EXCEPT ![i] = o]
  BY DEF SetPaymentUrl
<1> HIDE DEF o
<1>6. /\ OrdersType' /\ OrdersKept /\ DOMAIN orders' = DOMAIN orders
      /\ \A j \in DOMAIN orders : orders'[j] = IF j = i THEN o ELSE orders[j]
  BY <1>1, <1>2, <1>4, <1>5, SetOrder
<1> QED
  BY <1>2, <1>6 DEF o

\* The steps of finalize_order_and_pay.
LEMMA CheckoutTaskType ==
  ASSUME TypeInv,
         \/ RejectTotal \/ PersistNew \/ PersistEdit \/ ForgetEditing
         \/ ClearCart \/ CreatePayment \/ SetPaymentUrl \/ Present \/ Approve
  PROVE  TypeInv'
<1> USE DEF At, GoOn, GoTo, HandlerEnds, database, catalogue, chat, disk
<1>1. TypeOK /\ TaskInv /\ SessionPointsAtOwnOrder
  BY DEF TypeInv
<1>2. OrdersType /\ CartType /\ ChatType /\ task \in Tasks
  BY <1>1 DEF TypeOK
<1>3. task.user \in Users
  BY <1>1
     DEF TaskInv, RejectTotal, PersistNew, PersistEdit, ForgetEditing, ClearCart,
         CreatePayment, SetPaymentUrl, Present, Approve
<1>4. CatalogueType' /\ DiskType'
  BY <1>1, TypeFrames
     DEF RejectTotal, PersistNew, PersistEdit, ForgetEditing, ClearCart,
         CreatePayment, SetPaymentUrl, Present, Approve
<1> SUFFICES /\ OrdersType' /\ CartType' /\ ChatType' /\ task' \in Tasks
             /\ TaskInv' /\ SessionPointsAtOwnOrder'
  BY <1>4 DEF TypeInv, TypeOK
<1>5. CASE RejectTotal
  <2>1. task' \in Tasks /\ TaskInv'
    BY <1>1, <1>2, <1>5, IdleFrame DEF RejectTotal
  <2>2. ChatType'
    BY <1>2, <1>5 DEF RejectTotal, ChatType, ConvStates
  <2> QED
    BY <1>1, <1>5, <2>1, <2>2, TypeFrames, OrdersUnchanged, SessionFrame DEF RejectTotal
<1>6. CASE PersistNew
  <2> DEFINE i == Len(orders) + 1
  <2>1. /\ OrdersType' /\ OrdersKept /\ i \in OrderIds /\ i \in DOMAIN orders'
        /\ orders'[i].user = task.user /\ orders'[i].total = task.total
        /\ orders'[i].status = "ACCEPTED"
    BY <1>6, PersistNewEffect
  <2>2. task' = [task EXCEPT !.pc = "clear", !.order = i]
    BY <1>6 DEF PersistNew
  <2> HIDE DEF i
  <2>3. task' \in Tasks
    BY <1>2, <2>1, <2>2 DEF Tasks
  <2>4. TaskInv'
    <3>1. /\ task'.pc = "clear" /\ task'.user = task.user /\ task'.kind = task.kind
          /\ task'.total = task.total /\ task'.order = i
      BY <1>2, <2>2 DEF Tasks
    <3>2. i # None
      BY <2>1, NoneAssumption
    <3> QED
      BY <1>1, <1>3, <1>6, <2>1, <3>1, <3>2
         DEF PersistNew, TaskInv, CheckoutSteps, OwnsOrder
  <2>5. CartType'
    BY <1>2, <1>6 DEF PersistNew, CartType
  <2> QED
    BY <1>1, <1>6, <2>1, <2>3, <2>4, <2>5, TypeFrames, SessionFrame DEF PersistNew
<1>7. CASE PersistEdit
  <2> DEFINE i == session[task.user].editing
  <2>1. /\ i \in DOMAIN orders /\ i # None /\ orders[i].user = task.user
        /\ orders[i] \in Orders /\ i \in OrderIds
    <3>1. i \in DOMAIN orders /\ i # None /\ orders[i].user = task.user
      BY <1>1, <1>3, <1>7 DEF PersistEdit, TaskInv, SessionPointsAtOwnOrder, OwnsOrder
    <3> QED
      BY <1>2, <3>1, OrderOf
  <2>2. /\ OrdersType' /\ OrdersKept /\ i \in DOMAIN orders'
        /\ orders'[i].user = task.user /\ orders'[i].total = task.total
    BY <1>7, <2>1, PersistEditEffect DEF Redelivered, Orders
  <2>3. /\ task' = [task EXCEPT !.pc = "forget", !.order = i]
        /\ UNCHANGED <<conv, session, cancelling, stored, cart, ordered>>
    BY <1>7 DEF PersistEdit
  <2> HIDE DEF i
  <2>5. task' \in Tasks
    BY <1>2, <2>1, <2>3 DEF Tasks
  <2>6. TaskInv'
    <3>1. /\ task'.pc = "forget" /\ task'.user = task.user /\ task'.kind = "edit"
          /\ task'.total = task.total /\ task'.order = i
      BY <1>2, <1>7, <2>3 DEF PersistEdit, Tasks
    <3> QED
      BY <1>1, <1>3, <1>7, <2>1, <2>2, <3>1
         DEF PersistEdit, TaskInv, CheckoutSteps, OwnsOrder
  <2> QED
    BY <1>1, <2>2, <2>3, <2>5, <2>6, TypeFrames, SessionFrame
<1>13. CASE ForgetEditing
  <2>1. /\ session' = [session EXCEPT ![task.user].editing = None]
        /\ task' = [task EXCEPT !.pc = "clear"]
        /\ UNCHANGED <<conv, cancelling, stored, cart, ordered, orders>>
    BY <1>13 DEF ForgetEditing
  <2>2. ChatType'
    BY <1>2, <1>3, <2>1 DEF ChatType, Sessions
  <2>3. task' \in Tasks
    BY <1>2, <2>1 DEF Tasks
  <2>4. TaskInv'
    BY <1>1, <1>2, <1>13, <2>1
       DEF ForgetEditing, TaskInv, CheckoutSteps, OwnsOrder, Tasks
  <2>5. SessionPointsAtOwnOrder'
    BY <1>1, <1>2, <2>1 DEF SessionPointsAtOwnOrder, OwnsOrder, ChatType, Sessions
  <2> QED
    BY <1>1, <2>1, <2>2, <2>3, <2>4, <2>5, TypeFrames
<1>8. CASE ClearCart
  <2>1. task.order \in DOMAIN orders /\ orders[task.order].user = task.user
    BY <1>1, <1>8 DEF ClearCart, TaskInv, CheckoutSteps, OwnsOrder
  <2>2. task.order \in OrderIds
    BY <1>2, <2>1, OrderOf
  <2>3. CartType'
    BY <1>2, <1>8, EmptyCartType DEF ClearCart, EmptiesCart, CartType
  <2>4. ChatType'
    BY <1>2, <1>8, <2>2 DEF ClearCart, ChatType, Sessions
  <2>5. task' \in Tasks
    BY <1>2, <1>8 DEF ClearCart, Tasks
  <2>6. TaskInv'
    BY <1>1, <1>2, <1>8 DEF ClearCart, TaskInv, CheckoutSteps, OwnsOrder, Tasks
  <2>7. SessionPointsAtOwnOrder'
    BY <1>1, <1>2, <1>8, <2>1
       DEF ClearCart, SessionPointsAtOwnOrder, OwnsOrder, ChatType, Sessions
  <2> QED
    BY <1>1, <1>8, <2>3, <2>4, <2>5, <2>6, <2>7, TypeFrames DEF ClearCart
<1>9. CASE CreatePayment
  <2>1. task' \in Tasks
    BY <1>1, <1>2, <1>9 DEF CreatePayment, TaskInv, CheckoutSteps, Tasks
  <2>2. TaskInv'
    BY <1>1, <1>2, <1>9 DEF CreatePayment, TaskInv, CheckoutSteps, OwnsOrder, Tasks
  <2> QED
    BY <1>1, <1>9, <2>1, <2>2, TypeFrames, OrdersUnchanged, SessionFrame DEF CreatePayment
<1>10. CASE SetPaymentUrl
  <2>1. /\ task' = [task EXCEPT !.pc = "present"]
        /\ UNCHANGED <<conv, session, cancelling, stored, cart, ordered>>
    BY <1>10 DEF SetPaymentUrl
  <2>2. task' \in Tasks
    BY <1>2, <2>1 DEF Tasks
  <2>3. TaskInv'
    <3>1. /\ task'.pc = "present" /\ task'.user = task.user /\ task'.kind = task.kind
          /\ task'.total = task.total /\ task'.order = task.order
      BY <1>2, <2>1 DEF Tasks
    <3>2. /\ task.order # None /\ task.order \in DOMAIN orders'
          /\ orders'[task.order].user = task.user
      BY <1>1, <1>10, SetPaymentUrlEffect
         DEF SetPaymentUrl, TaskInv, CheckoutSteps, OwnsOrder, OrdersKept
    <3> QED
      BY <1>1, <1>3, <1>10, <3>1, <3>2
         DEF SetPaymentUrl, TaskInv, CheckoutSteps, OwnsOrder
  <2> QED
    BY <1>1, <1>10, <2>1, <2>2, <2>3, TypeFrames, SessionFrame, SetPaymentUrlEffect
<1>11. CASE Present
  <2>1. ChatType'
    BY <1>2, <1>3, <1>11 DEF Present, ShowsOrder, ChatType, ConvStates
  <2>2. task' \in Tasks /\ TaskInv'
    <3>1. CASE task' = Idle
      BY <1>1, <1>2, <3>1, IdleFrame
    <3>2. CASE task' = [task EXCEPT !.pc = "approve"] /\ UNCHANGED orders
      BY <1>1, <1>2, <1>11, <3>2 DEF Present, TaskInv, CheckoutSteps, OwnsOrder, Tasks
    <3> QED
      BY <1>11, <3>1, <3>2 DEF Present
  <2> QED
    BY <1>1, <1>11, <2>1, <2>2, TypeFrames, OrdersUnchanged, SessionFrame DEF Present
<1>12. CASE Approve
  <2>1. task.order \in DOMAIN orders
    BY <1>1, <1>12 DEF Approve, TaskInv, CheckoutSteps, OwnsOrder
  <2>2. OrdersType' /\ OrdersKept
    BY <1>1, <1>2, <1>12, <2>1, SetStatusOf, TypeFrames, OrdersUnchanged
       DEF Approve, UpdateOrderStatus, Statuses
  <2>3. ChatType'
    BY <1>2, <1>3, <1>12 DEF Approve, ShowsOrder, ChatType, ConvStates
  <2>4. task' \in Tasks /\ TaskInv'
    BY <1>1, <1>2, <1>12, IdleFrame DEF Approve
  <2> QED
    BY <1>1, <1>12, <2>2, <2>3, <2>4, TypeFrames, SessionFrame DEF Approve
<1> QED
  BY <1>5, <1>6, <1>7, <1>8, <1>9, <1>10, <1>11, <1>12, <1>13

\* Refilling a cart from an order.
LEMMA RefillTaskType ==
  ASSUME TypeInv,
         \/ RefillClear
         \/ \E p \in Products, saved \in Prices \cup {0} : RefillItem(p, saved)
         \/ RefillDone
         \/ EditScreenFails
  PROVE  TypeInv'
<1> USE DEF At, GoOn, GoTo, HandlerEnds, database, catalogue, chat, disk
<1>1. TypeOK /\ TaskInv /\ SessionPointsAtOwnOrder
  BY DEF TypeInv
<1>2. OrdersType /\ CartType /\ ChatType /\ DiskType /\ task \in Tasks
  BY <1>1 DEF TypeOK
<1>3. /\ task.user \in Users /\ task.order \in DOMAIN orders /\ task.order \in OrderIds
      /\ orders[task.order].user = task.user
      /\ task.pc \in {"empty", "refill"} /\ UNCHANGED orders
  <2>1. /\ task.user \in Users /\ task.order \in DOMAIN orders
        /\ orders[task.order].user = task.user
        /\ task.pc \in {"empty", "refill"} /\ UNCHANGED orders
    BY <1>1 DEF TaskInv, OwnsOrder, RefillClear, RefillItem, RefillDone, EditScreenFails
  <2> QED
    BY <1>2, <2>1, OrderOf
<1>4. OrdersType' /\ CatalogueType'
  BY <1>1, TypeFrames DEF RefillClear, RefillItem, RefillDone, EditScreenFails
<1> SUFFICES /\ CartType' /\ ChatType' /\ DiskType' /\ task' \in Tasks
             /\ TaskInv' /\ SessionPointsAtOwnOrder'
  BY <1>4 DEF TypeInv, TypeOK
<1>5. CASE RefillClear
  <2>1. CartType'
    BY <1>2, <1>5, EmptyCartType DEF RefillClear, EmptiesCart, CartType
  <2>2. task' \in Tasks
    BY <1>2, <1>5 DEF RefillClear, Tasks
  <2>3. TaskInv'
    BY <1>1, <1>2, <1>3, <1>5 DEF RefillClear, TaskInv, CheckoutSteps, OwnsOrder, Tasks
  <2> QED
    BY <1>1, <1>3, <1>5, <2>1, <2>2, <2>3, TypeFrames, OrdersUnchanged, SessionFrame
       DEF RefillClear
<1>6. CASE \E p \in Products, saved \in Prices \cup {0} : RefillItem(p, saved)
  <2> PICK p \in Products, saved \in Prices \cup {0} : RefillItem(p, saved)
    BY <1>6
  <2>1. task.lines \in Lines
    BY <1>2 DEF Tasks
  <2>2. task.lines[p].qty \in 1 .. MaxQty
    BY <2>1, LinesElim DEF RefillItem
  <2>3. UpdateItem(cart[task.user], p, task.lines[p].qty, saved) \in Carts
    BY <1>2, <1>3, <2>2, UpdateItemType DEF CartType
  <2>4. CartType'
    BY <1>2, <2>3 DEF RefillItem, CartType
  <2>5. Restrict(task.lines, DOMAIN task.lines \ {p}) \in Lines
    BY <2>1, RestrictType DEF Lines
  <2>6. task' \in Tasks
    BY <1>2, <2>5 DEF RefillItem, Tasks
  <2>7. TaskInv'
    <3>1. /\ task'.pc = "refill" /\ task'.user = task.user /\ task'.kind = task.kind
          /\ task'.order = task.order
      BY <1>2 DEF RefillItem, Tasks
    <3> QED
      BY <1>1, <1>3, <3>1 DEF RefillItem, TaskInv, CheckoutSteps, OwnsOrder
  <2> QED
    BY <1>1, <1>3, <2>4, <2>6, <2>7, TypeFrames, OrdersUnchanged, SessionFrame
       DEF RefillItem
<1>7. CASE RefillDone \/ EditScreenFails
  <2>1. task' \in Tasks /\ TaskInv'
    BY <1>1, <1>2, <1>7, IdleFrame DEF RefillDone, EditScreenFails
  <2>2. ChatType'
    BY <1>2, <1>3, <1>7 DEF RefillDone, EditScreenFails, ChatType, ConvStates, Sessions
  <2>3. SessionPointsAtOwnOrder'
    BY <1>1, <1>2, <1>3, <1>7
       DEF RefillDone, EditScreenFails, SessionPointsAtOwnOrder, OwnsOrder, ChatType, Sessions
  <2>4. DiskType'
    BY <1>2, <1>7, BoundAssumption DEF RefillDone, EditScreenFails, DiskType
  <2>5. CartType'
    BY <1>1, <1>7, TypeFrames DEF RefillDone, EditScreenFails
  <2> QED
    BY <2>1, <2>2, <2>3, <2>4, <2>5
<1> QED
  BY <1>5, <1>6, <1>7

\* What runs beside the handlers: sync, time, the pickle file, exceptions, crash.
LEMMA EnvironmentType ==
  ASSUME TypeInv, Environment
  PROVE  TypeInv'
<1> USE DEF HandlerEnds, database, catalogue, chat, disk
<1>1. TypeOK /\ TaskInv /\ SessionPointsAtOwnOrder
  BY DEF TypeInv
<1>2. CartType /\ CatalogueType /\ ChatType /\ DiskType /\ task \in Tasks
  BY <1>1 DEF TypeOK
<1>3. CASE \E p \in Products, available \in BOOLEAN : SyncWipe(p, available)
  <2> PICK p \in Products, available \in BOOLEAN : SyncWipe(p, available)
    BY <1>3
  <2>1. CatalogueType'
    BY <1>2, BoundAssumption DEF SyncWipe, CatalogueType
  <2> QED
    BY <1>1, <2>1, TypeFrames, OrdersUnchanged, SessionFrame, TaskFrame
       DEF SyncWipe, TypeInv, TypeOK
<1>4. CASE \E prices \in SUBSET Prices : SyncFill(prices)
  <2> PICK prices \in SUBSET Prices : SyncFill(prices)
    BY <1>4
  <2>1. CatalogueType'
    BY <1>2 DEF SyncFill, CatalogueType
  <2> QED
    BY <1>1, <2>1, TypeFrames, OrdersUnchanged, SessionFrame, TaskFrame
       DEF SyncFill, TypeInv, TypeOK
<1>5. CASE DayPasses
  <2>1. CatalogueType'
    BY <1>2, <1>5, BoundAssumption DEF DayPasses, CatalogueType
  <2>2. CartType'
    BY <1>2, <1>5, AgeingType DEF DayPasses, CartType
  <2> QED
    BY <1>1, <1>5, <2>1, <2>2, TypeFrames, OrdersUnchanged, SessionFrame, TaskFrame
       DEF DayPasses, TypeInv, TypeOK
<1>6. CASE EditScreenFails
  BY <1>6, RefillTaskType
<1>7. CASE HandlerRaises
  <2>1. DiskType'
    BY <1>2, <1>7, BoundAssumption DEF HandlerRaises, DiskType
  <2> QED
    BY <1>1, <1>7, <2>1, TypeFrames, OrdersUnchanged, SessionFrame, IdleFrame
       DEF HandlerRaises, TypeInv, TypeOK
<1>8. CASE Flush
  <2>1. DiskType'
    BY <1>2, <1>8 DEF Flush, DiskType, ChatType
  <2>2. SessionPointsAtOwnOrder'
    BY <1>1, <1>8 DEF Flush, SessionPointsAtOwnOrder, OwnsOrder
  <2> QED
    BY <1>1, <1>8, <2>1, <2>2, TypeFrames, TaskFrame DEF Flush, TypeInv, TypeOK
<1>9. CASE Crash
  <2>1. DiskType'
    BY <1>2, <1>9, BoundAssumption DEF Crash, DiskType
  <2>2. ChatType'
    BY <1>2, <1>9 DEF Crash, ChatType, DiskType
  <2>3. CatalogueType'
    BY <1>2, <1>9 DEF Crash, CatalogueType
  <2>4. SessionPointsAtOwnOrder'
    BY <1>1, <1>9 DEF Crash, SessionPointsAtOwnOrder, OwnsOrder
  <2> QED
    BY <1>1, <1>9, <2>1, <2>2, <2>3, <2>4, TypeFrames, IdleFrame
       DEF Crash, TypeInv, TypeOK
<1> QED
  BY <1>3, <1>4, <1>5, <1>6, <1>7, <1>8, <1>9 DEF Environment

LEMMA TypeStep ==
  ASSUME TypeInv, [Next]_vars
  PROVE  TypeInv'
<1>1. CASE \E u \in Users : Customer(u)
  BY <1>1, BrowsingType, StartTaskType, MoveOrderType DEF Customer
<1>2. CASE TaskStep
  BY <1>2, CheckoutTaskType, RefillTaskType DEF TaskStep
<1>3. CASE Staff
  BY <1>3, MoveOrderType
<1>4. CASE Environment
  BY <1>4, EnvironmentType
<1>5. CASE UNCHANGED vars
  BY <1>5
     DEF vars, TypeInv, TypeOK, OrdersType, CartType, CatalogueType, ChatType,
         DiskType, TaskInv, At, CheckoutSteps, OwnsOrder, SessionPointsAtOwnOrder
<1> QED
  BY <1>1, <1>2, <1>3, <1>4, <1>5 DEF Next

------------------------------------------------------------------------------
(* Who writes orders, and what becomes of them.                            *)

\* The writes of order_service.py: nothing else in a step touches the table.
OrderWrite ==
  \/ UNCHANGED orders
  \/ PersistNew
  \/ PersistEdit
  \/ SetPaymentUrl
  \/ \E i \in DOMAIN orders, s \in Statuses : UpdateOrderStatus(i, s)
  \/ \E i \in DOMAIN orders :
       task.pc = "idle" /\ orders' = [orders EXCEPT ![i].status = "CANCELLED"]

LEMMA WritesOfOrders ==
  ASSUME TypeInv, [Next]_vars
  PROVE  OrderWrite
<1> USE DEF OrderWrite, Handles, At, database, disk
<1>1. TaskInv /\ SessionPointsAtOwnOrder
  BY DEF TypeInv
<1>2. ASSUME NEW u \in Users, Customer(u) PROVE OrderWrite
  <2>1. CASE CancelOnScreen(u)
    BY <1>1, <2>1 DEF CancelOnScreen, SessionPointsAtOwnOrder, OwnsOrder
  <2>2. CASE GiveCancelReason(u)
    BY <1>1, <2>2 DEF GiveCancelReason, SessionPointsAtOwnOrder, OwnsOrder
  <2>3. CASE ~CancelOnScreen(u) /\ ~GiveCancelReason(u)
    BY <1>2, <2>3
       DEF Customer, StartOrdering, PutInCart, TakeFromCart, ShowCart,
           ClearCartButton, Checkout, OpenDeliveryMap, ChoosePickup, PickOnMap,
           UseSavedAddress,
           AbandonCheckout, AnswerGift, LoseOrderScreen, ChangeDelivery,
           RepeatOrder, PromptCancel, KeepOrder, ExitToMainMenu, Logout
  <2> QED
    BY <2>1, <2>2, <2>3
<1>3. CASE TaskStep
  <2>1. CASE Approve
    <3>1. task.order \in DOMAIN orders
      BY <1>1, <2>1 DEF Approve, TaskInv, CheckoutSteps, OwnsOrder
    <3> QED
      BY <2>1, <3>1 DEF Approve, Statuses
  <2>2. CASE ~Approve
    BY <1>3, <2>2
       DEF TaskStep, RejectTotal, ForgetEditing, ClearCart, CreatePayment, Present,
           RefillClear, RefillItem, RefillDone
  <2> QED
    BY <2>1, <2>2
<1>4. CASE Staff
  <2> PICK action \in StaffActions, i \in DOMAIN orders : StaffAction(action, i)
    BY <1>4 DEF Staff
  <2>1. StaffStatus[action] \in Statuses
    BY DEF StaffActions, StaffStatus, Statuses
  <2> QED
    BY <2>1 DEF StaffAction
<1>5. CASE Environment
  BY <1>5
     DEF Environment, SyncWipe, SyncFill, DayPasses, EditScreenFails, HandlerRaises,
         Flush, Crash
<1>6. CASE UNCHANGED vars
  BY <1>6 DEF vars
<1> QED
  BY <1>2, <1>3, <1>4, <1>5, <1>6 DEF Next

LEMMA StatusWriteEffect ==
  ASSUME TypeInv, NEW i \in DOMAIN orders, NEW s \in Statuses,
         orders' = [orders EXCEPT ![i].status = s]
  PROVE  /\ DOMAIN orders' = DOMAIN orders
         /\ \A j \in DOMAIN orders :
              /\ orders[j] \in Orders
              /\ orders'[j] = IF j = i THEN [orders[j] EXCEPT !.status = s] ELSE orders[j]
<1>1. OrdersType
  BY DEF TypeInv, TypeOK
<1> QED
  BY <1>1, SetStatusOf, OrderOf

\* Only an unpaid order can be moved to an unpaid status.
LEMMA UnpaidMoves ==
  ASSUME NEW s, NEW t, CanTransition(s, t)
  PROVE  s \in Statuses /\ t \in Statuses /\ (t \in Unpaid => s \in Unpaid)
BY DEF CanTransition, Statuses, ValidTransitions, Unpaid

LEMMA PayStep ==
  ASSUME TypeInv, PayButtonChargesTotal, [Next]_vars
  PROVE  PayButtonChargesTotal'
<1> USE DEF PayButtonChargesTotal, UnpaidWithLink
<1>1. CASE UNCHANGED orders
  BY <1>1
<1>2. CASE PersistNew
  <2>1. ASSUME NEW i \in DOMAIN orders', UnpaidWithLink(i)'
        PROVE  i \in DOMAIN orders /\ orders'[i] = orders[i]
    BY <1>2, <2>1, PersistNewEffect
  <2> QED
    BY <2>1
<1>3. CASE PersistEdit
  <2>1. ASSUME NEW i \in DOMAIN orders, orders'[i] = Redelivered(orders[i])
        PROVE  ~UnpaidWithLink(i)'
    <3>1. /\ orders'[i].status = orders[i].status
          /\ orders[i].status # "PAID" => orders'[i].payUrl = None
      BY <1>3, <2>1, PersistEditEffect DEF Redelivered, Orders
    <3> QED
      BY <3>1 DEF Unpaid
  <2> QED
    BY <1>3, <2>1, PersistEditEffect
<1>4. CASE SetPaymentUrl
  <2>1. ASSUME NEW i \in DOMAIN orders, i # task.order
        PROVE  orders'[i] = orders[i]
    BY <1>4, <2>1, SetPaymentUrlEffect
  <2>2. orders'[task.order].payUrl = orders'[task.order].total
    <3>1. orders[task.order] \in Orders
      BY <1>4, SetPaymentUrlEffect, OrderOf DEF TypeInv, TypeOK
    <3> QED
      BY <1>4, <3>1, SetPaymentUrlEffect DEF Orders
  <2> QED
    BY <1>4, <2>1, <2>2, SetPaymentUrlEffect
<1>5. ASSUME NEW i \in DOMAIN orders, NEW s \in Statuses,
             orders' = [orders EXCEPT ![i].status = s],
             s \in Unpaid => orders[i].status \in Unpaid
      PROVE  PayButtonChargesTotal'
  <2>1. /\ DOMAIN orders' = DOMAIN orders
        /\ \A j \in DOMAIN orders : j # i => orders'[j] = orders[j]
    BY <1>5, StatusWriteEffect
  <2>2. /\ orders'[i].status = s
        /\ orders'[i].payUrl = orders[i].payUrl /\ orders'[i].total = orders[i].total
    BY <1>5, StatusWriteEffect DEF Orders
  <2> QED
    BY <1>5, <2>1, <2>2
<1>6. CASE \E i \in DOMAIN orders, s \in Statuses : UpdateOrderStatus(i, s)
  BY <1>5, <1>6, UnpaidMoves DEF UpdateOrderStatus
<1>7. CASE \E i \in DOMAIN orders : orders' = [orders EXCEPT ![i].status = "CANCELLED"]
  BY <1>5, <1>7 DEF Statuses, Unpaid
<1> QED
  BY <1>1, <1>2, <1>3, <1>4, <1>6, <1>7, WritesOfOrders DEF OrderWrite

LEMMA ReopenStep ==
  ASSUME TypeInv, [Next]_vars, NEW i \in DOMAIN orders,
         orders[i].status \in Finished, orders'[i].status \notin Finished
  PROVE  task.kind = "edit" /\ task.order = i /\ task.user = orders[i].user
<1>0. orders'[i].status # orders[i].status
  OBVIOUS
<1>1. CASE PersistNew
  BY <1>0, <1>1, PersistNewEffect
<1>2. CASE PersistEdit
  BY <1>0, <1>2, PersistEditEffect DEF Redelivered, Orders
<1>3. CASE SetPaymentUrl
  <2>1. i = task.order
    BY <1>0, <1>3, SetPaymentUrlEffect
  <2>2. task.kind # "new"
    BY <1>3, <2>1 DEF SetPaymentUrl, At, TypeInv, TaskInv, Finished
  <2> QED
    BY <1>3, <2>1, <2>2 DEF SetPaymentUrl, At, TypeInv, TaskInv, CheckoutSteps, OwnsOrder
<1>4. ASSUME NEW j \in DOMAIN orders, NEW s \in Statuses,
             orders' = [orders EXCEPT ![j].status = s]
      PROVE  i = j /\ orders'[i].status = s
  BY <1>0, <1>4, StatusWriteEffect DEF Orders
<1>5. ASSUME NEW j \in DOMAIN orders, NEW s \in Statuses, UpdateOrderStatus(j, s)
      PROVE  FALSE
  <2>1. i = j /\ CanTransition(orders[i].status, s)
    BY <1>4, <1>5 DEF UpdateOrderStatus
  <2> QED
    BY <2>1 DEF CanTransition, ValidTransitions, Finished
<1>6. CASE \E j \in DOMAIN orders :
             task.pc = "idle" /\ orders' = [orders EXCEPT ![j].status = "CANCELLED"]
  BY <1>4, <1>6 DEF Statuses, Finished
<1> QED
  BY <1>0, <1>1, <1>2, <1>3, <1>5, <1>6, WritesOfOrders DEF OrderWrite

LEMMA KeepStep ==
  ASSUME TypeInv, CheckoutKeepsGoods, [Next]_vars
  PROVE  CheckoutKeepsGoods'
<1> USE DEF At, GoOn, Handles, HandlerEnds, database, disk
<1>1. /\ OrdersType /\ CartType /\ task \in Tasks
      /\ TaskInv /\ SessionPointsAtOwnOrder
  BY DEF TypeInv, TypeOK
<1>2. Idle.kind # "new"
  BY NoneAssumption DEF Idle
<1>3. CASE task' = Idle
  BY <1>2, <1>3 DEF CheckoutKeepsGoods
<1>4. CASE task.pc = "idle" /\ UNCHANGED task
  BY <1>1, <1>3, <1>4 DEF TaskInv
<1>5. ASSUME NEW u \in Users, NEW gift \in GiftKinds, AnswerGift(u, gift)
      PROVE  CheckoutKeepsGoods'
  <2>1. /\ task' \in Tasks
        /\ task'.pc = "persist" /\ task'.user = u /\ task'.lines = GetCart(cart[u], variants)
    <3>1. TypeInv'
      BY <1>5, StartTaskType
    <3> QED
      BY <1>5, <3>1 DEF AnswerGift, Idle, TypeInv, TypeOK
  <2>2. UNCHANGED cart
    BY <1>5 DEF AnswerGift
  <2>3. /\ DOMAIN GetCart(cart[u], variants) \subseteq DOMAIN cart[u]
        /\ \A p \in DOMAIN GetCart(cart[u], variants) :
             GetCart(cart[u], variants)[p].qty = cart[u][p].qty
    BY DEF GetCart
  <2>4. task'.hidden = DOMAIN cart[u] \ DOMAIN GetCart(cart[u], variants)
    BY <1>5 DEF AnswerGift, Idle
  <2> QED
    BY <2>1, <2>2, <2>3, <2>4 DEF CheckoutKeepsGoods, CartIs
<1>6. ASSUME NEW u \in Users,
             ChangeDelivery(u) \/ \E i \in DOMAIN orders : RepeatOrder(u, i)
      PROVE  CheckoutKeepsGoods'
  <2>1. task'.kind \in {"change", "repeat"} \/ (task.pc = "idle" /\ UNCHANGED task)
    BY <1>6 DEF ChangeDelivery, RepeatOrder, Idle
  <2> QED
    BY <1>4, <2>1 DEF CheckoutKeepsGoods
<1>7. ASSUME NEW u \in Users, Customer(u) PROVE CheckoutKeepsGoods'
  BY <1>4, <1>5, <1>6, <1>7
     DEF Customer, StartOrdering, PutInCart, TakeFromCart, ShowCart, ClearCartButton,
         Checkout, OpenDeliveryMap, ChoosePickup, PickOnMap, UseSavedAddress,
         AbandonCheckout, CancelOnScreen,
         LoseOrderScreen, PromptCancel, GiveCancelReason, KeepOrder, ExitToMainMenu,
         Logout
<1>8. CASE PersistNew
  <2>1. /\ task'.pc = "clear" /\ task'.order = Len(orders) + 1
        /\ task'.lines = task.lines /\ task'.hidden = task.hidden
        /\ task'.user = task.user /\ UNCHANGED cart
        /\ task.pc = "persist" /\ task.kind = "new"
    BY <1>1, <1>8 DEF PersistNew, Tasks
  <2>2. orders'[Len(orders) + 1].items = task.lines
    BY <1>8, PersistNewEffect
  <2> QED
    BY <2>1, <2>2 DEF CheckoutKeepsGoods
<1>9. CASE PersistEdit \/ ForgetEditing \/ RefillClear \/ RefillDone
           \/ \E p \in Products, saved \in Prices \cup {0} : RefillItem(p, saved)
  <2>1. task'.kind # "new"
    BY <1>1, <1>2, <1>9
       DEF PersistEdit, ForgetEditing, RefillClear, RefillItem, RefillDone, TaskInv, Tasks
  <2> QED
    BY <2>1 DEF CheckoutKeepsGoods
<1>10. CASE ClearCart \/ CreatePayment \/ Present
  <2>1. CASE task' = Idle
    BY <1>3, <2>1
  <2>2. CASE task' # Idle
    <3>1. /\ task'.kind = task.kind /\ task'.order = task.order
          /\ task'.lines = task.lines /\ task'.pc \notin {"persist", "clear"}
          /\ UNCHANGED orders /\ task.pc # "persist"
      BY <1>1, <1>10, <2>2 DEF ClearCart, CreatePayment, Present, Tasks
    <3> QED
      BY <3>1 DEF CheckoutKeepsGoods
  <2> QED
    BY <2>1, <2>2
<1>11. CASE SetPaymentUrl
  <2>1. /\ task'.kind = task.kind /\ task'.order = task.order
        /\ task'.lines = task.lines /\ task'.pc = "present" /\ task.pc # "persist"
    BY <1>1, <1>11 DEF SetPaymentUrl, Tasks
  <2>2. orders'[task.order].items = orders[task.order].items
    BY <1>1, <1>11, SetPaymentUrlEffect, OrderOf DEF Orders
  <2> QED
    BY <2>1, <2>2 DEF CheckoutKeepsGoods
<1>12. CASE TaskStep
  BY <1>3, <1>8, <1>9, <1>10, <1>11, <1>12 DEF TaskStep, RejectTotal, Approve
<1>13. CASE Staff
  BY <1>4, <1>13 DEF Staff, StaffAction
<1>14. CASE DayPasses
  <2>1. UNCHANGED <<orders, task>>
    BY <1>14 DEF DayPasses
  <2>2. ASSUME NEW u \in Users
        PROVE  /\ DOMAIN cart'[u] = DOMAIN cart[u]
               /\ \A p \in DOMAIN cart[u] : cart'[u][p].qty = cart[u][p].qty
    <3>1. cart[u] \in [DOMAIN cart[u] -> Rows]
      BY <1>1, PartialElim DEF CartType, Carts
    <3> QED
      BY <1>14, <3>1 DEF DayPasses, Rows
  <2>3. task.kind = "new" => task.user \in Users
    BY <1>1, <1>2 DEF TaskInv
  <2> QED
    BY <2>1, <2>2, <2>3 DEF CheckoutKeepsGoods, CartIs
<1>15. CASE Environment
  <2>1. CASE UNCHANGED <<orders, cart, task>>
    BY <2>1 DEF CheckoutKeepsGoods
  <2> QED
    BY <1>3, <1>14, <1>15, <2>1
       DEF Environment, SyncWipe, SyncFill, EditScreenFails, HandlerRaises, Flush, Crash
<1>16. CASE UNCHANGED vars
  BY <1>16 DEF vars, CheckoutKeepsGoods
<1> QED
  BY <1>7, <1>12, <1>13, <1>15, <1>16 DEF Next

------------------------------------------------------------------------------
(* The theorems.                                                           *)

\* Every variable keeps its type, the running handler's locals agree with the
\* database, and the session points at the customer's own orders.
THEOREM TypeCorrect == Spec => []TypeInv
<1>1. Init => TypeInv
  BY TypeInit
<1>2. TypeInv /\ [Next]_vars => TypeInv'
  BY TypeStep
<1> QED
  BY <1>1, <1>2, PTL DEF Spec

\* The variables of the checkout always have their types.
THEOREM TypesHold == Spec => []TypeOK
<1>1. TypeInv => TypeOK
  BY DEF TypeInv
<1> QED
  BY <1>1, TypeCorrect, PTL

\* editing_order_id, current_active_order_id and the order being cancelled are
\* orders of the customer who holds them, before and after any crash.
THEOREM SessionCorrect == Spec => []SessionPointsAtOwnOrder
<1>1. TypeInv => SessionPointsAtOwnOrder
  BY DEF TypeInv
<1> QED
  BY <1>1, TypeCorrect, PTL

\* The pay button of an unpaid order charges its current total, whatever
\* exceptions and crashes happen between the two writes of a checkout.
THEOREM PayButtonCorrect == Spec => []PayButtonChargesTotal
<1>1. Init => PayButtonChargesTotal
  BY DEF Init, PayButtonChargesTotal
<1>2. TypeInv /\ PayButtonChargesTotal /\ [Next]_vars => PayButtonChargesTotal'
  BY PayStep
<1> QED
  BY <1>1, <1>2, TypeCorrect, PTL DEF Spec

\* What clear_cart deletes in a checkout is in the order that was written for
\* it, save the rows the catalogue hid from the snapshot; until then the whole
\* cart is there.
THEOREM GoodsKept == Spec => []CheckoutKeepsGoods
<1>1. Init => CheckoutKeepsGoods
  BY NoneAssumption DEF Init, CheckoutKeepsGoods, Idle
<1>2. TypeInv /\ CheckoutKeepsGoods /\ [Next]_vars => CheckoutKeepsGoods'
  BY KeepStep
<1> QED
  BY <1>1, <1>2, TypeCorrect, PTL DEF Spec

\* A completed or cancelled order is brought back by nothing but the payment
\* link of a re-delivery that its own customer makes.
THEOREM FinishedStays == Spec => OnlyItsRedeliveryReopens
<1>1. TypeInv /\ [Next]_vars =>
        \A i \in DOMAIN orders :
          orders[i].status \in Finished /\ orders'[i].status \notin Finished =>
            /\ task.kind = "edit" /\ task.order = i
            /\ task.user = orders[i].user
  BY ReopenStep
<1> QED
  BY <1>1, TypeCorrect, PTL DEF Spec, OnlyItsRedeliveryReopens

------------------------------------------------------------------------------
(* OrderCheckout implements OrderBook.                                     *)

LEMMA BookIsSeq ==
  ASSUME NEW table \in Seq(Orders)
  PROVE  /\ BookOf(table) \in Seq(Book!Entries)
         /\ Len(BookOf(table)) = Len(table)
         /\ DOMAIN BookOf(table) = DOMAIN table
         /\ Len(table) \in Nat /\ DOMAIN table = 1 .. Len(table)
<1> DEFINE n == Len(table)
<1>1. n \in Nat /\ DOMAIN table = 1 .. n
  BY LenProperties
<1>2. \A i \in 1 .. n : table[i] \in Orders
  BY ElementOfSeq
<1>3. BookOf(table) \in [1 .. n -> Book!Entries]
  BY <1>1, <1>2 DEF BookOf, Book!Entries, Orders, Statuses, Book!Statuses
<1> HIDE DEF n
<1>4. BookOf(table) \in Seq(Book!Entries)
  BY <1>1, <1>3, SeqDef
<1>5. DOMAIN BookOf(table) = 1 .. n
  BY <1>3
<1>6. Len(BookOf(table)) = n
  BY <1>1, <1>4, <1>5, LenProperties
<1> QED
  BY <1>1, <1>4, <1>5, <1>6 DEF n

\* A write that moves one status is a SetStatus of the book.
LEMMA BookStatus ==
  ASSUME OrdersType, NEW i \in DOMAIN orders, NEW s,
         DOMAIN orders' = DOMAIN orders,
         \A j \in DOMAIN orders :
           /\ orders'[j].user = orders[j].user
           /\ orders'[j].items = orders[j].items
           /\ orders'[j].status = IF j = i THEN s ELSE orders[j].status
  PROVE  /\ BookOf(orders') = [BookOf(orders) EXCEPT ![i].status = s]
         /\ BookOf(orders)[i].status = orders[i].status
BY DEF BookOf

LEMMA BookStep ==
  ASSUME TypeInv, [Next]_vars
  PROVE  [Book!Next]_(BookOf(orders))
<1>0. OrdersType /\ orders \in Seq(Orders) /\ orders' \in Seq(Orders)
  BY TypeStep DEF TypeInv, TypeOK, OrdersType
<1> USE DEF Book!Next
<1>1. CASE UNCHANGED orders
  BY <1>1 DEF BookOf
<1>2. CASE PersistNew
  <2> DEFINE e == [user |-> task.user, items |-> task.lines, status |-> "ACCEPTED"]
  <2>1. task.user \in Users /\ task.lines \in Lines
    BY <1>2 DEF PersistNew, At, TypeInv, TypeOK, TaskInv, Tasks
  <2>2. e \in Book!Entries
    BY <2>1 DEF Book!Entries, Book!Statuses
  <2> DEFINE old == BookOf(orders)
             new == BookOf(orders')
  <2>3. /\ old \in Seq(Book!Entries) /\ Len(old) = Len(orders)
        /\ new \in Seq(Book!Entries) /\ Len(new) = Len(orders')
        /\ Len(orders) \in Nat /\ DOMAIN orders = 1 .. Len(orders)
    BY <1>0, BookIsSeq
  <2>4. Len(orders') = Len(orders) + 1 /\ Len(orders) < MaxOrders
    BY <1>0, <1>2, PersistNewEffect, LenProperties
  <2>5. /\ \A i \in 1 .. Len(orders) : new[i] = old[i]
        /\ new[Len(orders) + 1] = e
    <3>1. /\ DOMAIN orders' = 1 .. (Len(orders) + 1)
          /\ \A i \in 1 .. Len(orders) : orders'[i] = orders[i]
          /\ orders'[Len(orders) + 1].user = task.user
          /\ orders'[Len(orders) + 1].items = task.lines
          /\ orders'[Len(orders) + 1].status = "ACCEPTED"
      BY <1>2, PersistNewEffect
    <3> QED
      BY <2>3, <3>1 DEF BookOf
  <2> HIDE DEF e, old, new
  <2>6. new = Append(old, e)
    <3> DEFINE t == Append(old, e)
    <3>1. /\ t \in Seq(Book!Entries) /\ Len(t) = Len(orders) + 1
          /\ \A i \in 1 .. Len(orders) : t[i] = old[i]
          /\ t[Len(orders) + 1] = e
      BY <2>2, <2>3, AppendProperties
    <3> HIDE DEF t
    <3>2. \A i \in 1 .. Len(new) : new[i] = t[i]
      BY <2>3, <2>4, <2>5, <3>1
    <3>3. Len(new) = Len(t)
      BY <2>3, <2>4, <3>1
    <3> QED
      BY <2>3, <3>1, <3>2, <3>3, SeqEqual DEF t
  <2>7. Book!Place(task.user, task.lines)
    BY <2>3, <2>4, <2>6 DEF Book!Place, e, old, new
  <2> QED
    BY <2>1, <2>7
<1>3. CASE PersistEdit
  <2>1. \A j \in DOMAIN orders :
          /\ orders'[j].user = orders[j].user
          /\ orders'[j].items = orders[j].items
          /\ orders'[j].status = orders[j].status
    BY <1>3, PersistEditEffect DEF Redelivered, Orders
  <2> QED
    BY <1>3, <2>1, PersistEditEffect DEF BookOf
<1>4. ASSUME NEW i \in DOMAIN orders, NEW s \in Statuses,
             orders' = [orders EXCEPT ![i].status = s]
      PROVE  /\ i \in DOMAIN BookOf(orders) /\ BookOf(orders)[i].status = orders[i].status
             /\ Book!SetStatus(i, s)
  <2>1. /\ DOMAIN orders' = DOMAIN orders
        /\ \A j \in DOMAIN orders :
             /\ orders'[j].user = orders[j].user
             /\ orders'[j].items = orders[j].items
             /\ orders'[j].status = IF j = i THEN s ELSE orders[j].status
    BY <1>4, StatusWriteEffect DEF Orders
  <2> QED
    BY <1>0, <2>1, BookStatus, BookIsSeq DEF Book!SetStatus
<1>5. CASE SetPaymentUrl
  <2> DEFINE i == task.order
  <2>1. /\ i \in DOMAIN orders /\ DOMAIN orders' = DOMAIN orders
        /\ \A j \in DOMAIN orders :
             /\ orders'[j].user = orders[j].user
             /\ orders'[j].items = orders[j].items
             /\ orders'[j].status = IF j = i THEN "AWAITING_PAYMENT" ELSE orders[j].status
    BY <1>0, <1>5, SetPaymentUrlEffect, OrderOf DEF Orders
  <2>2. i \in DOMAIN BookOf(orders) /\ Book!AwaitPayment(i)
    BY <1>0, <2>1, BookStatus, BookIsSeq DEF Book!AwaitPayment, Book!SetStatus
  <2> QED
    BY <2>2
<1>6. ASSUME NEW i \in DOMAIN orders, NEW s \in Statuses, UpdateOrderStatus(i, s)
      PROVE  Book!Next
  <2>1. Book!CanTransition(orders[i].status, s) /\ s \in Book!Statuses
    BY <1>6
       DEF UpdateOrderStatus, CanTransition, Book!CanTransition, Statuses, Book!Statuses,
           ValidTransitions, Book!ValidTransitions
  <2>2. Book!Advance(i)
    BY <1>4, <1>6, <2>1 DEF UpdateOrderStatus, Book!Advance
  <2> QED
    BY <1>4, <1>6, <2>2 DEF UpdateOrderStatus
<1>7. ASSUME NEW i \in DOMAIN orders,
             orders' = [orders EXCEPT ![i].status = "CANCELLED"]
      PROVE  Book!Next
  <2>1. i \in DOMAIN BookOf(orders) /\ Book!CustomerCancels(i)
    BY <1>4, <1>7 DEF Book!CustomerCancels, Statuses
  <2> QED
    BY <2>1
<1> QED
  BY <1>1, <1>2, <1>3, <1>5, <1>6, <1>7, WritesOfOrders DEF OrderWrite

\* The checkout, with its conversations, failures and crashes, keeps the
\* promises of the order book.
THEOREM BookImplemented == Spec => ImplementsOrderBook
<1>1. Init => Book!Init
  <2>1. ASSUME Init PROVE BookOf(orders) = << >>
    <3>1. orders \in Seq(Orders) /\ Len(orders) = 0
      BY <2>1, EmptySeq DEF Init
    <3>2. /\ BookOf(orders) \in Seq(Book!Entries) /\ Len(BookOf(orders)) = 0
      BY <3>1, BookIsSeq
    <3> QED
      BY <3>2, EmptySeq
  <2> QED
    BY <2>1 DEF Book!Init
<1>2. TypeInv /\ [Next]_vars => [Book!Next]_(BookOf(orders))
  BY BookStep
<1> QED
  BY <1>1, <1>2, TypeCorrect, PTL DEF Spec, ImplementsOrderBook, Book!Spec

--------------------------------------------------------------------------------
(* The length of a handler                                                *)

\* How far a handler is from its end: the steps behind the one it is at, and
\* the lines it has still to copy.
StepsAfter(pc) ==
  CASE pc = "persist" -> 7
    [] pc = "forget"  -> 6
    [] pc = "clear"   -> 5
    [] pc = "pay"     -> 4
    [] pc = "link"    -> 3
    [] pc = "present" -> 2
    [] pc = "approve" -> 1
    [] pc = "empty"   -> 2
    [] pc = "refill"  -> 1
    [] OTHER          -> 0

NearerEnd(t, s) ==
  \/ StepsAfter(t.pc) < StepsAfter(s.pc)
  \/ /\ StepsAfter(t.pc) = StepsAfter(s.pc)
     /\ DOMAIN t.lines \subseteq DOMAIN s.lines /\ DOMAIN t.lines # DOMAIN s.lines

LEMMA IdleIsNearer ==
  ASSUME task \in Tasks, task.pc # "idle" PROVE NearerEnd(Idle, task)
  BY DEF NearerEnd, StepsAfter, Idle, Tasks

LEMMA StepIsNearer ==
  ASSUME task \in Tasks, TaskStep PROVE NearerEnd(task', task)
<1>0. task.pc # "idle"
  BY DEF TaskStep, RejectTotal, PersistNew, PersistEdit, ForgetEditing, ClearCart,
         CreatePayment, SetPaymentUrl, Present, Approve, RefillClear, RefillItem, RefillDone, At
<1>1. ASSUME HandlerEnds PROVE NearerEnd(task', task)
  BY <1>0, <1>1, IdleIsNearer DEF HandlerEnds
<1>2. ASSUME RejectTotal \/ Approve \/ RefillDone PROVE HandlerEnds
  BY <1>2 DEF RejectTotal, Approve, RefillDone
<1>3. ASSUME PersistNew \/ PersistEdit
      PROVE  task.pc = "persist" /\ task'.pc \in {"forget", "clear"}
  BY <1>3 DEF PersistNew, PersistEdit, At, Tasks
<1>4. ASSUME ForgetEditing \/ ClearCart
      PROVE  \/ task.pc = "forget" /\ task'.pc = "clear"
             \/ task.pc = "clear" /\ task'.pc = "pay"
  BY <1>4 DEF ForgetEditing, ClearCart, At, GoOn, Tasks
<1>5. ASSUME CreatePayment PROVE task.pc = "pay" /\ task'.pc \in {"link", "present"}
  BY <1>5 DEF CreatePayment, At, GoOn, Tasks
<1>6. ASSUME SetPaymentUrl PROVE task.pc = "link" /\ task'.pc = "present"
  BY <1>6 DEF SetPaymentUrl, At, GoOn, Tasks
<1>7. ASSUME Present
      PROVE  HandlerEnds \/ (task.pc = "present" /\ task'.pc = "approve")
  BY <1>7 DEF Present, At, GoOn, Tasks
<1>8. ASSUME RefillClear PROVE task.pc = "empty" /\ task'.pc = "refill"
  BY <1>8 DEF RefillClear, At, GoOn, Tasks
<1>9. ASSUME NEW p \in Products, NEW saved \in Prices \cup {0}, RefillItem(p, saved)
      PROVE  NearerEnd(task', task)
  <2>1. p \in DOMAIN task.lines /\ task'.pc = task.pc
        /\ task'.lines = Restrict(task.lines, DOMAIN task.lines \ {p})
    BY <1>9 DEF RefillItem, Tasks
  <2>2. DOMAIN task'.lines = DOMAIN task.lines \ {p}
    BY <2>1 DEF Restrict
  <2> QED
    BY <2>1, <2>2 DEF NearerEnd
<1>10. ASSUME StepsAfter(task'.pc) < StepsAfter(task.pc) PROVE NearerEnd(task', task)
  BY <1>10 DEF NearerEnd
<1>11. CASE HandlerEnds
  BY <1>1, <1>11
<1>12. CASE \/ PersistNew \/ PersistEdit \/ ForgetEditing \/ ClearCart
           \/ CreatePayment \/ SetPaymentUrl \/ RefillClear
  BY <1>3, <1>4, <1>5, <1>6, <1>8, <1>10, <1>12 DEF StepsAfter
<1>13. CASE Present /\ ~HandlerEnds
  BY <1>7, <1>10, <1>13 DEF StepsAfter
<1> QED
  BY <1>2, <1>9, <1>11, <1>12, <1>13 DEF TaskStep

\* What is no step of the running handler ends it, or leaves it alone.
LEMMA OthersWait ==
  ASSUME task \in Tasks, task.pc # "idle", [Next]_vars, ~TaskStep
  PROVE  task' \in {task, Idle}
<1>1. ASSUME NEW u \in Users, Customer(u) PROVE FALSE
  BY <1>1 DEF Customer, StartOrdering, PutInCart, TakeFromCart, ShowCart,
       ClearCartButton, Checkout, OpenDeliveryMap, ChoosePickup, PickOnMap,
       UseSavedAddress, AbandonCheckout, AnswerGift, CancelOnScreen, LoseOrderScreen,
       ChangeDelivery, RepeatOrder, PromptCancel, GiveCancelReason, KeepOrder,
       ExitToMainMenu, Logout, Handles
<1>2. ASSUME Staff PROVE FALSE
  BY <1>2 DEF Staff, StaffAction
<1>3. ASSUME Environment PROVE task' \in {task, Idle}
  BY <1>3 DEF Environment, SyncWipe, SyncFill, DayPasses, EditScreenFails,
       HandlerRaises, HandlerEnds, Flush, Crash
<1>4. CASE UNCHANGED vars
  BY <1>4 DEF vars
<1> QED
  BY <1>1, <1>2, <1>3, <1>4 DEF Next

\* No handler keeps the dispatcher for ever: each of its steps brings it nearer
\* to its end, and no update, failure, sync or flush in between sets it back or
\* gives it more to do.  What DispatcherFreed needs beside this is that the
\* event loop resumes the handler.
THEOREM HandlerWindsDown ==
  Spec => [][task.pc # "idle" =>
               IF TaskStep THEN NearerEnd(task', task)
                           ELSE task' = task \/ task' = Idle]_vars
<1>1. TypeOK /\ [Next]_vars
      => (task.pc # "idle" => IF TaskStep THEN NearerEnd(task', task)
                                          ELSE task' = task \/ task' = Idle)
  BY StepIsNearer, OthersWait DEF TypeOK
<1> QED
  BY <1>1, TypesHold, PTL DEF Spec

\* How a handler that has written its order ends.
LEMMA CheckoutEnds ==
  ASSUME TypeInv, [Next]_vars,
         task.pc \in CheckoutSteps, task'.pc = "idle", faults' = faults
  PROVE  \/ conv'[task.user] = "ORDER_CREATED"
         \/ NoticeRaises
         \/ At("approve") /\ ~CanTransition(orders[task.order].status, "AWAITING_PAYMENT")
<1>0. /\ task \in Tasks /\ task.pc # "idle" /\ task.user \in Users
      /\ conv \in [Users -> ConvStates] /\ faults \in Nat /\ task.kind \in {"new", "edit"}
  BY BoundAssumption DEF TypeInv, TypeOK, ChatType, DiskType, TaskInv, CheckoutSteps, At
<1>1. ShowsOrder(task.user) => conv'[task.user] = "ORDER_CREATED"
  BY <1>0 DEF ShowsOrder, GoTo
<1>2. CASE Present
  <2>1. ~GoOn("approve")
    BY <1>0 DEF GoOn, Tasks
  <2> QED
    BY <1>1, <1>2, <2>1 DEF Present
<1>3. CASE Approve
  BY <1>1, <1>3 DEF Approve
<1>4. ~RejectTotal /\ ~RefillDone /\ ~RefillClear
  BY DEF RejectTotal, RefillDone, RefillClear, At, CheckoutSteps
<1>5. \A p \in Products, saved \in Prices \cup {0} : ~RefillItem(p, saved)
  BY DEF RefillItem, At, CheckoutSteps
<1>6. ~PersistNew /\ ~PersistEdit
  BY DEF PersistNew, PersistEdit, At, CheckoutSteps
<1>7. ~ForgetEditing /\ ~ClearCart /\ ~CreatePayment /\ ~SetPaymentUrl
  BY <1>0 DEF ForgetEditing, ClearCart, CreatePayment, SetPaymentUrl, GoOn, Tasks
<1>8. CASE ~TaskStep
  <2>1. task' # task
    BY <1>0
  <2>2. ASSUME NEW u \in Users, Customer(u) PROVE FALSE
    BY <1>0, <2>2 DEF Customer, StartOrdering, PutInCart, TakeFromCart, ShowCart,
         ClearCartButton, Checkout, OpenDeliveryMap, ChoosePickup, PickOnMap,
         UseSavedAddress, AbandonCheckout, AnswerGift, CancelOnScreen, LoseOrderScreen,
         ChangeDelivery, RepeatOrder, PromptCancel, GiveCancelReason, KeepOrder,
         ExitToMainMenu, Logout, Handles
  <2>3. ~Staff
    BY <1>0 DEF Staff, StaffAction
  <2>4. ~Environment
    BY <1>0, <2>1 DEF Environment, SyncWipe, SyncFill, DayPasses, EditScreenFails,
         HandlerRaises, Flush, Crash
  <2> QED
    BY <1>8, <2>1, <2>2, <2>3, <2>4 DEF Next, vars
<1> QED
  BY <1>2, <1>3, <1>4, <1>5, <1>6, <1>7, <1>8 DEF TaskStep

\* A checkout that has written its order and in which no call fails ends on the
\* screen of that order, whatever cancellations, edits of the catalogue and
\* flushes come between its steps, except in two ways: the notice to the staff
\* asks a new order for fields it does not have, or auto_approve_orders asks for
\* a move that the status does not allow.  With HandlerWindsDown this is why
\* CheckoutAnswered holds without the two.
THEOREM OrderScreenReached ==
  Spec => [][task.pc \in CheckoutSteps /\ task'.pc = "idle" /\ faults' = faults =>
               \/ conv'[task.user] = "ORDER_CREATED"
               \/ NoticeRaises
               \/ /\ At("approve")
                  /\ ~CanTransition(orders[task.order].status, "AWAITING_PAYMENT")]_vars
<1>1. TypeInv /\ [Next]_vars =>
        (task.pc \in CheckoutSteps /\ task'.pc = "idle" /\ faults' = faults =>
           \/ conv'[task.user] = "ORDER_CREATED"
           \/ NoticeRaises
           \/ At("approve") /\ ~CanTransition(orders[task.order].status, "AWAITING_PAYMENT"))
  BY CheckoutEnds
<1> QED
  BY <1>1, TypeCorrect, PTL DEF Spec

==============================================================================
