----------------------------- MODULE DeliveryAdmin -----------------------------
(***************************************************************************)
(* Places to pick an order up and cities with a courier: the settings that *)
(* one administrator edits (handlers/admin_panel.py) and the list of       *)
(* places that a customer chooses from                                     *)
(* (handlers/order_delivery_checkout.py).                                  *)
(*                                                                         *)
(* Both are JSON lists in bot_settings, read and written whole within one  *)
(* update.  Buttons name a pickup point by its index and a city by its     *)
(* name, and buttons of earlier messages stay.  Of a point only whether it *)
(* is hidden counts, of a city's name and price only in which pass through *)
(* the wizard they were typed.  The wizard for new points stops at its     *)
(* first question: each of its steps wants a message and a button in the   *)
(* same update.  No customer reaches the list of cities: the handler of    *)
(* the courier's button comes after one whose pattern matches it too.      *)
(***************************************************************************)
EXTENDS Filtering, SequencesExt

CONSTANTS
  Points,      \* the pickup points of the settings, all shown
  Cities,      \* names of cities
  MaxCities,   \* bound: entries of the list of cities
  MaxPasses    \* bound: passes through the wizard of cities

ASSUME DeliveryAssumption == IsFiniteSet(Points) /\ MaxCities \in Nat /\ MaxPasses \in Nat

VARIABLES
  points,      \* pickup_points: [point, active]
  cities,      \* courier_cities: [name, and the passes that typed name and cost]
  editor,      \* the conversation about points, and p_edit_idx
  wizard,      \* the conversation about a new city, and what it remembers
  offered,     \* the customer's list of points; straight: none was hidden when
               \* it was drawn and none was deleted since
  taken        \* the point last chosen: the button's and the order's

deliveryVars == <<points, cities, editor, wizard, offered, taken>>

Nothing == "nothing"

--------------------------------------------------------------------------------

DeliveryInit ==
  /\ points = LET row == CHOOSE r \in SetToSeqs(Points) : TRUE
              IN [i \in DOMAIN row |-> [point |-> row[i], active |-> TRUE]]
  /\ cities = <<>>
  /\ editor = [stage |-> "idle", idx |-> 0]
  /\ wizard = [stage |-> "idle", pass |-> 0, name |-> Nothing, named |-> 0, priced |-> 0]
  /\ offered = [list |-> <<>>, straight |-> TRUE]
  /\ taken = [pressed |-> Nothing, order |-> Nothing, straight |-> TRUE]

--------------------------------------------------------------------------------
\* Pickup points, the administrator.

\* Deliberate bug: a point that is hidden moves to the end of the list.
HideAtTheEnd(i) ==
  /\ i \in DOMAIN points
  /\ points' = IF points[i].active
               THEN Append(RemoveAt(points, i), [points[i] EXCEPT !.active = FALSE])
               ELSE [points EXCEPT ![i].active = TRUE]
  /\ UNCHANGED <<cities, editor, wizard, offered, taken>>

TogglePickupStatus(i) ==
  /\ i \in DOMAIN points
  /\ points' = [points EXCEPT ![i].active = ~@]
  /\ UNCHANGED <<cities, editor, wizard, offered, taken>>

\* A text that is still awaited for a field keeps its index.
DeletePickupPoint(i) ==
  /\ i \in DOMAIN points
  /\ points' = RemoveAt(points, i)
  /\ offered' = [offered EXCEPT !.straight = FALSE]
  /\ UNCHANGED <<cities, editor, wizard, taken>>

StartPickupFieldEdit(i) ==
  /\ editor.stage = "idle"
  /\ editor' = [stage |-> "value", idx |-> i]
  /\ UNCHANGED <<points, cities, wizard, offered, taken>>

\* The field of the point at that index is overwritten, whichever point that is
\* by now; the conversation goes on, and takes the next text for the field too.
SavePickupFieldVal == editor.stage = "value" /\ UNCHANGED deliveryVars

\* The first question; no text and no button leads on from it.
StartAddPickup ==
  /\ editor.stage = "idle"
  /\ editor' = [editor EXCEPT !.stage = "name"]
  /\ UNCHANGED <<points, cities, wizard, offered, taken>>

\* The list of points ends the conversation, wherever it was.
ShowPickupMgmt ==
  /\ editor' = [editor EXCEPT !.stage = "idle"]
  /\ UNCHANGED <<points, cities, wizard, offered, taken>>

\* The main menu forgets the index as well.
AdminExitToMainMenu ==
  /\ editor.stage # "idle"
  /\ editor' = [stage |-> "idle", idx |-> 0]
  /\ UNCHANGED <<points, cities, wizard, offered, taken>>

--------------------------------------------------------------------------------
\* Cities, the administrator.  The conversation about points comes first and
\* takes the texts while it waits for one.

UnchangedPoints == UNCHANGED <<points, editor, offered, taken>>

\* Deliberate bug: a name that an interrupted pass has left is used again.
ResumeCity ==
  /\ wizard.stage = "idle" /\ wizard.pass < MaxPasses
  /\ wizard' = [wizard EXCEPT !.pass = @ + 1,
                              !.stage = IF wizard.name = Nothing THEN "city" ELSE "cost"]
  /\ UNCHANGED cities /\ UnchangedPoints

StartAddCity ==
  /\ wizard.stage = "idle" /\ wizard.pass < MaxPasses
  /\ wizard' = [wizard EXCEPT !.pass = @ + 1, !.stage = "city"]
  /\ UNCHANGED cities /\ UnchangedPoints

SetCityName(name) ==
  /\ wizard.stage = "city" /\ editor.stage = "idle"
  /\ wizard' = [wizard EXCEPT !.stage = "cost", !.name = name, !.named = wizard.pass]
  /\ UNCHANGED cities /\ UnchangedPoints

SetCityCost ==
  /\ wizard.stage = "cost" /\ editor.stage = "idle"
  /\ wizard' = [wizard EXCEPT !.stage = "days", !.priced = wizard.pass]
  /\ UNCHANGED cities /\ UnchangedPoints

\* The city is added, and the conversation goes on: panel_start returns
\* nothing.  The next number raises, since the name is gone; only a restart
\* of the bot lets another city be added.
SetCityDays ==
  /\ wizard.stage = "days" /\ editor.stage = "idle"
  /\ wizard.name # Nothing
  /\ Len(cities) < MaxCities
  /\ cities' = Append(cities, [name |-> wizard.name, named |-> wizard.named,
                               priced |-> wizard.priced])
  /\ wizard' = [wizard EXCEPT !.name = Nothing]
  /\ UnchangedPoints

\* All entries of the name go.
DeleteCity(name) ==
  /\ cities' = Dropping(cities, {c \in ToSet(cities) : c.name = name})
  /\ UNCHANGED wizard /\ UnchangedPoints

\* An orderly restart.  The conversation about points is persistent, the one
\* about cities is not, and user_data with the name and the price is.
RestartDelivery ==
  /\ wizard' = [wizard EXCEPT !.stage = "idle"]
  /\ UNCHANGED cities /\ UnchangedPoints

--------------------------------------------------------------------------------
\* The customer.

\* Only the points that are not hidden are listed.
HandleSelfPickup ==
  LET active == Dropping(points, {p \in ToSet(points) : ~p.active}) IN
  /\ active # <<>>
  /\ offered' = [list |-> [i \in DOMAIN active |-> active[i].point],
                 straight |-> active = points]
  /\ UNCHANGED <<points, cities, editor, wizard, taken>>

\* The button's index is looked up among all points; beyond them the list is
\* drawn again.
HandlePickupPointChoice(i) ==
  /\ i \in DOMAIN offered.list
  /\ i \in DOMAIN points
  /\ taken' = [pressed |-> offered.list[i], order |-> points[i].point,
               straight |-> offered.straight]
  /\ UNCHANGED <<points, cities, editor, wizard, offered>>

DeliveryNext ==
  \/ \E i \in 1 .. Len(points) : \/ TogglePickupStatus(i) \/ DeletePickupPoint(i)
                                 \/ StartPickupFieldEdit(i)
  \/ SavePickupFieldVal \/ StartAddPickup \/ ShowPickupMgmt \/ AdminExitToMainMenu
  \/ StartAddCity \/ SetCityCost \/ SetCityDays
  \/ \E name \in Cities : SetCityName(name) \/ DeleteCity(name)
  \/ HandleSelfPickup
  \/ \E i \in 1 .. Len(offered.list) : HandlePickupPointChoice(i)
  \/ RestartDelivery

DeliverySpec == DeliveryInit /\ [][DeliveryNext]_deliveryVars

--------------------------------------------------------------------------------
\* Properties.

\* The order goes to the point whose button was pressed, however old the list
\* with the button is.  Two exceptions the code makes: a point that was hidden
\* when the list was drawn shifts the buttons against the settings (the hidden
\* point itself may be taken), and so does one that was deleted since.
PickupAsPressed == taken.straight => taken.order = taken.pressed

\* The name and the price of a city were typed in one pass through the wizard,
\* although a pass that a restart of the bot cuts short leaves its answers in
\* user_data, and the conversation about points may take the texts in between.
CityTypedAtOnce == \A i \in DOMAIN cities : cities[i].named = cities[i].priced

================================================================================
