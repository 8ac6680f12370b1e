------------------------------- MODULE MCServices -------------------------------
(***************************************************************************)
(* The parts that share no state with each other, checked in one run: in   *)
(* each behaviour one of them takes the steps, and the others rest.        *)
(*                                                                         *)
(* The shop has two products, one with photos, and five categories: a root *)
(* with two subcategories, a root with one, and a root without.            *)
(***************************************************************************)
EXTENDS Gateway, DeadLetters, Idempotency, ConfigCache, InfoPages, DeliveryAdmin,
        AddressBook, ShopScreens

CONSTANTS cup, pot, coffee, tea, espresso, filter, puer, mugs

TheSubs == [r \in {coffee, tea, mugs} |->
              CASE r = coffee -> {espresso, filter}
                [] r = tea    -> {puer}
                [] r = mugs   -> {}]

TheShelves == [c \in {coffee, tea, mugs, espresso, filter, puer, Everything} |->
                 CASE c \in {coffee, Everything} -> <<cup, pot>>
                   [] c \in {tea, puer, espresso} -> <<cup>>
                   [] c \in {mugs, filter} -> <<pot>>]

TheResults == {<<pot>>}

VARIABLE part   \* the one that takes the steps

vars == <<part, gatewayVars, dlqVars, idemVars, cacheVars, pagesVars, deliveryVars,
          addressVars, shopVars>>

Parts == {"gateway", "dead letters", "idempotency", "cache", "pages",
          "delivery", "addresses", "shop"}

Init ==
  /\ part \in Parts
  /\ GatewayInit /\ DlqInit /\ IdemInit /\ CacheInit /\ PagesInit
  /\ DeliveryInit /\ AddressInit /\ ShopInit
  \* One initial state is enough for a part that rests.
  /\ part # "dead letters" => ~wired
  /\ part # "idempotency" => scope = "order:create"

Rest(name, state) == part # name => UNCHANGED state

Others(name) ==
  /\ part = name
  /\ UNCHANGED part
  /\ Rest("gateway", gatewayVars) /\ Rest("dead letters", dlqVars)
  /\ Rest("idempotency", idemVars) /\ Rest("cache", cacheVars)
  /\ Rest("pages", pagesVars)
  /\ Rest("delivery", deliveryVars) /\ Rest("addresses", addressVars)
  /\ Rest("shop", shopVars)

Next ==
  \/ Others("gateway") /\ GatewayNext
  \/ Others("dead letters") /\ DlqNext
  \/ Others("idempotency") /\ IdemNext
  \/ Others("cache") /\ CacheNext
  \/ Others("pages") /\ PagesNext
  \/ Others("delivery") /\ DeliveryNext
  \/ Others("addresses") /\ AddressNext
  \/ Others("shop") /\ ShopNext

\* Time passes; an attempt under way ends; the process of the dead letters goes
\* on, and a cycle that may accept an event at every turn does so in the end.
Fairness ==
  /\ WF_vars(Others("gateway") /\ Tick)
  /\ \A c \in Callers : WF_vars(Others("gateway") /\ Proceed(c))
  /\ WF_vars(Others("dead letters") /\ Cycle)
  /\ SF_vars(Others("dead letters") /\ CycleAccepts)

Spec == Init /\ [][Next]_vars /\ Fairness
================================================================================
