----------------------------- MODULE CartService -----------------------------
(***************************************************************************)
(* The queries of tg_bot/bot_services/cart_service.py as operators on a    *)
(* user's cart_items rows and on the product_variants table.               *)
(*                                                                         *)
(* A cart is a function from the products it holds to rows: the quantity,  *)
(* the price snapshot taken when the row was written, and whether the row  *)
(* is more than 24 hours old.  A snapshot is what get_cart hands to the    *)
(* handlers: for each product a quantity and the price of today.           *)
(***************************************************************************)
EXTENDS Integers, FiniteSets, FiniteSetsExt, Functions

CONSTANTS Products,   \* products of the catalogue
          Prices,     \* prices a product variant may have
          MaxQty      \* bound: largest quantity of a row

ASSUME CatalogueAssumption ==
  /\ IsFiniteSet(Products)
  /\ Prices \subseteq Nat /\ IsFiniteSet(Prices)
  /\ MaxQty \in Nat \ {0}

PartialFunctions(S, T) == UNION {[D -> T] : D \in SUBSET S}

Rows  == [qty : 1 .. MaxQty, saved : Prices \cup {0}, old : BOOLEAN]
Carts == PartialFunctions(Products, Rows)
Lines == PartialFunctions(Products, [qty : 1 .. MaxQty, price : Prices])

EmptyCart == [p \in {} |-> 0]

\* get_cart: the INNER JOIN drops a product without variants; DISTINCT ON with
\* ORDER BY price keeps its cheapest variant.
GetCart(cart, variants) ==
  [p \in {q \in DOMAIN cart : variants[q] # {}} |->
     [qty |-> cart[p].qty, price |-> Min(variants[p])]]

\* The current prices the cart compares with: those of the variants, or NULL,
\* which validate_cart reads as 0.
CurrentPrices(variants, p) == IF variants[p] = {} THEN {0} ELSE variants[p]

\* Deliberate bug: ON CONFLICT adds to the quantity.
AddToItem(cart, p, qty, saved) ==
  [q \in DOMAIN cart \cup {p} |->
     IF q # p THEN cart[q]
     ELSE [qty |-> qty + (IF p \in DOMAIN cart THEN cart[p].qty ELSE 0),
           saved |-> saved, old |-> FALSE]]

\* update_item: saved is the price the unordered LIMIT 1 sub-query happened to
\* return, and created_at = NOW() makes the row fresh again.
UpdateItem(cart, p, qty, saved) ==
  [q \in DOMAIN cart \cup {p} |->
     IF q = p THEN [qty |-> qty, saved |-> saved, old |-> FALSE] ELSE cart[q]]

\* remove_item
RemoveItem(cart, p) == Restrict(cart, DOMAIN cart \ {p})

\* validate_cart, rule 1: the rows that get the whole cart cleared.  The LEFT
\* JOIN compares the snapshot with the price of every variant.
StaleRows(cart, avail, variants) ==
  {p \in DOMAIN cart :
     /\ cart[p].old
     /\ \/ ~avail[p]
        \/ \E price \in CurrentPrices(variants, p) : price # cart[p].saved}

\* validate_cart, rule 2
UnavailableRows(cart, avail) == {p \in DOMAIN cart : ~avail[p]}

\* calculate_order_totals: the price of the goods of a snapshot.
Goods(lines) == MapThenSumSet(LAMBDA p : lines[p].qty * lines[p].price,
                              DOMAIN lines)
==============================================================================
