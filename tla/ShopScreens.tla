------------------------------ MODULE ShopScreens ------------------------------
(***************************************************************************)
(* The shop as one approved customer sees it: the order conversation of    *)
(* handlers/order.py from the catalogue to the cart, with its product      *)
(* cards, its gallery, its sort menu, the search and the brewing guides.   *)
(*                                                                         *)
(* Three things must stay in step and are kept apart by the code: the      *)
(* state of the ConversationHandler, which decides who answers a button;   *)
(* context.user_data, which the handlers share; and the menu message on    *)
(* the customer's screen, whose buttons were built from either of them.    *)
(*                                                                         *)
(* Only the newest menu is tapped, and updates of one chat come one at a   *)
(* time.  The catalogue does not change (CatalogueSync), an empty category *)
(* does not exist, and the cart rows are the concern of CartService.  The  *)
(* editor of the cart's rows is left out, and the delivery screens are     *)
(* those of OrderCheckout.                                                 *)
(***************************************************************************)
EXTENDS Integers, Sequences, FiniteSets

CONSTANTS
  Products,     \* products on sale
  Pictured,     \* those with a photo on disk
  Albums,       \* those with several
  Names,        \* names of categories
  Roots,        \* categories of the first level
  Subs,         \* Subs[r]: the subcategories of root r
  OnShelf,      \* OnShelf[c]: the products of category c, in the order shown
  Everything,   \* the pseudo-category "all"
  Search,       \* the pseudo-category "search"
  Plain,        \* categories whose names pass the callback validator
  Drinks,       \* categories whose products are brewed
  Found,        \* what a search may return
  Presets,      \* the quantities of the grid (3, 6, 9 and 15)
  MaxQty,       \* bound: pieces of a product
  MaxRestarts,  \* bound: starts without the pickle file
  Absent          \* no product, no category

Cats == Names \cup {Everything, Search}

ASSUME ProductAssumption ==
  Albums \subseteq Pictured /\ Pictured \subseteq Products /\ Absent \notin Products

ASSUME CategoryAssumption ==
  /\ Roots \subseteq Names /\ Everything \notin Names /\ Search \notin Names
  /\ Everything # Search /\ Absent \notin Names \cup {Everything, Search}
  /\ Subs \in [Roots -> SUBSET Names]
  /\ Plain \subseteq Cats /\ Drinks \subseteq Names

\* A category is a category of some product; a search without a result shows
\* no list.
ASSUME ShelfAssumption ==
  /\ OnShelf \in [Names \cup {Everything} -> Seq(Products)]
  /\ \A c \in Names \cup {Everything} : OnShelf[c] # <<>>
  /\ Found \subseteq Seq(Products) \ {<<>>}

ASSUME BoundAssumption ==
  MaxQty \in Nat \ {0} /\ Presets \subseteq 1 .. MaxQty /\ MaxRestarts \in Nat

VARIABLES
  conv,       \* the state of order_conversation
  ud,         \* context.user_data
  cart,       \* pieces of every product in cart_items
  screen,     \* the newest menu message
  restarts    \* starts without the pickle file

shopVars == <<conv, ud, cart, screen, restarts>>

Convs == {"END", "CATEGORIES", "PRODUCTS", "CARD", "CART", "DELIVERY", "SEARCH"}

UserData == [cat       : Cats \cup {Absent},      \* current_category
             gallery   : BOOLEAN,               \* view_mode
             selecting : BOOLEAN,               \* gallery_selecting
             ids       : Seq(Products),         \* gallery_product_ids
             index     : Nat,                   \* gallery_index
             viewed    : Products \cup {Absent},  \* viewed_product_id
             quantity  : 1 .. MaxQty,           \* viewed_product_quantity
             results   : Seq(Products)]         \* search_results

NoData == [cat |-> Absent, gallery |-> FALSE, selecting |-> FALSE, ids |-> <<>>,
           index |-> 0, viewed |-> Absent, quantity |-> 1, results |-> <<>>]

\* Menus without a product, and those about one.
Pages == {"main", "orders", "notice", "categories", "list", "sort", "ask",
          "short", "notfound", "cart", "editor", "delivery"}
Cards == {"card", "gallery", "quantities", "images", "brew", "recipe", "norecipe"}

Screens == [kind : Pages \cup Cards, of : Products \cup {Absent},
            cat : Cats \cup {Absent}, quantity : 0 .. MaxQty,
            details : BOOLEAN, photo : BOOLEAN]

ShopTypeOK ==
  /\ conv \in Convs
  /\ ud \in UserData
  /\ cart \in [Products -> 0 .. MaxQty]
  /\ screen \in Screens
  /\ restarts \in 0 .. MaxRestarts

Page(kind, cat) ==
  [kind |-> kind, of |-> Absent, cat |-> cat, quantity |-> 0,
   details |-> FALSE, photo |-> FALSE]

NoGoods == [p \in Products |-> 0]

ShopInit ==
  /\ conv = "END" /\ ud = NoData /\ cart = NoGoods
  /\ screen = Page("main", Absent) /\ restarts = 0

--------------------------------------------------------------------------------
(* Keyboards and the tables of the ConversationHandler                      *)

CartButton == IF cart = NoGoods THEN {} ELSE {"VIEW_CART"}

If(condition, buttons) == IF condition THEN buttons ELSE {}

\* The buttons under a menu, by callback; one name stands for every product or
\* category behind it.  What leads out of the shop is left out.  The favourites
\* button is there when the customer has a favourite, which is not modelled.
Keyboard(s) ==
  CASE s.kind = "main"       -> {"START_ORDERING", "MY_ORDERS", "FAVORITES_MENU"} \cup CartButton
    [] s.kind = "orders"     -> {"REPEAT_ORDER", "USER_MAIN_MENU"}
    [] s.kind \in {"notice", "short"} -> {}
    [] s.kind = "categories" ->
         {"SEARCH", "SELECT_CATEGORY", "FAVORITES_MENU"} \cup CartButton
         \cup (IF s.cat = Absent THEN {"SHOW_ALL", "GO_TO_MAIN_MENU"}
                               ELSE {"CATEGORY_LIST", "BACK_TO_CATEGORIES"})
    [] s.kind = "list"       ->
         {"SELECT_PRODUCT", "SORT_MENU", "BACK_TO_CATEGORIES"} \cup CartButton
    [] s.kind = "sort"       -> {"TOGGLE_VIEW", "SET_SORT", "BACK_TO_LIST"}
    [] s.kind = "ask"        -> {"BACK_TO_CATEGORIES"}
    [] s.kind = "notfound"   -> {"SEARCH", "BACK_TO_CATEGORIES", "USER_MAIN_MENU"}
    [] s.kind = "cart"       ->
         {"BACK_TO_CATEGORIES"}
         \cup If(cart # NoGoods, {"EDIT_CART", "CHECKOUT", "CLEAR_CART"})
    [] s.kind = "editor"     -> {"BACK_TO_SUMMARY"}
    [] s.kind = "delivery"   -> {"DELIVERY_BACK"}
    [] s.kind = "card"       ->
         {"CHANGE_QUANTITY", "QTY_GRID", "SELECT_PRODUCT", "TOGGLE_FAV",
          "ADD_TO_CART", "BACK_TO_LIST_OF", "FAVORITES_MENU", "USER_MAIN_MENU"}
         \cup CartButton
         \cup If(s.of \in Albums, {"PROD_IMG", "IMG_GRID"})
         \cup If(s.details, {"READ_FULL_DESC"})
         \cup If(s.details /\ s.cat \in Drinks, {"BREW_GUIDE"})
    [] s.kind = "gallery"    ->
         {"CHANGE_QUANTITY", "QTY_GRID", "SELECT_PRODUCT", "TOGGLE_FAV", "GALLERY_ADD",
          "SORT_MENU", "BACK_TO_CATEGORIES", "FAVORITES_MENU", "USER_MAIN_MENU"}
         \cup CartButton
         \cup If(Len(ud.ids) > 1, {"GALLERY_PREV", "GALLERY_NEXT", "GALLERY_OPEN_LIST"})
    [] s.kind = "quantities" -> {"SET_QTY", "PRODUCT_CLEAR", "SELECT_PRODUCT"}
    [] s.kind = "images"     -> {"PROD_IMG", "SELECT_PRODUCT"}
    [] s.kind = "brew"       -> {"BREW_METHOD", "SELECT_PRODUCT"}
    [] s.kind = "recipe"     -> {"RECIPE_SAVE", "SELECT_PRODUCT", "USER_MAIN_MENU"}
    [] s.kind = "norecipe"   -> {"SELECT_PRODUCT"}

\* Deliberate bug: the search is only started from the categories.
EntryPointsWithoutSearch == {"START_ORDERING", "FAVORITES_MENU", "REPEAT_ORDER"}

\* The handlers of order_handler; entry points are tried in every state, first.
EntryPoints == {"START_ORDERING", "FAVORITES_MENU", "REPEAT_ORDER", "SEARCH"}

Fallbacks == {"GO_TO_MAIN_MENU", "USER_MAIN_MENU"}

States(c) ==
  CASE c = "END"        -> {}
    [] c = "CATEGORIES" ->
         {"SEARCH", "VIEW_CART", "BACK_TO_CATEGORIES", "SHOW_ALL", "RECIPE_SAVE",
          "SELECT_PRODUCT", "SELECT_CATEGORY", "CATEGORY_LIST", "REPEAT_ORDER"}
    [] c = "PRODUCTS"   ->
         {"TOGGLE_FAV", "SORT_MENU", "SET_SORT", "TOGGLE_VIEW", "GALLERY_NEXT",
          "GALLERY_PREV", "GALLERY_ADD", "CHANGE_QUANTITY", "QTY_GRID", "SET_QTY",
          "PRODUCT_CLEAR", "GALLERY_OPEN_LIST", "BACK_TO_CATEGORIES",
          "BACK_TO_LIST", "SELECT_PRODUCT", "VIEW_CART"}
    [] c = "CARD"       ->
         {"BREW_GUIDE", "BREW_METHOD", "PROD_IMG", "IMG_GRID", "QTY_GRID", "SET_QTY",
          "PRODUCT_CLEAR", "CHANGE_QUANTITY", "READ_FULL_DESC", "ADD_TO_CART",
          "TOGGLE_FAV", "EDIT_CART", "BACK_TO_LIST", "BACK_TO_LIST_OF",
          "SELECT_PRODUCT", "VIEW_CART", "RECIPE_SAVE"}
    [] c = "CART"       ->
         {"CHECKOUT", "CLEAR_CART", "EDIT_CART", "BACK_TO_SUMMARY",
          "SELECT_PRODUCT", "BACK_TO_CATEGORIES"}
    [] c = "DELIVERY"   -> {"DELIVERY_BACK"}
    [] c = "SEARCH"     -> {"BACK_TO_CATEGORIES"}

\* The handlers of main.py behind the conversation; everything else is stale.
Elsewhere == {"USER_MAIN_MENU", "MY_ORDERS"}

Handled(c) ==
  EntryPoints \cup States(c) \cup If(c # "END", Fallbacks) \cup Elsewhere

\* The customer taps b on the newest menu, and its own handler is found.
Tap(b) == b \in Keyboard(screen) /\ b \in Handled(conv)

--------------------------------------------------------------------------------
(* What the handlers draw: the new user_data, menu and conversation state   *)

Shown(u, s, c) == [ud |-> u, screen |-> s, conv |-> c]

Becomes(r) == ud' = r.ud /\ screen' = r.screen /\ conv' = r.conv

\* The products of a category, as show_product_list filters them.
Listed(u, c) == IF c = Search THEN u.results ELSE OnShelf[c]

\* current_category, or "all".
Current(u) == IF u.cat = Absent THEN Everything ELSE u.cat

Gallery(u) ==
  LET p == u.ids[u.index + 1]
  IN [kind |-> "gallery", of |-> p, cat |-> Current(u), quantity |-> u.quantity,
      details |-> FALSE, photo |-> p \in Pictured]

\* get_gallery_state and render_gallery_media; in answer to a text nothing is
\* sent for a product without a photo.
DrawGallery(u, byText) ==
  LET last == Len(u.ids) - 1
      v == [u EXCEPT !.index = IF @ > last THEN last ELSE @]
  IN Shown(v, IF byText /\ v.ids[v.index + 1] \notin Pictured
                THEN screen ELSE Gallery(v), "PRODUCTS")

\* show_product_list: a list, or the gallery's first product.
ShowProductList(u, c, byText) ==
  LET v == [u EXCEPT !.cat = c]
  IN IF v.gallery /\ ~v.selecting
       THEN DrawGallery([v EXCEPT !.ids = Listed(v, c), !.index = 0], byText)
       ELSE Shown(v, Page("list", c), "PRODUCTS")

ShowGalleryView(u) ==
  IF u.ids = <<>> THEN ShowProductList(u, Current(u), FALSE) ELSE DrawGallery(u, FALSE)

\* show_categories at the first level, and at the subcategories of root r.
ShowRoots(u) ==
  Shown([u EXCEPT !.cat = Absent], Page("categories", Absent), "CATEGORIES")

ShowSubs(u, r) ==
  Shown([u EXCEPT !.cat = r], Page("categories", r), "CATEGORIES")

\* render_product_ui with get_image_context; the quantity shown is the one
\* remembered from the product viewed before.
ShowCard(u, p, c, details) ==
  LET v == [u EXCEPT !.viewed = p]
  IN Shown(v, [kind |-> "card", of |-> p, cat |-> c, quantity |-> v.quantity,
               details |-> details, photo |-> p \in Pictured], "CARD")

\* Deliberate bug: the gallery is reopened where it was left.
SelectKeepsIndex(u, p) == ShowGalleryView([u EXCEPT !.selecting = FALSE])

\* handle_gallery_selection
SelectInGallery(u, p) ==
  LET at == {i \in 1 .. Len(u.ids) : u.ids[i] = p}
      first == CHOOSE i \in at : \A j \in at : i <= j
  IN ShowGalleryView([u EXCEPT !.index = IF at = {} THEN 0 ELSE first - 1,
                               !.selecting = FALSE])

ShowProductView(u, p, c, details) ==
  IF u.selecting THEN SelectInGallery(u, p) ELSE ShowCard(u, p, c, details)

ShowMainMenu(u, c) == Shown(u, Page("main", Absent), c)

--------------------------------------------------------------------------------
(* Catalogue                                                                *)

\* /menu at any time, or the button of the main menu.
StartUserOrder ==
  /\ Becomes(ShowRoots(ud))
  /\ UNCHANGED <<cart, restarts>>

\* show_categories and show_product_list for the tile of a category.
SelectCategory(c) ==
  /\ Tap("SELECT_CATEGORY")
  /\ IF screen.cat = Absent THEN c \in Roots ELSE c \in Subs[screen.cat]
  /\ Becomes(IF c \in Roots /\ Cardinality(Subs[c]) > 1
               THEN ShowSubs(ud, c) ELSE ShowProductList(ud, c, FALSE))
  /\ UNCHANGED <<cart, restarts>>

\* "All products", of the shop or of the category shown.
ShowAll ==
  /\ Tap("SHOW_ALL") \/ Tap("CATEGORY_LIST")
  /\ Becomes(ShowProductList(ud, IF screen.cat = Absent THEN Everything ELSE screen.cat,
                             FALSE))
  /\ UNCHANGED <<cart, restarts>>

\* show_categories for CB_BACK_TO_CATEGORIES: to the root of the category
\* remembered, unless it is one.
BackToCategories ==
  /\ Tap("BACK_TO_CATEGORIES")
  /\ LET above == {r \in Roots : ud.cat \in Subs[r]}
     IN \/ /\ above = {}
           /\ Becomes(ShowRoots(ud))
        \/ \E r \in above :
             Becomes(IF Cardinality(Subs[r]) > 1
                       THEN ShowSubs(ud, r) ELSE ShowProductList(ud, ud.cat, FALSE))
  /\ UNCHANGED <<cart, restarts>>

BackToList ==
  /\ Tap("BACK_TO_LIST") \/ Tap("BACK_TO_LIST_OF")
  /\ Becomes(ShowProductList(ud, IF screen.kind = "card" THEN screen.cat ELSE Current(ud),
                             FALSE))
  /\ UNCHANGED <<cart, restarts>>

\* show_sort_menu and apply_sort; the order itself is left out.
SortMenu ==
  /\ Tap("SORT_MENU") \/ Tap("SET_SORT")
  /\ Becomes(Shown(ud, Page("sort", Absent), "PRODUCTS"))
  /\ UNCHANGED <<cart, restarts>>

ToggleView(gallery) ==
  /\ Tap("TOGGLE_VIEW")
  /\ Becomes(Shown([ud EXCEPT !.gallery = gallery], Page("sort", Absent), "PRODUCTS"))
  /\ UNCHANGED <<cart, restarts>>

--------------------------------------------------------------------------------
(* Search                                                                   *)

AskSearchQuery ==
  /\ Tap("SEARCH")
  /\ Becomes(Shown(ud, Page("ask", Absent), "SEARCH"))
  /\ UNCHANGED <<cart, restarts>>

\* process_search: a query of one letter, or without a match of either kind.
SearchFails(kind) ==
  /\ conv = "SEARCH"
  /\ kind \in {"short", "notfound"}
  /\ Becomes(Shown(ud, Page(kind, Absent), "SEARCH"))
  /\ UNCHANGED <<cart, restarts>>

SearchFinds(found) ==
  /\ conv = "SEARCH"
  /\ Becomes(ShowProductList([ud EXCEPT !.results = found], Search, TRUE))
  /\ UNCHANGED <<cart, restarts>>

--------------------------------------------------------------------------------
(* Gallery                                                                  *)

\* Deliberate bug: the picture is drawn before the index moves.
DrawThenMove(step) ==
  /\ Tap("GALLERY_NEXT") \/ Tap("GALLERY_PREV")
  /\ LET r == ShowGalleryView(ud)
     IN Becomes([r EXCEPT !.ud.index = (ud.index + step) % Len(ud.ids)])
  /\ UNCHANGED <<cart, restarts>>

\* handle_gallery_nav
GalleryNav(step) ==
  /\ Tap("GALLERY_NEXT") \/ Tap("GALLERY_PREV")
  /\ Becomes(ShowGalleryView([ud EXCEPT !.index = (@ + step) % Len(ud.ids)]))
  /\ UNCHANGED <<cart, restarts>>

\* The gallery's button "add n pieces".
GalleryAdd ==
  /\ Tap("GALLERY_ADD")
  /\ cart[screen.of] < MaxQty
  /\ cart' = [cart EXCEPT ![screen.of] = @ + 1]
  /\ Becomes(ShowGalleryView(ud))
  /\ UNCHANGED restarts

OpenGallerySelection ==
  /\ Tap("GALLERY_OPEN_LIST")
  /\ Becomes(ShowProductList([ud EXCEPT !.selecting = TRUE], Current(ud), FALSE))
  /\ UNCHANGED <<cart, restarts>>

--------------------------------------------------------------------------------
(* Cards                                                                    *)

\* show_product_view for a line of a list, for the button that shows or hides
\* the details, and for the way back from the screens about a product.
SelectProduct(p) ==
  /\ Tap("SELECT_PRODUCT")
  /\ IF screen.kind = "list" THEN p \in {Listed(ud, screen.cat)[i] :
                                          i \in 1 .. Len(Listed(ud, screen.cat))}
                             ELSE p = screen.of
  /\ Becomes(ShowProductView(ud, p, screen.cat,
               \/ screen.kind \in {"gallery", "brew", "recipe", "norecipe"}
               \/ (screen.kind = "card" /\ ~screen.details)))
  /\ UNCHANGED <<cart, restarts>>

\* handle_product_image_nav; which picture is left out.
ImageNav ==
  /\ Tap("PROD_IMG")
  /\ Becomes(ShowCard(ud, screen.of, Current(ud), screen.details))
  /\ UNCHANGED <<cart, restarts>>

\* The two grids only replace the keyboard.
ShowGrid(b, kind) ==
  /\ Tap(b)
  /\ <<b, kind>> \in {<<"IMG_GRID", "images">>, <<"QTY_GRID", "quantities">>}
  /\ Becomes(Shown(ud, [screen EXCEPT !.kind = kind, !.details = FALSE], "CARD"))
  /\ UNCHANGED <<cart, restarts>>

\* Deliberate bug: the card is drawn before the quantity is remembered.
PresetAfterDrawing(n) ==
  /\ Tap("SET_QTY")
  /\ LET r == ShowProductView(ud, screen.of, screen.cat, FALSE)
     IN Becomes([r EXCEPT !.ud.quantity = n])
  /\ UNCHANGED <<cart, restarts>>

\* handle_set_quantity_preset
SetQuantityPreset(n) ==
  /\ Tap("SET_QTY")
  /\ Becomes(ShowProductView([ud EXCEPT !.quantity = n], screen.of, screen.cat, FALSE))
  /\ UNCHANGED <<cart, restarts>>

\* handle_clear_product_action
ClearProduct ==
  /\ Tap("PRODUCT_CLEAR")
  /\ cart' = [cart EXCEPT ![screen.of] = 0]
  /\ Becomes(ShowProductView([ud EXCEPT !.quantity = 1], screen.of, screen.cat, FALSE))
  /\ UNCHANGED restarts

\* The pieces after a press of + or -.
Adjusted(n, step) == IF n = 0 /\ step = -1 THEN 0 ELSE n + step

\* change_quantity: what is in the cart changes at once, and is the quantity
\* shown from then on.  The validator refuses names that are not plain.
ChangeQuantity(step) ==
  /\ Tap("CHANGE_QUANTITY")
  /\ screen.cat \in Plain
  /\ LET p == screen.of
         n == Adjusted(cart[p], step)
         u == IF n = cart[p] THEN ud ELSE [ud EXCEPT !.quantity = IF n = 0 THEN 1 ELSE n]
     IN /\ n <= MaxQty
        /\ cart' = [cart EXCEPT ![p] = n]
        /\ Becomes(IF ud.gallery THEN ShowGalleryView(u)
                                 ELSE ShowCard(u, p, screen.cat, screen.details))
  /\ UNCHANGED restarts

\* add_to_cart takes the product and the quantity from user_data.
AddToCart ==
  /\ Tap("ADD_TO_CART")
  /\ ud.viewed \in Products
  /\ cart' = [cart EXCEPT ![ud.viewed] = ud.quantity]
  /\ Becomes(ShowCard(ud, ud.viewed, Current(ud), screen.details))
  /\ UNCHANGED restarts

\* toggle_favorite_in_card redraws what it takes to be shown.
ToggleFavorite ==
  /\ Tap("TOGGLE_FAV")
  /\ Becomes(IF ud.gallery THEN ShowGalleryView(ud)
             ELSE ShowProductView(ud, screen.of, screen.cat, screen.details))
  /\ UNCHANGED <<cart, restarts>>

\* show_brewing_methods_choice and show_brewing_guide rewrite a caption, which
\* a card without a photo has not: then the handler raises and nothing changes.
\* A long recipe is sent as a text.
BrewMethods ==
  /\ Tap("BREW_GUIDE")
  /\ screen.photo
  /\ Becomes(Shown(ud, [screen EXCEPT !.kind = "brew", !.cat = Current(ud)], "CARD"))
  /\ UNCHANGED <<cart, restarts>>

BrewGuide(kind, photo) ==
  /\ Tap("BREW_METHOD")
  /\ kind = "norecipe" => photo
  /\ Becomes(Shown(ud, [screen EXCEPT !.kind = kind, !.cat = Current(ud),
                                      !.photo = photo], "CARD"))
  /\ UNCHANGED <<cart, restarts>>

--------------------------------------------------------------------------------
(* Cart, main menu, orders                                                  *)

\* show_cart with the cart g: validate_cart may find it expired, empty it and
\* send the customer back to the categories; that rewrites a text, and on a
\* photo the handler raises with the cart already empty.
ShowCart(g) ==
  \/ /\ cart' = g
     /\ Becomes(Shown(ud, Page("cart", Absent), "CART"))
  \/ /\ g # NoGoods
     /\ cart' = NoGoods
     /\ IF screen.photo THEN UNCHANGED <<conv, ud, screen>> ELSE Becomes(ShowRoots(ud))

ViewCart ==
  /\ Tap("VIEW_CART") \/ Tap("BACK_TO_SUMMARY") \/ Tap("DELIVERY_BACK")
  /\ ShowCart(cart)
  /\ UNCHANGED restarts

ClearCart ==
  /\ Tap("CLEAR_CART")
  /\ ShowCart(NoGoods)
  /\ UNCHANGED restarts

\* show_cart_edit_mode, whose rows look products up by the wrong kind of key.
EditCart ==
  /\ Tap("EDIT_CART")
  /\ Becomes(Shown(ud, Page("editor", Absent), "CART"))
  /\ UNCHANGED <<cart, restarts>>

\* handle_cart_interaction: goods may have gone (show_cart says so) or expired.
Checkout ==
  /\ Tap("CHECKOUT")
  /\ \/ /\ Becomes(Shown(ud, Page("delivery", Absent), "DELIVERY"))
        /\ UNCHANGED cart
     \/ ShowCart(cart)
     \/ /\ cart' = NoGoods
        /\ Becomes(Shown(ud, Page("notice", Absent), "END"))
  /\ UNCHANGED restarts

\* exit_to_user_main_menu, and show_main_menu_from_welcome after the end.
ExitToMainMenu ==
  /\ Tap("USER_MAIN_MENU") \/ Tap("GO_TO_MAIN_MENU")
  /\ Becomes(IF conv = "END" THEN ShowMainMenu(ud, "END")
             ELSE ShowMainMenu([ud EXCEPT !.quantity = 1], "END"))
  /\ UNCHANGED <<cart, restarts>>

\* handle_stale_callback shows the main menu; the conversation does not learn
\* of it.
Stale ==
  /\ Keyboard(screen) \ Handled(conv) # {}
  /\ Becomes(ShowMainMenu(ud, conv))
  /\ UNCHANGED <<cart, restarts>>

\* The customer's orders, shown by handlers outside the conversation.
MyOrders ==
  /\ Tap("MY_ORDERS")
  /\ Becomes(Shown(ud, Page("orders", Absent), conv))
  /\ UNCHANGED <<cart, restarts>>

\* handle_repeat_order: with the order's goods still on sale the cart becomes
\* the order; without, or without the order, only a message is added.
RepeatOrder(goods) ==
  /\ Tap("REPEAT_ORDER")
  /\ \/ goods # NoGoods /\ ShowCart(goods)
     \/ /\ goods = NoGoods
        /\ \E c \in {"CATEGORIES", "END"} : Becomes(Shown(ud, screen, c))
        /\ UNCHANGED cart
  /\ UNCHANGED restarts

\* /done
Done ==
  /\ conv # "END"
  /\ Becomes(Shown(NoData, Page("notice", Absent), "END"))
  /\ UNCHANGED <<cart, restarts>>

\* A start with RESET_PERSISTENCE, or without the pickle file, forgets the
\* conversation and user_data; the menu stays in the chat.  An orderly restart
\* brings both back, so that it is no step.
Restart ==
  /\ restarts < MaxRestarts
  /\ restarts' = restarts + 1
  /\ Becomes(Shown(NoData, screen, "END"))
  /\ UNCHANGED cart

Carts == [Products -> 0 .. MaxQty]

Handle ==
  \/ StartUserOrder \/ ShowAll \/ BackToCategories \/ BackToList \/ SortMenu
  \/ \E c \in Names : SelectCategory(c)
  \/ \E gallery \in BOOLEAN : ToggleView(gallery)
  \/ AskSearchQuery
  \/ \E kind \in {"short", "notfound"} : SearchFails(kind)
  \/ \E found \in Found : SearchFinds(found)
  \/ \E step \in {-1, 1} : GalleryNav(step) \/ ChangeQuantity(step)
  \/ GalleryAdd \/ OpenGallerySelection
  \/ \E p \in Products : SelectProduct(p)
  \/ ImageNav \/ ShowGrid("IMG_GRID", "images") \/ ShowGrid("QTY_GRID", "quantities")
  \/ \E n \in Presets : SetQuantityPreset(n)
  \/ ClearProduct \/ AddToCart \/ ToggleFavorite \/ BrewMethods
  \/ \E kind \in {"recipe", "norecipe"}, photo \in BOOLEAN : BrewGuide(kind, photo)
  \/ ViewCart \/ ClearCart \/ EditCart \/ Checkout
  \/ ExitToMainMenu \/ Stale \/ MyOrders \/ Done
  \/ \E goods \in Carts : RepeatOrder(goods)

ShopNext == Handle \/ Restart

ShopSpec == ShopInit /\ [][ShopNext]_shopVars

--------------------------------------------------------------------------------
(* Properties                                                               *)

\* Buttons of the menu s that come to nothing wherever they are tapped: the
\* favourites button is an entry point of show_fav_quantity_grid, which raises
\* for it; no handler outside the conversation knows the cart button of the
\* main menu; the callback validator refuses + and - in a category whose name
\* is not plain (callback_validator.py:13).
Broken(s) ==
  {"FAVORITES_MENU"} \cup If(s.kind = "main", {"VIEW_CART"})
  \cup If(s.cat \notin Plain, {"CHANGE_QUANTITY"})

\* Every other button of the newest menu finds its own handler.
ButtonsFit == Keyboard(screen) \ Broken(screen) \subseteq Handled(conv)

\* The broken buttons apart, no handler leaves the customer with a button that
\* the conversation does not know: what the keyboards of keyboards.py offer and
\* what the tables of order_handler accept agree on every path, and only a lost
\* pickle file takes the menu and the state apart.
ButtonsAnswered == [][ButtonsFit /\ ~ButtonsFit' => ~Handle]_shopVars

\* A card and user_data agree on the product and on the quantity, so that
\* add_to_cart, which reads user_data, adds what the card's button says,
\* whatever was viewed, typed or counted on the way.
CardMatchesMemory ==
  conv = "CARD" /\ screen.kind = "card" =>
    ud.viewed = screen.of /\ ud.quantity = screen.quantity

\* The gallery shows the product its index names, within the list it walks
\* through, whichever of its seven callers drew it.
GalleryWithinList ==
  conv = "PRODUCTS" /\ screen.kind = "gallery" =>
    /\ ud.index < Len(ud.ids)
    /\ screen.of = ud.ids[ud.index + 1]

\* A product tapped in a list is the product shown next, as long as the list
\* opened for the gallery was the gallery's own (gallery_selecting outlives
\* it: then the first product of the old list is shown).
ChosenIsShown ==
  [][\A p \in Products :
       /\ screen.kind = "list"
       /\ SelectProduct(p)
       /\ ud.selecting => \E i \in 1 .. Len(ud.ids) : ud.ids[i] = p
       => screen'.of = p]_shopVars

================================================================================
