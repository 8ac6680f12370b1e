-------------------------- MODULE ShopScreens_proofs ---------------------------
(***************************************************************************)
(* Proofs about ShopScreens for any catalogue, any results of a search and *)
(* any number of restarts.                                                 *)
(***************************************************************************)
EXTENDS ShopScreens, WellFoundedInduction, TLAPS

\* What a user_data, a menu and a conversation state that belong together
\* satisfy: a menu about products names one, a list of results has results,
\* and the two properties that are to be proved.
Coherent(u, s, c) ==
  /\ u \in UserData /\ s \in Screens /\ c \in Convs
  /\ s.kind \in Cards \cup {"list"} => s.cat \in Cats
  /\ s.kind \in Cards => s.of \in Products
  /\ s.kind = "categories" => s.cat \in Roots \cup {Absent}
  /\ s.kind \in Pages \ {"list", "categories"} => s.cat = Absent
  /\ u.cat = Search => u.results # <<>>
  /\ c # "END" /\ s.cat = Search => u.results # <<>>
  /\ c = "SEARCH" => s.kind \in Pages /\ s.cat = Absent
  /\ c = "CARD" /\ s.kind = "card" => u.viewed = s.of /\ u.quantity = s.quantity
  /\ c = "PRODUCTS" /\ s.kind = "gallery" =>
       u.index < Len(u.ids) /\ s.of = u.ids[u.index + 1]

Good(r) == Coherent(r.ud, r.screen, r.conv)

\* A user_data some handler may draw from.
Usable(u) == u \in UserData /\ (u.cat = Search => u.results # <<>>)

ShopInv ==
  /\ Coherent(ud, screen, conv)
  /\ cart \in [Products -> 0 .. MaxQty]
  /\ restarts \in 0 .. MaxRestarts

LEMMA ShopInvImplies ==
  ShopInv => ShopTypeOK /\ CardMatchesMemory /\ GalleryWithinList /\ Usable(ud)
BY DEF ShopInv, Coherent, ShopTypeOK, CardMatchesMemory, GalleryWithinList, Usable

--------------------------------------------------------------------------------
(* Keyboards                                                                *)

ProductButtons ==
  {"CHANGE_QUANTITY", "QTY_GRID", "TOGGLE_FAV", "PROD_IMG", "IMG_GRID", "SET_QTY",
   "PRODUCT_CLEAR", "BREW_GUIDE", "BREW_METHOD", "ADD_TO_CART", "GALLERY_ADD",
   "BACK_TO_LIST_OF"}

\* Whose keyboards hold which button.
LEMMA ButtonsAboutProducts ==
  ASSUME NEW s \in Screens, NEW b \in ProductButtons, b \in Keyboard(s)
  PROVE  s.kind \in Cards
<1> SUFFICES ASSUME s.kind \in Pages PROVE FALSE
  BY DEF Screens
<1>1. CASE s.kind \in {"main", "orders", "notice", "short", "categories", "list"}
  BY <1>1 DEF Keyboard, CartButton, If, ProductButtons
<1>2. CASE s.kind \in {"sort", "ask", "notfound", "cart", "editor", "delivery"}
  BY <1>2 DEF Keyboard, CartButton, If, ProductButtons
<1> QED
  BY <1>1, <1>2 DEF Pages

LEMMA ButtonsOfPages ==
  ASSUME NEW s \in Screens
  PROVE  /\ "SELECT_PRODUCT" \in Keyboard(s) => s.kind \in Cards \cup {"list"}
         /\ "SELECT_CATEGORY" \in Keyboard(s) => s.kind = "categories"
         /\ "SHOW_ALL" \in Keyboard(s) \/ "CATEGORY_LIST" \in Keyboard(s) =>
              s.kind = "categories"
         /\ "GALLERY_NEXT" \in Keyboard(s) \/ "GALLERY_PREV" \in Keyboard(s) =>
              s.kind = "gallery" /\ Len(ud.ids) > 1
         /\ "REPEAT_ORDER" \in Keyboard(s) => s.kind = "orders"
<1>1. CASE s.kind \in {"main", "orders", "notice", "short", "categories", "list"}
  BY <1>1 DEF Keyboard, CartButton, If
<1>2. CASE s.kind \in {"sort", "ask", "notfound", "cart", "editor", "delivery"}
  BY <1>2 DEF Keyboard, CartButton, If
<1>3. CASE s.kind \in {"card", "gallery", "quantities"}
  BY <1>3 DEF Keyboard, CartButton, If, Cards
<1>4. CASE s.kind \in {"images", "brew", "recipe", "norecipe"}
  BY <1>4 DEF Keyboard, CartButton, If, Cards
<1> QED
  BY <1>1, <1>2, <1>3, <1>4 DEF Screens, Pages, Cards

\* After the end only the main menu and the entry points are heard.
LEMMA HeardAfterTheEnd ==
  ASSUME NEW b, b \in Handled("END")
  PROVE  b \in {"START_ORDERING", "FAVORITES_MENU", "REPEAT_ORDER", "SEARCH",
                "USER_MAIN_MENU", "MY_ORDERS"}
BY DEF Handled, EntryPoints, States, Elsewhere, If

--------------------------------------------------------------------------------
(* What the handlers draw                                                   *)

LEMMA ShelvesHold ==
  ASSUME NEW u, u \in UserData, NEW c \in Cats, c = Search => u.results # <<>>
  PROVE  Listed(u, c) \in Seq(Products) /\ Listed(u, c) # <<>>
BY ShelfAssumption DEF Listed, Cats, UserData

LEMMA NonEmptyLength ==
  ASSUME NEW S, NEW s \in Seq(S), s # <<>>
  PROVE  Len(s) \in Nat \ {0}
OBVIOUS

LEMMA DrawGood ==
  ASSUME NEW u, Usable(u), u.ids # <<>>, NEW byText \in BOOLEAN,
         byText => Coherent(ud, screen, "SEARCH")
  PROVE  Good(DrawGallery(u, byText))
<1> DEFINE last == Len(u.ids) - 1
           v == [u EXCEPT !.index = IF @ > last THEN last ELSE @]
           g == Gallery(v)
<1>1. last \in Nat /\ u \in UserData /\ u.index \in Nat
  BY NonEmptyLength DEF Usable, UserData
<1>2. v \in UserData /\ v.index <= last /\ v.ids = u.ids /\ v.index \in Nat
      /\ v.cat = u.cat /\ v.results = u.results /\ v.quantity = u.quantity
  BY <1>1 DEF UserData
<1>3. v.ids[v.index + 1] \in Products
  BY <1>1, <1>2 DEF UserData
<1>4. Current(v) \in Cats /\ (Current(v) = Search => u.results # <<>>)
  BY <1>2, CategoryAssumption DEF Current, Usable, UserData, Cats
<1>5. g \in Screens /\ g.kind = "gallery" /\ g.of = v.ids[v.index + 1]
      /\ g.cat = Current(v)
  BY <1>2, <1>3, <1>4 DEF Gallery, Screens, Cards, UserData
<1>6. Coherent(v, g, "PRODUCTS")
  BY <1>1, <1>2, <1>3, <1>4, <1>5 DEF Coherent, Convs, Cards, Pages, Usable
<1>7. CASE byText
  <2>1. Coherent(v, screen, "PRODUCTS")
    <3>1. screen.kind \notin Cards \cup {"list"} /\ screen.cat = Absent
          /\ screen \in Screens /\ screen.kind \in Pages
      BY <1>7, CategoryAssumption DEF Coherent, Cats, Pages, Cards
    <3> QED
      BY <3>1, <1>2, CategoryAssumption DEF Coherent, Convs, Usable, Cards
  <2> QED
    BY <1>6, <2>1 DEF Good, DrawGallery, Shown
<1>8. CASE ~byText
  BY <1>6, <1>8 DEF Good, DrawGallery, Shown
<1> QED
  BY <1>7, <1>8

LEMMA ListGood ==
  ASSUME NEW u, Usable(u), NEW c \in Cats, c = Search => u.results # <<>>,
         NEW byText \in BOOLEAN, byText => Coherent(ud, screen, "SEARCH")
  PROVE  Good(ShowProductList(u, c, byText))
<1> DEFINE v == [u EXCEPT !.cat = c]
           w == [v EXCEPT !.ids = Listed(v, c), !.index = 0]
<1>1. v \in UserData /\ v.results = u.results /\ v.cat = c
  BY DEF Usable, UserData
<1>2. Usable(v) /\ Listed(v, c) \in Seq(Products) /\ Listed(v, c) # <<>>
  BY <1>1, ShelvesHold DEF Usable
<1>3. CASE v.gallery /\ ~v.selecting
  <2>1. Usable(w) /\ w.ids # <<>>
    BY <1>1, <1>2 DEF Usable, UserData
  <2> HIDE DEF w
  <2>2. Good(DrawGallery(w, byText))
    BY <2>1, DrawGood
  <2> QED
    BY <1>3, <2>2 DEF ShowProductList, w
<1>4. CASE ~(v.gallery /\ ~v.selecting)
  <2>1. Page("list", c) \in Screens
    BY BoundAssumption DEF Page, Screens, Pages
  <2>2. Coherent(v, Page("list", c), "PRODUCTS")
    BY <1>1, <1>2, <2>1 DEF Page, Coherent, Convs, Pages, Cards, Usable
  <2> QED
    BY <1>4, <2>2 DEF ShowProductList, Good, Shown
<1> QED
  BY <1>3, <1>4

LEMMA CurrentCategory ==
  ASSUME NEW u, Usable(u)
  PROVE  Current(u) \in Cats /\ (Current(u) = Search => u.results # <<>>)
BY CategoryAssumption DEF Current, Usable, UserData, Cats

LEMMA GalleryGood ==
  ASSUME NEW u, Usable(u)
  PROVE  Good(ShowGalleryView(u))
BY ListGood, DrawGood, CurrentCategory DEF ShowGalleryView

\* A menu that is about no product and no list.
LEMMA PageGood ==
  ASSUME NEW u, Usable(u), NEW kind \in Pages \ {"list"}, NEW c \in Convs
  PROVE  Good(Shown(u, Page(kind, Absent), c))
<1>1. Page(kind, Absent) \in Screens
  BY BoundAssumption DEF Page, Screens, Pages
<1>2. Coherent(u, Page(kind, Absent), c)
  BY <1>1, CategoryAssumption DEF Coherent, Page, Pages, Cards, Cats, Usable
<1> QED
  BY <1>2 DEF Good, Shown

LEMMA RootsGood ==
  ASSUME NEW u, Usable(u)
  PROVE  Good(ShowRoots(u))
<1>1. Usable([u EXCEPT !.cat = Absent])
  BY CategoryAssumption DEF Usable, UserData
<1> QED
  BY <1>1, PageGood DEF ShowRoots, Pages, Convs

LEMMA SubsGood ==
  ASSUME NEW u, Usable(u), NEW r \in Roots
  PROVE  Good(ShowSubs(u, r))
<1>1. [u EXCEPT !.cat = r] \in UserData /\ r \in Cats /\ r # Search
  BY CategoryAssumption DEF Usable, UserData, Cats
<1>2. Page("categories", r) \in Screens
  BY <1>1, BoundAssumption DEF Page, Screens, Pages
<1>3. Coherent([u EXCEPT !.cat = r], Page("categories", r), "CATEGORIES")
  BY <1>1, <1>2 DEF Coherent, Page, Pages, Cards, Convs, Usable
<1> QED
  BY <1>3 DEF ShowSubs, Good, Shown

LEMMA CardGood ==
  ASSUME NEW u, Usable(u), NEW p \in Products, NEW c \in Cats,
         c = Search => u.results # <<>>, NEW details \in BOOLEAN
  PROVE  Good(ShowCard(u, p, c, details))
<1> DEFINE v == [u EXCEPT !.viewed = p]
           s == [kind |-> "card", of |-> p, cat |-> c, quantity |-> v.quantity,
                 details |-> details, photo |-> p \in Pictured]
<1>1. v \in UserData /\ v.viewed = p /\ v.cat = u.cat /\ v.results = u.results
  BY DEF Usable, UserData
<1>2. s \in Screens
  BY <1>1, BoundAssumption DEF Screens, Cards, UserData
<1>3. Coherent(v, s, "CARD")
  BY <1>1, <1>2 DEF Coherent, Convs, Pages, Cards, Usable
<1> QED
  BY <1>3 DEF ShowCard, Good, Shown

\* list.index finds the first position of a product.
LEMMA FirstPosition ==
  ASSUME NEW at, at \subseteq Nat, at # {}
  PROVE  LET first == CHOOSE i \in at : \A j \in at : i <= j IN first \in at
<1>1. PICK i \in at : \A j \in at : ~(<<j, i>> \in OpToRel(<, Nat))
  BY WFMin, NatLessThanWellFounded
<1>2. \A j \in at : i <= j
  <2> SUFFICES ASSUME NEW j \in at, j < i PROVE FALSE
    OBVIOUS
  <2>1. <<j, i>> \in Nat \X Nat
    OBVIOUS
  <2>2. <<j, i>> \in OpToRel(<, Nat)
    BY <2>1 DEF OpToRel
  <2> QED
    BY <1>1, <2>2
<1> QED
  BY <1>2

LEMMA SelectionGood ==
  ASSUME NEW u, Usable(u), NEW p \in Products
  PROVE  Good(SelectInGallery(u, p))
<1> DEFINE at == {i \in 1 .. Len(u.ids) : u.ids[i] = p}
           first == CHOOSE i \in at : \A j \in at : i <= j
           index == IF at = {} THEN 0 ELSE first - 1
           v == [u EXCEPT !.index = index, !.selecting = FALSE]
<1>1. at \subseteq Nat \ {0}
  BY DEF Usable, UserData
<1>2. at # {} => first \in at
  <2> HIDE DEF at
  <2> QED
    BY <1>1, FirstPosition
<1>3. index \in Nat
  <2> HIDE DEF first, at
  <2> QED
    BY <1>1, <1>2 DEF at
<1>4. Usable(v)
  <2> HIDE DEF index
  <2> QED
    BY <1>3 DEF Usable, UserData
<1> HIDE DEF v
<1>5. Good(ShowGalleryView(v))
  BY <1>4, GalleryGood
<1> QED
  BY <1>5 DEF SelectInGallery, v

LEMMA ViewGood ==
  ASSUME NEW u, Usable(u), NEW p \in Products, NEW c \in Cats,
         c = Search => u.results # <<>>, NEW details \in BOOLEAN
  PROVE  Good(ShowProductView(u, p, c, details))
BY SelectionGood, CardGood DEF ShowProductView

--------------------------------------------------------------------------------
(* What the customer can tap                                                *)

LEMMA TapProduct ==
  ASSUME ShopInv, NEW b \in ProductButtons, Tap(b)
  PROVE  /\ conv # "END" /\ screen.kind \in Cards
         /\ screen.of \in Products /\ screen.cat \in Cats
         /\ screen.cat = Search => ud.results # <<>>
<1>1. screen.kind \in Cards
  BY ButtonsAboutProducts DEF ShopInv, Coherent, Tap
<1>2. conv # "END"
  BY HeardAfterTheEnd DEF ProductButtons, Tap
<1> QED
  BY <1>1, <1>2 DEF ShopInv, Coherent

LEMMA TapSelect ==
  ASSUME ShopInv, Tap("SELECT_PRODUCT")
  PROVE  /\ conv # "END" /\ screen.kind \in Cards \cup {"list"}
         /\ screen.cat \in Cats /\ (screen.cat = Search => ud.results # <<>>)
         /\ screen.kind \in Cards => screen.of \in Products
<1>1. screen.kind \in Cards \cup {"list"}
  BY ButtonsOfPages DEF ShopInv, Coherent, Tap
<1>2. conv # "END"
  BY HeardAfterTheEnd DEF Tap
<1> QED
  BY <1>1, <1>2 DEF ShopInv, Coherent

LEMMA TapCategories ==
  ASSUME ShopInv,
         Tap("SELECT_CATEGORY") \/ Tap("SHOW_ALL") \/ Tap("CATEGORY_LIST")
  PROVE  screen.kind = "categories" /\ screen.cat \in Roots \cup {Absent}
<1>1. screen.kind = "categories"
  BY ButtonsOfPages DEF ShopInv, Coherent, Tap
<1> QED
  BY <1>1 DEF ShopInv, Coherent

LEMMA BecomesKeeps ==
  ASSUME NEW r, Good(r), Becomes(r)
  PROVE  Coherent(ud, screen, conv)'
BY DEF Good, Becomes, Coherent

LEMMA SameCart ==
  ASSUME ShopInv, Coherent(ud, screen, conv)', UNCHANGED <<cart, restarts>>
  PROVE  ShopInv'
BY DEF ShopInv

--------------------------------------------------------------------------------
(* The actions                                                              *)

LEMMA CatalogueKeeps ==
  ASSUME ShopInv,
         \/ StartUserOrder \/ ShowAll \/ BackToCategories \/ BackToList
         \/ \E c \in Names : SelectCategory(c)
  PROVE  ShopInv'
<1> USE ShopInvImplies
<1>1. CASE StartUserOrder
  BY <1>1, RootsGood, BecomesKeeps, SameCart DEF StartUserOrder
<1>2. CASE ShowAll
  <2> DEFINE c == IF screen.cat = Absent THEN Everything ELSE screen.cat
  <2>1. c \in Cats /\ c # Search
    BY <1>2, TapCategories, CategoryAssumption DEF ShowAll, Cats
  <2>2. Becomes(ShowProductList(ud, c, FALSE))
    BY <1>2 DEF ShowAll
  <2> HIDE DEF c
  <2>3. Good(ShowProductList(ud, c, FALSE))
    BY <2>1, ListGood
  <2> QED
    BY <1>2, <2>2, <2>3, BecomesKeeps, SameCart DEF ShowAll
<1>3. CASE BackToCategories
  <2>1. CASE Becomes(ShowRoots(ud))
    BY <1>3, <2>1, RootsGood, BecomesKeeps, SameCart DEF BackToCategories
  <2>2. ASSUME NEW r \in Roots, ud.cat \in Subs[r],
               Becomes(ShowSubs(ud, r)) \/ Becomes(ShowProductList(ud, ud.cat, FALSE))
        PROVE  ShopInv'
    <3>1. ud.cat \in Cats /\ ud.cat # Search
      BY <2>2, CategoryAssumption DEF Cats
    <3>2. Good(ShowProductList(ud, ud.cat, FALSE)) /\ Good(ShowSubs(ud, r))
      BY <3>1, ListGood, SubsGood
    <3> QED
      BY <1>3, <2>2, <3>2, BecomesKeeps, SameCart DEF BackToCategories
  <2> QED
    BY <1>3, <2>1, <2>2 DEF BackToCategories
<1>4. CASE BackToList
  <2> DEFINE c == IF screen.kind = "card" THEN screen.cat ELSE Current(ud)
  <2>1. c \in Cats /\ (c = Search => ud.results # <<>>)
    <3>1. conv # "END"
      BY <1>4, HeardAfterTheEnd DEF BackToList, Tap
    <3> QED
      BY <3>1, CurrentCategory DEF ShopInv, Coherent, Cards
  <2>2. Becomes(ShowProductList(ud, c, FALSE))
    BY <1>4 DEF BackToList
  <2> HIDE DEF c
  <2>3. Good(ShowProductList(ud, c, FALSE))
    BY <2>1, ListGood
  <2> QED
    BY <1>4, <2>2, <2>3, BecomesKeeps, SameCart DEF BackToList
<1>5. ASSUME NEW c \in Names, SelectCategory(c) PROVE ShopInv'
  <2>1. c \in Cats /\ c # Search
    BY CategoryAssumption DEF Cats
  <2>2. Good(ShowProductList(ud, c, FALSE))
    BY <2>1, ListGood
  <2>3. c \in Roots => Good(ShowSubs(ud, c))
    BY SubsGood
  <2> QED
    BY <1>5, <2>2, <2>3, BecomesKeeps, SameCart DEF SelectCategory
<1> QED
  BY <1>1, <1>2, <1>3, <1>4, <1>5

LEMMA SearchKeeps ==
  ASSUME ShopInv,
         \/ SortMenu \/ AskSearchQuery
         \/ \E gallery \in BOOLEAN : ToggleView(gallery)
         \/ \E kind \in {"short", "notfound"} : SearchFails(kind)
         \/ \E found \in Found : SearchFinds(found)
  PROVE  ShopInv'
<1> USE ShopInvImplies
<1>1. CASE SortMenu
  BY <1>1, PageGood, BecomesKeeps, SameCart DEF SortMenu, Pages, Convs
<1>2. CASE AskSearchQuery
  BY <1>2, PageGood, BecomesKeeps, SameCart DEF AskSearchQuery, Pages, Convs
<1>3. ASSUME NEW gallery \in BOOLEAN, ToggleView(gallery) PROVE ShopInv'
  <2>1. Usable([ud EXCEPT !.gallery = gallery])
    BY DEF Usable, UserData
  <2> QED
    BY <1>3, <2>1, PageGood, BecomesKeeps, SameCart DEF ToggleView, Pages, Convs
<1>4. ASSUME NEW kind \in {"short", "notfound"}, SearchFails(kind) PROVE ShopInv'
  BY <1>4, PageGood, BecomesKeeps, SameCart DEF SearchFails, Pages, Convs
<1>5. ASSUME NEW found \in Found, SearchFinds(found) PROVE ShopInv'
  <2> DEFINE u == [ud EXCEPT !.results = found]
  <2>1. Usable(u) /\ u.results # <<>>
    BY ShelfAssumption DEF Usable, UserData
  <2>2. Search \in Cats /\ Coherent(ud, screen, "SEARCH")
    BY <1>5 DEF SearchFinds, ShopInv, Cats
  <2>3. Becomes(ShowProductList(u, Search, TRUE))
    BY <1>5 DEF SearchFinds
  <2> HIDE DEF u
  <2>4. Good(ShowProductList(u, Search, TRUE))
    BY <2>1, <2>2, ListGood
  <2> QED
    BY <1>5, <2>3, <2>4, BecomesKeeps, SameCart DEF SearchFinds
<1> QED
  BY <1>1, <1>2, <1>3, <1>4, <1>5

\* Moving through the gallery stays within it.
LEMMA IndexWraps ==
  ASSUME NEW i \in Nat, NEW step \in {-1, 1}, NEW n \in Nat \ {0}
  PROVE  (i + step) % n \in Nat
OBVIOUS

LEMMA GalleryKeeps ==
  ASSUME ShopInv,
         \/ \E step \in {-1, 1} : GalleryNav(step)
         \/ GalleryAdd \/ OpenGallerySelection
  PROVE  ShopInv'
<1> USE ShopInvImplies
<1>1. ASSUME NEW step \in {-1, 1}, GalleryNav(step) PROVE ShopInv'
  <2> DEFINE u == [ud EXCEPT !.index = (@ + step) % Len(ud.ids)]
  <2>1. Len(ud.ids) \in Nat \ {0}
    BY <1>1, ButtonsOfPages DEF GalleryNav, Tap, ShopInv, Coherent, UserData
  <2>2. (ud.index + step) % Len(ud.ids) \in Nat
    BY <2>1, IndexWraps DEF Usable, UserData
  <2>3. Usable(u)
    BY <2>2 DEF Usable, UserData
  <2>4. Becomes(ShowGalleryView(u))
    BY <1>1 DEF GalleryNav
  <2> HIDE DEF u
  <2> QED
    BY <1>1, <2>3, <2>4, GalleryGood, BecomesKeeps, SameCart DEF GalleryNav
<1>2. CASE GalleryAdd
  <2>1. Coherent(ud, screen, conv)'
    BY <1>2, GalleryGood, BecomesKeeps DEF GalleryAdd
  <2>2. cart' \in [Products -> 0 .. MaxQty]
    BY <1>2, TapProduct, BoundAssumption DEF GalleryAdd, ProductButtons, ShopInv
  <2> QED
    BY <1>2, <2>1, <2>2 DEF GalleryAdd, ShopInv
<1>3. CASE OpenGallerySelection
  <2>1. Usable([ud EXCEPT !.selecting = TRUE])
    BY DEF Usable, UserData
  <2>2. Current(ud) \in Cats
        /\ (Current(ud) = Search => [ud EXCEPT !.selecting = TRUE].results # <<>>)
    BY CurrentCategory DEF Usable, UserData
  <2> QED
    BY <1>3, <2>1, <2>2, ListGood, BecomesKeeps, SameCart DEF OpenGallerySelection
<1> QED
  BY <1>1, <1>2, <1>3

LEMMA CardKeeps ==
  ASSUME ShopInv,
         \/ \E p \in Products : SelectProduct(p)
         \/ ImageNav \/ ToggleFavorite \/ BrewMethods
         \/ ShowGrid("IMG_GRID", "images") \/ ShowGrid("QTY_GRID", "quantities")
         \/ \E kind \in {"recipe", "norecipe"}, photo \in BOOLEAN :
              BrewGuide(kind, photo)
  PROVE  ShopInv'
<1> USE ShopInvImplies
<1>1. ASSUME NEW p \in Products, SelectProduct(p) PROVE ShopInv'
  <2> DEFINE details == \/ screen.kind \in {"gallery", "brew", "recipe", "norecipe"}
                        \/ (screen.kind = "card" /\ ~screen.details)
  <2>1. Becomes(ShowProductView(ud, p, screen.cat, details))
    BY <1>1 DEF SelectProduct
  <2>2. details \in BOOLEAN
    OBVIOUS
  <2> HIDE DEF details
  <2>3. Good(ShowProductView(ud, p, screen.cat, details))
    BY <1>1, <2>2, TapSelect, ViewGood DEF SelectProduct
  <2> QED
    BY <1>1, <2>1, <2>3, BecomesKeeps, SameCart DEF SelectProduct
<1>2. CASE ImageNav
  <2>1. screen.of \in Products /\ screen.details \in BOOLEAN
    BY <1>2, TapProduct DEF ImageNav, ProductButtons, ShopInv, Coherent, Screens
  <2>2. Good(ShowCard(ud, screen.of, Current(ud), screen.details))
    BY <2>1, CurrentCategory, CardGood
  <2> QED
    BY <1>2, <2>2, BecomesKeeps, SameCart DEF ImageNav
<1>3. CASE ToggleFavorite
  <2>1. screen.details \in BOOLEAN
    BY DEF ShopInv, Coherent, Screens
  <2>2. Good(ShowProductView(ud, screen.of, screen.cat, screen.details))
    BY <1>3, <2>1, TapProduct, ViewGood DEF ToggleFavorite, ProductButtons
  <2> QED
    BY <1>3, <2>2, GalleryGood, BecomesKeeps, SameCart DEF ToggleFavorite
<1>4. ASSUME NEW s \in Screens, s.kind \in Cards \ {"card", "gallery"},
             s.of \in Products, s.cat \in Cats, s.cat = Search => ud.results # <<>>,
             Becomes(Shown(ud, s, "CARD")), UNCHANGED <<cart, restarts>>
      PROVE  ShopInv'
  <2>1. Coherent(ud, s, "CARD")
    BY <1>4 DEF Coherent, Cards, Pages, Convs, Usable
  <2> QED
    BY <1>4, <2>1, BecomesKeeps, SameCart DEF Good, Shown
<1>5. ASSUME NEW b, NEW kind, ShowGrid(b, kind) PROVE ShopInv'
  <2> DEFINE s == [screen EXCEPT !.kind = kind, !.details = FALSE]
  <2>1. b \in ProductButtons /\ kind \in {"images", "quantities"} /\ Tap(b)
    BY <1>5 DEF ShowGrid, ProductButtons
  <2>2. s \in Screens /\ s.kind \in Cards \ {"card", "gallery"}
        /\ s.of = screen.of /\ s.cat = screen.cat
    BY <2>1 DEF ShopInv, Coherent, Screens, Cards
  <2>3. s.of \in Products /\ s.cat \in Cats /\ (s.cat = Search => ud.results # <<>>)
    BY <2>1, <2>2, TapProduct
  <2>4. Becomes(Shown(ud, s, "CARD")) /\ UNCHANGED <<cart, restarts>>
    BY <1>5 DEF ShowGrid
  <2> HIDE DEF s
  <2> QED
    BY <2>2, <2>3, <2>4, <1>4
<1>6. CASE BrewMethods
  <2> DEFINE s == [screen EXCEPT !.kind = "brew", !.cat = Current(ud)]
  <2>1. s \in Screens /\ s.kind \in Cards \ {"card", "gallery"}
        /\ s.of = screen.of /\ s.cat = Current(ud)
    BY CurrentCategory DEF ShopInv, Coherent, Screens, Cards
  <2>2. s.of \in Products /\ s.cat \in Cats /\ (s.cat = Search => ud.results # <<>>)
    BY <1>6, <2>1, TapProduct, CurrentCategory DEF BrewMethods, ProductButtons
  <2>3. Becomes(Shown(ud, s, "CARD")) /\ UNCHANGED <<cart, restarts>>
    BY <1>6 DEF BrewMethods
  <2> HIDE DEF s
  <2> QED
    BY <2>1, <2>2, <2>3, <1>4
<1>7. ASSUME NEW kind \in {"recipe", "norecipe"}, NEW photo \in BOOLEAN,
             BrewGuide(kind, photo)
      PROVE  ShopInv'
  <2> DEFINE s == [screen EXCEPT !.kind = kind, !.cat = Current(ud), !.photo = photo]
  <2>1. s \in Screens /\ s.kind \in Cards \ {"card", "gallery"}
        /\ s.of = screen.of /\ s.cat = Current(ud)
    BY CurrentCategory DEF ShopInv, Coherent, Screens, Cards
  <2>2. s.of \in Products /\ s.cat \in Cats /\ (s.cat = Search => ud.results # <<>>)
    BY <1>7, <2>1, TapProduct, CurrentCategory DEF BrewGuide, ProductButtons
  <2>3. Becomes(Shown(ud, s, "CARD")) /\ UNCHANGED <<cart, restarts>>
    BY <1>7 DEF BrewGuide
  <2> HIDE DEF s
  <2> QED
    BY <2>1, <2>2, <2>3, <1>4
<1> QED
  BY <1>1, <1>2, <1>3, <1>5, <1>6, <1>7

LEMMA QuantityKeeps ==
  ASSUME ShopInv,
         \/ \E step \in {-1, 1} : ChangeQuantity(step)
         \/ \E n \in Presets : SetQuantityPreset(n)
         \/ ClearProduct \/ AddToCart
  PROVE  ShopInv'
<1> USE ShopInvImplies
<1>1. ASSUME NEW step \in {-1, 1}, ChangeQuantity(step) PROVE ShopInv'
  <2> DEFINE p == screen.of
             n == Adjusted(cart[p], step)
             u == IF n = cart[p] THEN ud
                  ELSE [ud EXCEPT !.quantity = IF n = 0 THEN 1 ELSE n]
  <2>1. p \in Products /\ screen.cat \in Cats
        /\ (screen.cat = Search => ud.results # <<>>) /\ screen.details \in BOOLEAN
    BY <1>1, TapProduct DEF ChangeQuantity, ProductButtons, ShopInv, Coherent, Screens
  <2>2. n <= MaxQty /\ cart' = [cart EXCEPT ![p] = n] /\ restarts' = restarts
        /\ Becomes(IF ud.gallery THEN ShowGalleryView(u)
                   ELSE ShowCard(u, p, screen.cat, screen.details))
    BY <1>1 DEF ChangeQuantity
  <2>3. n \in 0 .. MaxQty
    BY <2>1, <2>2, BoundAssumption DEF Adjusted, ShopInv
  <2>4. cart' \in [Products -> 0 .. MaxQty]
    BY <2>2, <2>3 DEF ShopInv
  <2>5. Usable(u) /\ u.results = ud.results
    <3> HIDE DEF n
    <3> QED
      BY <2>3, BoundAssumption DEF Usable, UserData
  <2> HIDE DEF p, u, n
  <2>6. Good(ShowGalleryView(u))
    BY <2>5, GalleryGood
  <2>7. Good(ShowCard(u, p, screen.cat, screen.details))
    BY <2>1, <2>5, CardGood
  <2> QED
    BY <2>2, <2>4, <2>6, <2>7, BecomesKeeps DEF ShopInv
<1>2. ASSUME NEW n \in Presets, SetQuantityPreset(n) PROVE ShopInv'
  <2> DEFINE u == [ud EXCEPT !.quantity = n]
  <2>1. Usable(u) /\ u.results = ud.results
    BY BoundAssumption DEF Usable, UserData
  <2>2. screen.of \in Products /\ screen.cat \in Cats
        /\ (screen.cat = Search => ud.results # <<>>)
    BY <1>2, TapProduct DEF SetQuantityPreset, ProductButtons
  <2>3. Becomes(ShowProductView(u, screen.of, screen.cat, FALSE))
    BY <1>2 DEF SetQuantityPreset
  <2> HIDE DEF u
  <2>4. Good(ShowProductView(u, screen.of, screen.cat, FALSE))
    BY <2>1, <2>2, ViewGood
  <2> QED
    BY <1>2, <2>3, <2>4, BecomesKeeps, SameCart DEF SetQuantityPreset
<1>3. CASE ClearProduct
  <2> DEFINE u == [ud EXCEPT !.quantity = 1]
  <2>1. Usable(u) /\ u.results = ud.results
    BY BoundAssumption DEF Usable, UserData
  <2>2. screen.of \in Products /\ screen.cat \in Cats
        /\ (screen.cat = Search => ud.results # <<>>)
    BY <1>3, TapProduct DEF ClearProduct, ProductButtons
  <2>3. Becomes(ShowProductView(u, screen.of, screen.cat, FALSE))
    BY <1>3 DEF ClearProduct
  <2> HIDE DEF u
  <2>4. Good(ShowProductView(u, screen.of, screen.cat, FALSE))
    BY <2>1, <2>2, ViewGood
  <2>5. cart' \in [Products -> 0 .. MaxQty]
    <3>1. 0 \in 0 .. MaxQty
      BY BoundAssumption
    <3> QED
      BY <1>3, <3>1 DEF ClearProduct, ShopInv
  <2> QED
    BY <1>3, <2>3, <2>4, <2>5, BecomesKeeps DEF ClearProduct, ShopInv
<1>4. CASE AddToCart
  <2>1. cart' \in [Products -> 0 .. MaxQty]
    <3>1. ud.quantity \in 0 .. MaxQty
      BY BoundAssumption DEF Usable, UserData
    <3> QED
      BY <1>4, <3>1 DEF AddToCart, ShopInv
  <2>2. ud.viewed \in Products /\ screen.details \in BOOLEAN
    BY <1>4 DEF AddToCart, ShopInv, Coherent, Screens
  <2>3. Good(ShowCard(ud, ud.viewed, Current(ud), screen.details))
    BY <2>2, CurrentCategory, CardGood
  <2> QED
    BY <1>4, <2>1, <2>3, BecomesKeeps DEF AddToCart, ShopInv
<1> QED
  BY <1>1, <1>2, <1>3, <1>4

LEMMA ShowCartKeeps ==
  ASSUME ShopInv, NEW g \in [Products -> 0 .. MaxQty], ShowCart(g),
         restarts' = restarts
  PROVE  ShopInv'
<1>1. Good(Shown(ud, Page("cart", Absent), "CART")) /\ Good(ShowRoots(ud))
  BY ShopInvImplies, PageGood, RootsGood DEF Pages, Convs
<1>2. cart' \in [Products -> 0 .. MaxQty]
  BY BoundAssumption DEF ShowCart, NoGoods
<1>3. Coherent(ud, screen, conv)'
  BY <1>1, BecomesKeeps DEF ShowCart, ShopInv, Coherent
<1> QED
  BY <1>2, <1>3 DEF ShopInv

LEMMA MenuKeeps ==
  ASSUME ShopInv,
         \/ ViewCart \/ ClearCart \/ EditCart \/ Checkout
         \/ ExitToMainMenu \/ Stale \/ MyOrders \/ Done
         \/ \E goods \in Carts : RepeatOrder(goods)
  PROVE  ShopInv'
<1> USE ShopInvImplies
<1>1. CASE ViewCart
  BY <1>1, ShowCartKeeps DEF ViewCart, ShopInv
<1>2. CASE ClearCart
  BY <1>2, ShowCartKeeps, BoundAssumption DEF ClearCart, NoGoods
<1>3. CASE EditCart
  BY <1>3, PageGood, BecomesKeeps, SameCart DEF EditCart, Pages, Convs
<1>4. CASE Checkout
  <2>1. CASE ShowCart(cart)
    BY <1>4, <2>1, ShowCartKeeps DEF Checkout, ShopInv
  <2>2. CASE ~ShowCart(cart)
    <3>1. Coherent(ud, screen, conv)'
      BY <1>4, <2>2, PageGood, BecomesKeeps DEF Checkout, Pages, Convs
    <3>2. cart' \in [Products -> 0 .. MaxQty]
      BY <1>4, <2>2, BoundAssumption DEF Checkout, NoGoods, ShopInv
    <3> QED
      BY <1>4, <3>1, <3>2 DEF Checkout, ShopInv
  <2> QED
    BY <2>1, <2>2
<1>5. CASE ExitToMainMenu
  <2>1. Usable([ud EXCEPT !.quantity = 1])
    BY BoundAssumption DEF Usable, UserData
  <2> QED
    BY <1>5, <2>1, PageGood, BecomesKeeps, SameCart
    DEF ExitToMainMenu, ShowMainMenu, Pages, Convs
<1>6. CASE Stale \/ MyOrders
  <2>1. conv \in Convs
    BY DEF ShopInv, Coherent
  <2> QED
    BY <1>6, <2>1, PageGood, BecomesKeeps, SameCart
    DEF Stale, MyOrders, ShowMainMenu, Pages
<1>7. CASE Done
  <2>1. Usable(NoData)
    BY BoundAssumption, CategoryAssumption DEF Usable, UserData, NoData
  <2> QED
    BY <1>7, <2>1, PageGood, BecomesKeeps, SameCart DEF Done, Pages, Convs
<1>8. ASSUME NEW goods \in Carts, RepeatOrder(goods) PROVE ShopInv'
  <2>1. screen.kind = "orders"
    BY <1>8, ButtonsOfPages DEF RepeatOrder, Tap, ShopInv, Coherent
  <2>2. screen.cat = Absent
    BY <2>1 DEF ShopInv, Coherent, Pages
  <2>3. Coherent(ud, screen, "CATEGORIES") /\ Coherent(ud, screen, "END")
    BY <2>1, <2>2, CategoryAssumption DEF ShopInv, Coherent, Convs, Cats
  <2> QED
    BY <1>8, <2>3, ShowCartKeeps, BecomesKeeps, SameCart
    DEF RepeatOrder, Carts, Good, Shown
<1> QED
  BY <1>1, <1>2, <1>3, <1>4, <1>5, <1>6, <1>7, <1>8

LEMMA RestartKeeps ==
  ASSUME ShopInv, Restart
  PROVE  ShopInv'
<1>1. Coherent(NoData, screen, "END")
  BY BoundAssumption, CategoryAssumption
  DEF ShopInv, Coherent, NoData, UserData, Convs
<1>2. Coherent(ud, screen, conv)'
  BY <1>1, BecomesKeeps DEF Restart, Good, Shown
<1> QED
  BY <1>2, BoundAssumption DEF Restart, ShopInv

--------------------------------------------------------------------------------
(* The theorems                                                             *)

LEMMA ShopStep == ShopInv /\ [ShopNext]_shopVars => ShopInv'
<1> SUFFICES ASSUME ShopInv, [ShopNext]_shopVars PROVE ShopInv'
  OBVIOUS
<1>1. CASE Handle
  BY <1>1, CatalogueKeeps, SearchKeeps, GalleryKeeps, CardKeeps, QuantityKeeps,
     MenuKeeps DEF Handle
<1>2. CASE Restart
  BY <1>2, RestartKeeps
<1>3. CASE UNCHANGED shopVars
  BY <1>3 DEF shopVars, ShopInv, Coherent
<1> QED
  BY <1>1, <1>2, <1>3 DEF ShopNext

LEMMA ShopAlways == ShopSpec => []ShopInv
<1>1. ShopInit => ShopInv
  <2> SUFFICES ASSUME ShopInit PROVE ShopInv
    OBVIOUS
  <2>1. Usable(NoData)
    BY BoundAssumption, CategoryAssumption DEF Usable, UserData, NoData
  <2>2. Coherent(ud, screen, conv)
    BY <2>1, PageGood DEF ShopInit, Good, Shown, Pages, Convs
  <2> QED
    BY <2>2, BoundAssumption DEF ShopInit, ShopInv, NoGoods
<1> QED
  BY <1>1, ShopStep, PTL DEF ShopSpec

\* Whatever is tapped, typed or restarted, the conversation, the memory, the
\* cart and the menu are of their types.
THEOREM ShopTypes == ShopSpec => []ShopTypeOK
BY ShopAlways, ShopInvImplies, PTL

\* A card on the screen and the product and quantity add_to_cart will take from
\* memory agree.
THEOREM CardsMatch == ShopSpec => []CardMatchesMemory
BY ShopAlways, ShopInvImplies, PTL

\* The gallery always shows the product its index points at.
THEOREM GalleryShowsIndexed == ShopSpec => []GalleryWithinList
BY ShopAlways, ShopInvImplies, PTL

LEMMA SelectionShown ==
  ASSUME NEW u, Usable(u), NEW p \in Products,
         \E i \in 1 .. Len(u.ids) : u.ids[i] = p
  PROVE  SelectInGallery(u, p).screen.of = p
<1> DEFINE at == {i \in 1 .. Len(u.ids) : u.ids[i] = p}
           first == CHOOSE i \in at : \A j \in at : i <= j
           v == [u EXCEPT !.index = IF at = {} THEN 0 ELSE first - 1,
                          !.selecting = FALSE]
           last == Len(v.ids) - 1
           w == [v EXCEPT !.index = IF @ > last THEN last ELSE @]
<1>1. at \subseteq Nat /\ at # {}
  BY DEF Usable, UserData
<1>2. first \in at
  <2> HIDE DEF at
  <2> QED
    BY <1>1, FirstPosition
<1>3. first \in 1 .. Len(u.ids) /\ u.ids[first] = p
  BY <1>2
<1> HIDE DEF first
<1>4. v.index = first - 1 /\ v.ids = u.ids /\ v \in UserData
  <2>1. first - 1 \in Nat
    BY <1>3 DEF Usable, UserData
  <2> QED
    BY <1>1, <2>1 DEF Usable, UserData
<1>5. w.index + 1 = first /\ w.ids = u.ids
  BY <1>3, <1>4 DEF Usable, UserData
<1>6. v.ids # <<>>
  BY <1>3, <1>4
<1>7. SelectInGallery(u, p) = DrawGallery(v, FALSE)
  BY <1>6 DEF SelectInGallery, ShowGalleryView, first
<1>8. DrawGallery(v, FALSE).screen = Gallery(w)
  BY DEF DrawGallery, Shown
<1>9. Gallery(w).of = w.ids[w.index + 1]
  BY DEF Gallery
<1> QED
  BY <1>3, <1>5, <1>7, <1>8, <1>9

\* What is tapped in a list is what is shown, also in a list that was opened
\* to choose the gallery's next product.
THEOREM ChosenShown == ShopSpec => ChosenIsShown
<1>1. ASSUME ShopInv, NEW p \in Products, screen.kind = "list", SelectProduct(p),
             ud.selecting => \E i \in 1 .. Len(ud.ids) : ud.ids[i] = p
      PROVE  screen'.of = p
  <2>1. Usable(ud)
    BY <1>1, ShopInvImplies
  <2>2. PICK details : Becomes(ShowProductView(ud, p, screen.cat, details))
    BY <1>1 DEF SelectProduct
  <2>3. CASE ud.selecting
    BY <1>1, <2>1, <2>2, <2>3, SelectionShown DEF ShowProductView, Becomes
  <2>4. CASE ~ud.selecting
    BY <2>2, <2>4 DEF ShowProductView, ShowCard, Shown, Becomes
  <2> QED
    BY <2>3, <2>4
<1>2. ShopInv => [\A p \in Products :
                    /\ screen.kind = "list"
                    /\ SelectProduct(p)
                    /\ ud.selecting => \E i \in 1 .. Len(ud.ids) : ud.ids[i] = p
                    => screen'.of = p]_shopVars
  BY <1>1
<1> QED
  BY <1>2, ShopAlways, PTL DEF ChosenIsShown

--------------------------------------------------------------------------------
(* The buttons                                                              *)

\* Which states have a handler for which button.
LEMMA WhoAnswers ==
  ASSUME NEW c \in Convs
  PROVE  /\ {"START_ORDERING", "FAVORITES_MENU", "REPEAT_ORDER", "SEARCH", "USER_MAIN_MENU",
             "MY_ORDERS"} \subseteq Handled(c)
         /\ "VIEW_CART" \in Handled(c) <=> c \in {"CATEGORIES", "PRODUCTS", "CARD"}
         /\ "GO_TO_MAIN_MENU" \in Handled(c) <=> c # "END"
         /\ "BACK_TO_CATEGORIES" \in Handled(c) <=>
              c \in {"CATEGORIES", "PRODUCTS", "CART", "SEARCH"}
         /\ "SELECT_PRODUCT" \in Handled(c) <=> c \in {"CATEGORIES", "PRODUCTS", "CARD", "CART"}
         /\ "RECIPE_SAVE" \in Handled(c) <=> c \in {"CATEGORIES", "CARD"}
         /\ "EDIT_CART" \in Handled(c) <=> c \in {"CARD", "CART"}
         /\ \A b \in {"SELECT_CATEGORY", "SHOW_ALL", "CATEGORY_LIST"} :
              b \in Handled(c) <=> c = "CATEGORIES"
         /\ \A b \in {"SORT_MENU", "TOGGLE_VIEW", "SET_SORT", "GALLERY_ADD", "GALLERY_PREV",
                      "GALLERY_NEXT", "GALLERY_OPEN_LIST"} :
              b \in Handled(c) <=> c = "PRODUCTS"
         /\ \A b \in {"CHANGE_QUANTITY", "QTY_GRID", "TOGGLE_FAV", "SET_QTY", "PRODUCT_CLEAR",
                      "BACK_TO_LIST"} :
              b \in Handled(c) <=> c \in {"PRODUCTS", "CARD"}
         /\ \A b \in {"ADD_TO_CART", "BACK_TO_LIST_OF", "PROD_IMG", "IMG_GRID",
                      "READ_FULL_DESC", "BREW_GUIDE", "BREW_METHOD"} :
              b \in Handled(c) <=> c = "CARD"
         /\ \A b \in {"CHECKOUT", "CLEAR_CART", "BACK_TO_SUMMARY"} :
              b \in Handled(c) <=> c = "CART"
         /\ "DELIVERY_BACK" \in Handled(c) <=> c = "DELIVERY"
<1> USE DEF Handled, EntryPoints, Fallbacks, Elsewhere, If
<1>1. CASE c = "END"
  BY <1>1 DEF States
<1>2. CASE c = "CATEGORIES"
  BY <1>2 DEF States
<1>3. CASE c = "PRODUCTS"
  BY <1>3 DEF States
<1>4. CASE c = "CARD"
  BY <1>4 DEF States
<1>5. CASE c = "CART"
  BY <1>5 DEF States
<1>6. CASE c = "DELIVERY"
  BY <1>6 DEF States
<1>7. CASE c = "SEARCH"
  BY <1>7 DEF States
<1> QED
  BY <1>1, <1>2, <1>3, <1>4, <1>5, <1>6, <1>7 DEF Convs

\* The states that answer every button of a menu of this kind, with an empty
\* cart or whatever is in it.
Fits(kind, c, empty) ==
  \/ kind \in {"main", "orders", "notice", "short"}
  \/ kind \in {"ask", "notfound"} /\ c \in {"CATEGORIES", "PRODUCTS", "CART", "SEARCH"}
  \/ kind \in {"cart", "editor"} /\ c = "CART"
  \/ kind = "cart" /\ empty /\ c \in {"CATEGORIES", "PRODUCTS", "SEARCH"}
  \/ kind = "categories" /\ c = "CATEGORIES"
  \/ kind \in {"list", "sort", "gallery"} /\ c = "PRODUCTS"
  \/ kind = "delivery" /\ c = "DELIVERY"
  \/ kind \in {"card", "quantities", "images", "brew", "recipe", "norecipe"} /\ c = "CARD"
  \/ kind = "quantities" /\ c = "PRODUCTS"
  \/ kind = "recipe" /\ c = "CATEGORIES"
  \/ kind = "norecipe" /\ c \in {"CATEGORIES", "PRODUCTS", "CART"}

\* They are those whose tables hold the menu's keyboard, the broken buttons apart.
LEMMA FitsIsButtonsFit ==
  screen \in Screens /\ conv \in Convs =>
    (ButtonsFit <=> Fits(screen.kind, conv, cart = NoGoods))
<1> SUFFICES ASSUME screen \in Screens, conv \in Convs
             PROVE  ButtonsFit <=> Fits(screen.kind, conv, cart = NoGoods)
  OBVIOUS
<1> USE WhoAnswers DEF ButtonsFit, Broken, Keyboard, CartButton, If, Fits
<1> HIDE DEF Handled
<1>1. CASE screen.kind \in {"main", "orders", "notice", "short"}
  BY <1>1
<1>2. CASE screen.kind = "categories"
  BY <1>2
<1>3. CASE screen.kind = "list"
  BY <1>3
<1>4. CASE screen.kind = "sort"
  BY <1>4
<1>5. CASE screen.kind \in {"ask", "notfound"}
  BY <1>5
<1>6. CASE screen.kind = "cart"
  BY <1>6
<1>7. CASE screen.kind \in {"editor", "delivery"}
  BY <1>7
<1>8. CASE screen.kind = "card"
  BY <1>8
<1>9. CASE screen.kind = "gallery"
  BY <1>9
<1>10. CASE screen.kind = "quantities"
  BY <1>10
<1>11. CASE screen.kind \in {"images", "brew"}
  BY <1>11
<1>12. CASE screen.kind \in {"recipe", "norecipe"}
  BY <1>12
<1> QED
  BY <1>1, <1>2, <1>3, <1>4, <1>5, <1>6, <1>7, <1>8, <1>9, <1>10, <1>11, <1>12
  DEF Screens, Pages, Cards

\* Before a step and after it.
LEMMA FitsNow == ShopInv => (ButtonsFit <=> Fits(screen.kind, conv, cart = NoGoods))
BY FitsIsButtonsFit DEF ShopInv, Coherent

LEMMA FitsThen == ShopInv' => (ButtonsFit' <=> Fits(screen'.kind, conv', cart' = NoGoods))
<1>1. ShopInv' => (ButtonsFit' <=> Fits(screen.kind, conv, cart = NoGoods)')
  BY FitsNow, PTL
<1> QED
  BY <1>1 DEF Fits, NoGoods

\* What is drawn fits the state it is drawn for, whatever is in the cart.
Fit(r) == Fits(r.screen.kind, r.conv, FALSE)

\* That is enough for the step that draws it.
LEMMA FitIsEnough ==
  ASSUME ShopInv', NEW r, Fit(r), Becomes(r)
  PROVE  ButtonsFit'
BY FitsThen DEF Fit, Fits, Becomes

\* The handlers' drawings, a list asked for by a text apart.
LEMMA DrawingsFit ==
  ASSUME NEW u, NEW c, NEW p, NEW details
  PROVE  /\ Fit(ShowRoots(u)) /\ Fit(ShowSubs(u, c)) /\ Fit(ShowMainMenu(u, c))
         /\ Fit(ShowProductList(u, c, FALSE)) /\ Fit(ShowGalleryView(u))
         /\ Fit(ShowCard(u, p, c, details)) /\ Fit(ShowProductView(u, p, c, details))
<1>1. \A v : Fit(DrawGallery(v, FALSE))
  BY DEF DrawGallery, Gallery, Shown, Fit, Fits
<1>2. ASSUME NEW v, NEW d PROVE Fit(ShowProductList(v, d, FALSE))
  <2> DEFINE x == [v EXCEPT !.cat = d]
             w == [x EXCEPT !.ids = Listed(x, d), !.index = 0]
  <2>1. \/ ShowProductList(v, d, FALSE) = DrawGallery(w, FALSE)
        \/ ShowProductList(v, d, FALSE) = Shown(x, Page("list", d), "PRODUCTS")
    BY DEF ShowProductList
  <2>2. Fit(Shown(x, Page("list", d), "PRODUCTS"))
    BY DEF Shown, Page, Fit, Fits
  <2> HIDE DEF w, x
  <2> QED
    BY <1>1, <2>1, <2>2
<1>3. \A v : Fit(ShowGalleryView(v))
  BY <1>1, <1>2 DEF ShowGalleryView
<1>4. Fit(ShowCard(u, p, c, details))
  BY DEF ShowCard, Shown, Fit, Fits
<1>5. Fit(SelectInGallery(u, p))
  BY <1>3 DEF SelectInGallery
<1>6. Fit(ShowProductView(u, p, c, details))
  BY <1>4, <1>5 DEF ShowProductView
<1>7. Fit(ShowRoots(u)) /\ Fit(ShowSubs(u, c)) /\ Fit(ShowMainMenu(u, c))
  BY DEF ShowRoots, ShowSubs, ShowMainMenu, Shown, Page, Fit, Fits
<1> QED
  BY <1>2, <1>3, <1>4, <1>6, <1>7

\* Results without a photo leave the menu as it was; what is answered while a
\* search is awaited is answered in the list as well.
LEMMA FindingFits ==
  ASSUME ShopInv, ShopInv', ButtonsFit, NEW found, SearchFinds(found)
  PROVE  ButtonsFit'
<1> DEFINE r == ShowProductList([ud EXCEPT !.results = found], Search, TRUE)
<1>1. conv = "SEARCH" /\ Becomes(r) /\ cart' = cart
  BY DEF SearchFinds
<1>2. Fit(r) \/ (r.screen = screen /\ r.conv = "PRODUCTS")
  BY DEF ShowProductList, DrawGallery, Gallery, Shown, Page, Fit, Fits
<1> HIDE DEF r
<1>3. CASE Fit(r)
  BY <1>1, <1>3, FitIsEnough
<1>4. CASE r.screen = screen /\ r.conv = "PRODUCTS"
  BY <1>1, <1>4, FitsNow, FitsThen DEF Becomes, Fits
<1> QED
  BY <1>2, <1>3, <1>4

\* The cart is shown, or found expired: then it is empty, which takes buttons
\* away from the menu that stays.
LEMMA CartFits ==
  ASSUME ShopInv, ShopInv', ButtonsFit, NEW g, ShowCart(g)
  PROVE  ButtonsFit'
<1>1. CASE Becomes(Shown(ud, Page("cart", Absent), "CART"))
  <2>1. Fit(Shown(ud, Page("cart", Absent), "CART"))
    BY DEF Fit, Fits, Shown, Page
  <2> QED
    BY <1>1, <2>1, FitIsEnough
<1>2. CASE Becomes(ShowRoots(ud))
  BY <1>2, DrawingsFit, FitIsEnough
<1>3. CASE cart' = NoGoods /\ UNCHANGED <<conv, ud, screen>>
  BY <1>3, FitsNow, FitsThen DEF Fits
<1> QED
  BY <1>1, <1>2, <1>3 DEF ShowCart

\* The handlers of the catalogue, the gallery and the cards.
LEMMA CatalogueFits ==
  ASSUME ShopInv, ShopInv', ButtonsFit,
         \/ StartUserOrder \/ ShowAll \/ BackToCategories \/ BackToList
         \/ \E c \in Names : SelectCategory(c)
         \/ \E step \in {-1, 1} : GalleryNav(step) \/ ChangeQuantity(step)
         \/ GalleryAdd \/ OpenGallerySelection
         \/ \E p \in Products : SelectProduct(p)
         \/ ImageNav \/ ClearProduct \/ AddToCart \/ ToggleFavorite
         \/ \E n \in Presets : SetQuantityPreset(n)
  PROVE  ButtonsFit'
<1>1. PICK r : Fit(r) /\ Becomes(r)
  <2>1. CASE StartUserOrder \/ ShowAll \/ BackToList
    BY <2>1, DrawingsFit DEF StartUserOrder, ShowAll, BackToList
  <2>2. CASE BackToCategories \/ \E c \in Names : SelectCategory(c)
    BY <2>2, DrawingsFit DEF BackToCategories, SelectCategory
  <2>3. CASE (\E step \in {-1, 1} : GalleryNav(step)) \/ GalleryAdd \/ OpenGallerySelection
    BY <2>3, DrawingsFit DEF GalleryNav, GalleryAdd, OpenGallerySelection
  <2>4. ASSUME NEW step \in {-1, 1}, ChangeQuantity(step) PROVE \E r : Fit(r) /\ Becomes(r)
    BY <2>4, DrawingsFit DEF ChangeQuantity
  <2>5. CASE (\E p \in Products : SelectProduct(p)) \/ ImageNav
    BY <2>5, DrawingsFit DEF SelectProduct, ImageNav
  <2>6. CASE \/ ClearProduct \/ AddToCart \/ ToggleFavorite
             \/ \E n \in Presets : SetQuantityPreset(n)
    BY <2>6, DrawingsFit DEF ClearProduct, SetQuantityPreset, AddToCart, ToggleFavorite
  <2> QED
    BY <2>1, <2>2, <2>3, <2>4, <2>5, <2>6
<1> QED
  BY <1>1, FitIsEnough

\* And those of the other menus.
LEMMA MenusFit ==
  ASSUME ShopInv, ShopInv', ButtonsFit,
         \/ SortMenu \/ AskSearchQuery \/ EditCart \/ ExitToMainMenu \/ Stale \/ MyOrders \/ Done
         \/ \E gallery \in BOOLEAN : ToggleView(gallery)
         \/ \E kind \in {"short", "notfound"} : SearchFails(kind)
         \/ ShowGrid("IMG_GRID", "images") \/ ShowGrid("QTY_GRID", "quantities")
         \/ BrewMethods
         \/ \E kind \in {"recipe", "norecipe"}, photo \in BOOLEAN : BrewGuide(kind, photo)
  PROVE  ButtonsFit'
<1> USE DEF Fit, Fits, Shown, Page
<1>1. PICK r : Fit(r) /\ Becomes(r)
  <2>1. CASE SortMenu \/ AskSearchQuery \/ EditCart \/ MyOrders \/ Done
    BY <2>1 DEF SortMenu, AskSearchQuery, EditCart, MyOrders, Done
  <2>2. CASE ExitToMainMenu \/ Stale
    BY <2>2, DrawingsFit DEF ExitToMainMenu, Stale
  <2>3. CASE \E gallery \in BOOLEAN : ToggleView(gallery)
    BY <2>3 DEF ToggleView
  <2>4. CASE \E kind \in {"short", "notfound"} : SearchFails(kind)
    BY <2>4 DEF SearchFails
  <2>5. CASE ShowGrid("IMG_GRID", "images") \/ ShowGrid("QTY_GRID", "quantities")
    BY <2>5 DEF ShowGrid, ShopInv, Coherent, Screens
  <2>6. CASE BrewMethods
    BY <2>6 DEF BrewMethods, ShopInv, Coherent, Screens
  <2>7. ASSUME NEW kind \in {"recipe", "norecipe"}, NEW photo \in BOOLEAN, BrewGuide(kind, photo)
        PROVE  \E r : Fit(r) /\ Becomes(r)
    BY <2>7 DEF BrewGuide, ShopInv, Coherent, Screens
  <2> QED
    BY <2>1, <2>2, <2>3, <2>4, <2>5, <2>6, <2>7
<1> QED
  BY <1>1, FitIsEnough

\* No handler leaves a button behind that the conversation does not know, the
\* broken ones apart (the favourites button, the main menu's cart button, and +
\* and - in categories that the validator refuses): if every other button of the
\* menu has its handler before an update, every other button of the new menu has
\* one after it, for any catalogue, any results of a search and any cart (the
\* states dictionary, entry points and fallbacks of order_handler against
\* keyboards.py).
THEOREM NoDeadButton == ShopSpec => ButtonsAnswered
<1>1. ASSUME ShopInv, ShopInv', ButtonsFit, Handle PROVE ButtonsFit'
  <2>1. CASE ViewCart \/ ClearCart
    BY <1>1, <2>1, CartFits DEF ViewCart, ClearCart
  <2>2. CASE Checkout
    <3>1. CASE \E g : ShowCart(g)
      BY <1>1, <3>1, CartFits
    <3>2. CASE \/ Becomes(Shown(ud, Page("delivery", Absent), "DELIVERY"))
               \/ Becomes(Shown(ud, Page("notice", Absent), "END"))
      <4>1. /\ Fit(Shown(ud, Page("delivery", Absent), "DELIVERY"))
            /\ Fit(Shown(ud, Page("notice", Absent), "END"))
        BY DEF Fit, Fits, Shown, Page
      <4> QED
        BY <1>1, <3>2, <4>1, FitIsEnough
    <3> QED
      BY <2>2, <3>1, <3>2 DEF Checkout
  <2>3. ASSUME NEW goods \in Carts, RepeatOrder(goods) PROVE ButtonsFit'
    <3>1. CASE ShowCart(goods)
      BY <1>1, <3>1, CartFits
    <3>2. ASSUME NEW c, Becomes(Shown(ud, screen, c)) PROVE ButtonsFit'
      <4>1. screen.kind = "orders"
        BY <1>1, <2>3, ButtonsOfPages DEF RepeatOrder, Tap, ShopInv, Coherent
      <4>2. Fit(Shown(ud, screen, c))
        BY <4>1 DEF Fit, Fits, Shown
      <4> QED
        BY <1>1, <3>2, <4>2, FitIsEnough
    <3> QED
      BY <2>3, <3>1, <3>2 DEF RepeatOrder
  <2> QED
    BY <1>1, <2>1, <2>2, <2>3, CatalogueFits, MenusFit, FindingFits DEF Handle
<1>2. ShopInv /\ ShopInv' => [ButtonsFit /\ ~ButtonsFit' => ~Handle]_shopVars
  BY <1>1
<1> QED
  BY <1>2, ShopAlways, PTL DEF ButtonsAnswered

================================================================================
