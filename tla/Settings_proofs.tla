---------------------------- MODULE Settings_proofs ----------------------------
(***************************************************************************)
(* What holds of what customers and staff set, for any services, points,   *)
(* cities, pages and editors: one default address per service, the pickup  *)
(* point that was pressed, and pages that move, and are edited, as asked.  *)
(***************************************************************************)
EXTENDS AddressBook, DeliveryAdmin, InfoPages, Filtering_proofs, FiniteSetTheorems

--------------------------------------------------------------------------------
\* AddressBook.

USE AddressAssumption

Entries == [service : Services, spot : Spots, default : BOOLEAN]

\* Every variable has its type; an address has an id that was given out.
AddressTypeOK ==
  /\ saved \in 0 .. MaxAddresses
  /\ DOMAIN book \subseteq 1 .. saved /\ book \in [DOMAIN book -> Entries]
  /\ renaming \in [waiting : BOOLEAN, address : 0 .. MaxAddresses]

\* Two addresses of a service are not both its default, nor the same spot.
AtMostOne ==
  \A a, b \in DOMAIN book :
    a # b /\ book[a].service = book[b].service =>
      ~(book[a].default /\ book[b].default) /\ book[a].spot # book[b].spot

\* The service of every address has a default.
AtLeastOne ==
  \A a \in DOMAIN book :
    \E b \in DOMAIN book : book[b].service = book[a].service /\ book[b].default

\* The inductive invariant.
AddressInv == AddressTypeOK /\ AtMostOne /\ AtLeastOne

\* Some address of a nonempty set was created last.
LEMMA LastCreated ==
  ASSUME NEW n \in Nat, NEW S \in SUBSET (1 .. n), S # {}
  PROVE  \E a \in S : \A b \in S : b <= a
<1> DEFINE T == {n - a : a \in S}
<1>1. T \subseteq Nat /\ T # {}
  <2>1. \A a \in S : n - a \in Nat
    OBVIOUS
  <2>2. PICK a \in S : TRUE
    OBVIOUS
  <2>3. n - a \in T
    OBVIOUS
  <2> QED
    BY <2>1, <2>3
<1>2. PICK m \in T : \A k \in T : ~(<<k, m>> \in OpToRel(<, Nat))
  BY <1>1, NatLessThanWellFounded, WFMin
<1>3. \A k \in T : ~(k < m)
  BY <1>1, <1>2 DEF OpToRel
<1>4. PICK a \in S : m = n - a
  OBVIOUS
<1>5. ASSUME NEW b \in S PROVE b <= a
  BY <1>3, <1>4
<1> QED
  BY <1>5

\* The successor of a default that is not the last of its service is another
\* address of that service.
LEMMA SuccessorOf ==
  ASSUME AddressTypeOK, NEW id \in DOMAIN book, Of(book[id].service) \ {id} # {}
  PROVE  Successor(id) \in Of(book[id].service) \ {id}
<1> DEFINE others == Of(book[id].service) \ {id}
<1>1. others \in SUBSET (1 .. saved) /\ saved \in Nat
  BY DEF Of, AddressTypeOK
<1>2. \E a \in others : \A b \in others : b <= a
  BY <1>1, LastCreated
<1>3. Successor(id) = CHOOSE a \in others : \A b \in others : b <= a
  BY DEF Successor
<1> QED
  BY <1>2, <1>3

LEMMA AddInv ==
  ASSUME AddressInv, NEW service \in Services, NEW spot \in Spots, AddAddress(service, spot)
  PROVE  AddressInv'
<1> USE DEF AddressInv
<1>1. CASE \E a \in Of(service) : book[a].spot = spot
  BY <1>1 DEF AddAddress, AddressTypeOK, AtMostOne, AtLeastOne
<1>2. CASE ~\E a \in Of(service) : book[a].spot = spot
  <2> DEFINE n == saved + 1
             first == Of(service) = {}
             D == DOMAIN book
  <2>1. saved \in Nat /\ n \in 1 .. MaxAddresses /\ n \notin D /\ saved' = n
        /\ renaming' = renaming
    BY <1>2 DEF AddAddress, AddressTypeOK
  <2>2. book' = [a \in D \cup {n} |->
                   IF a = n THEN [service |-> service, spot |-> spot, default |-> first]
                   ELSE book[a]]
    BY <1>2 DEF AddAddress
  <2>3. first \in BOOLEAN
    OBVIOUS
  <2>4. first <=> \A a \in D : book[a].service # service
    BY DEF Of
  <2>5. \A a \in D : book[a].service = service => book[a].spot # spot
    BY <1>2 DEF Of
  <2> HIDE DEF first
  <2>6. DOMAIN book' = D \cup {n} /\ \A a \in D : book'[a] = book[a]
    BY <2>1, <2>2
  <2>7. book'[n].service = service /\ book'[n].spot = spot /\ book'[n].default = first
        /\ book'[n] \in Entries
    BY <2>2, <2>3 DEF Entries
  <2>8. AddressTypeOK'
    BY <2>1, <2>2, <2>6, <2>7 DEF AddressTypeOK
  <2>9. AtMostOne'
    BY <2>1, <2>4, <2>5, <2>6, <2>7 DEF AtMostOne
  <2>10. AtLeastOne'
    <3> SUFFICES ASSUME NEW a \in D \cup {n}
                 PROVE  \E b \in D \cup {n} : book'[b].service = book'[a].service
                                                /\ book'[b].default
      BY <2>6 DEF AtLeastOne
    <3>1. CASE a \in D
      BY <3>1, <2>6 DEF AtLeastOne
    <3>2. CASE a = n /\ first
      BY <3>2, <2>7
    <3>3. CASE a = n /\ ~first
      <4>1. PICK c \in D : book[c].service = service
        BY <3>3, <2>4
      <4>2. PICK b \in D : book[b].service = book[c].service /\ book[b].default
        BY DEF AtLeastOne
      <4> QED
        BY <3>3, <4>1, <4>2, <2>6, <2>7
    <3> QED
      BY <3>1, <3>2, <3>3
  <2> QED
    BY <2>8, <2>9, <2>10
<1> QED
  BY <1>1, <1>2

LEMMA SetInv == ASSUME AddressInv, NEW id, SetDefault(id) PROVE AddressInv'
<1> USE DEF AddressInv
<1> DEFINE D == DOMAIN book
<1>1. id \in D /\ book \in [D -> Entries] /\ saved' = saved /\ renaming' = renaming
  BY DEF SetDefault, AddressTypeOK
<1>2. DOMAIN book' = D
  BY DEF SetDefault
<1>3. ASSUME NEW a \in D
      PROVE  /\ book'[a] \in Entries
             /\ book'[a].service = book[a].service /\ book'[a].spot = book[a].spot
             /\ book'[a].default <=> IF book[a].service = book[id].service THEN a = id
                                     ELSE book[a].default
  <2> DEFINE is == a = id
  <2>1. book'[a] = IF book[a].service = book[id].service
                   THEN [book[a] EXCEPT !.default = is] ELSE book[a]
    BY DEF SetDefault
  <2>2. is \in BOOLEAN /\ (is <=> a = id) /\ book[a] \in Entries
    BY <1>1
  <2> HIDE DEF is
  <2> QED
    BY <2>1, <2>2 DEF Entries
<1>4. AddressTypeOK'
  BY <1>1, <1>2, <1>3 DEF AddressTypeOK, SetDefault
<1>5. AtMostOne'
  BY <1>1, <1>2, <1>3 DEF AtMostOne
<1>6. AtLeastOne'
  BY <1>1, <1>2, <1>3 DEF AtLeastOne
<1> QED
  BY <1>4, <1>5, <1>6

LEMMA DeleteInv == ASSUME AddressInv, NEW id, DeleteAddress(id) PROVE AddressInv'
<1> USE DEF AddressInv
<1> DEFINE D == DOMAIN book
           heir == Successor(id)
<1>1. id \in D /\ book \in [D -> Entries] /\ saved' = saved /\ renaming' = renaming
  BY DEF DeleteAddress, AddressTypeOK
<1>2. DOMAIN book' = D \ {id}
  BY DEF DeleteAddress
<1>3. \A a \in D \ {id} : book'[a] = IF book[id].default /\ a = heir
                                     THEN [book[a] EXCEPT !.default = TRUE] ELSE book[a]
  BY DEF DeleteAddress
<1>4. /\ \A a \in D \ {id} : book[a].service = book[id].service => heir # id
      /\ heir # id => heir \in D \ {id} /\ book[heir].service = book[id].service
  <2>1. CASE Of(book[id].service) \ {id} = {}
    <3>1. heir = id
      BY <2>1 DEF Successor
    <3> QED
      BY <2>1, <3>1 DEF Of
  <2>2. CASE Of(book[id].service) \ {id} # {}
    BY <1>1, <2>2, SuccessorOf DEF Of
  <2> QED
    BY <2>1, <2>2
<1>5. ASSUME NEW a \in D \ {id}
      PROVE  /\ book'[a] \in Entries
             /\ book'[a].service = book[a].service /\ book'[a].spot = book[a].spot
             /\ book'[a].default <=> book[a].default \/ (book[id].default /\ a = heir)
  <2>1. book[a] \in Entries
    BY <1>1
  <2> HIDE DEF heir
  <2> QED
    BY <1>3, <2>1 DEF Entries
<1> HIDE DEF heir
<1>6. AddressTypeOK'
  <2>1. book' \in [D \ {id} -> Entries]
    BY <1>2, <1>5 DEF DeleteAddress
  <2> QED
    BY <1>1, <1>2, <2>1 DEF AddressTypeOK
<1>7. AtMostOne'
  <2> SUFFICES ASSUME NEW a \in D \ {id}, NEW b \in D \ {id}, a # b,
                      book[a].service = book[b].service
               PROVE  ~(book'[a].default /\ book'[b].default) /\ book[a].spot # book[b].spot
    BY <1>2, <1>5 DEF AtMostOne
  <2>1. ~(book[a].default /\ book[b].default) /\ book[a].spot # book[b].spot
    BY DEF AtMostOne
  <2>2. CASE book[id].default /\ (a = heir \/ b = heir)
    <3>1. CASE book[a].service = book[id].service
      BY <1>1, <1>5, <2>1, <2>2, <3>1 DEF AtMostOne
    <3>2. CASE book[a].service # book[id].service
      BY <1>4, <2>2, <3>2
    <3> QED
      BY <3>1, <3>2
  <2>3. CASE ~(book[id].default /\ (a = heir \/ b = heir))
    BY <1>5, <2>1, <2>3
  <2> QED
    BY <2>2, <2>3
<1>8. AtLeastOne'
  <2> SUFFICES ASSUME NEW a \in D \ {id}
               PROVE  \E b \in D \ {id} : book[b].service = book[a].service /\ book'[b].default
    BY <1>2, <1>5 DEF AtLeastOne
  <2>1. PICK b \in D : book[b].service = book[a].service /\ book[b].default
    BY DEF AtLeastOne
  <2>2. CASE b # id
    BY <1>5, <2>1, <2>2
  <2>3. CASE b = id
    BY <1>4, <1>5, <2>1, <2>3
  <2> QED
    BY <2>2, <2>3
<1> QED
  BY <1>6, <1>7, <1>8

LEMMA AddressInvariant == AddressSpec => []AddressInv
<1>1. AddressInit => AddressInv
  BY DEF AddressInit, AddressInv, AddressTypeOK, AtMostOne, AtLeastOne
<1>2. ASSUME AddressInv, [AddressNext]_addressVars PROVE AddressInv'
  <2>1. ASSUME NEW id \in 1 .. saved, StartRename(id) PROVE AddressInv'
    BY <1>2, <2>1 DEF StartRename, AddressInv, AddressTypeOK, AtMostOne, AtLeastOne
  <2>2. CASE SaveRenamed \/ CancelRename \/ RestartAddresses \/ UNCHANGED addressVars
    BY <1>2, <2>2 DEF SaveRenamed, CancelRename, RestartAddresses, addressVars, AddressInv,
                      AddressTypeOK, AtMostOne, AtLeastOne
  <2> QED
    BY <1>2, <2>1, <2>2, AddInv, SetInv, DeleteInv DEF AddressNext
<1> QED
  BY <1>1, <1>2, PTL DEF AddressSpec

\* Every variable of the address book has its type.
THEOREM AddressTypes == AddressSpec => []AddressTypeOK
<1>1. AddressInv => AddressTypeOK
  BY DEF AddressInv
<1> QED
  BY <1>1, AddressInvariant, PTL

\* However many addresses are saved, preferred and deleted in whatever order, a
\* service with addresses has one default, and no spot twice.
THEOREM OneDefault == AddressSpec => []OneDefaultPerService
<1>1. AddressInv => OneDefaultPerService
  BY DEF AddressInv, AtMostOne, AtLeastOne, OneDefaultPerService, Of
<1> QED
  BY <1>1, AddressInvariant, PTL

--------------------------------------------------------------------------------
\* DeliveryAdmin.

HIDE AddressAssumption
USE DeliveryAssumption

PointEntries == [point : Points, active : BOOLEAN]

CityEntries == [name : Cities \cup {Nothing}, named : 0 .. MaxPasses, priced : 0 .. MaxPasses]

Passes == [stage : {"idle", "city", "cost", "days"}, pass : 0 .. MaxPasses,
           name : Cities \cup {Nothing}, named : 0 .. MaxPasses, priced : 0 .. MaxPasses]

\* Every variable has its type.
DeliveryTypeOK ==
  /\ points \in Seq(PointEntries)
  /\ cities \in Seq(CityEntries)
  /\ editor \in [stage : {"idle", "value", "name"}, idx : Nat]
  /\ wizard \in Passes
  /\ offered \in [list : Seq(Points), straight : BOOLEAN]
  /\ taken \in [pressed : Points \cup {Nothing}, order : Points \cup {Nothing}, straight : BOOLEAN]

\* A list drawn while no point was hidden shows the settings' points in their
\* places, hidden since or not, until one is deleted.
StraightList ==
  offered.straight =>
    \A i \in DOMAIN offered.list \cap DOMAIN points : offered.list[i] = points[i].point

\* The answers so far are those of the pass under way.
AnswersOfThisPass ==
  /\ wizard.stage \in {"cost", "days"} => wizard.named = wizard.pass
  /\ wizard.stage = "days" => wizard.priced = wizard.pass

\* The inductive invariant.
DeliveryInv ==
  /\ DeliveryTypeOK
  /\ StraightList
  /\ PickupAsPressed
  /\ AnswersOfThisPass
  /\ CityTypedAtOnce

\* The points of the settings can be put in a list.
LEMMA PointsListed == \E row \in SetToSeqs(Points) : TRUE
<1> DEFINE D == 1 .. Cardinality(Points)
<1>1. ExistsBijection(D, Points)
  BY FS_CardinalityType
<1>2. PICK f \in Bijection(D, Points) : TRUE
  BY <1>1 DEF ExistsBijection
<1>3. f \in [D -> Points] /\ \A i, j \in D : i # j => f[i] # f[j]
  BY <1>2 DEF Bijection, Injection, IsInjective
<1>4. f \in SetToSeqs(Points)
  BY <1>3 DEF SetToSeqs
<1> QED
  BY <1>4

\* It holds of the settings as they are loaded.
LEMMA DeliveryInitInv == ASSUME DeliveryInit PROVE DeliveryInv
<1> DEFINE row == CHOOSE r \in SetToSeqs(Points) : TRUE
<1>1. row \in [1 .. Cardinality(Points) -> Points] /\ Cardinality(Points) \in Nat
  <2>1. row \in SetToSeqs(Points)
    BY PointsListed
  <2> HIDE DEF row
  <2> QED
    BY <2>1, FS_CardinalityType DEF SetToSeqs
<1>2. points = [i \in DOMAIN row |-> [point |-> row[i], active |-> TRUE]]
  BY DEF DeliveryInit
<1> HIDE DEF row
<1>3. points \in Seq(PointEntries)
  <2>1. points \in [1 .. Cardinality(Points) -> PointEntries]
    BY <1>1, <1>2 DEF PointEntries
  <2> QED
    BY <1>1, <2>1
<1>4. DeliveryTypeOK
  BY <1>3 DEF DeliveryInit, DeliveryTypeOK, Passes
<1> QED
  BY <1>4 DEF DeliveryInit, DeliveryInv, StraightList, PickupAsPressed, AnswersOfThisPass,
              CityTypedAtOnce

\* Hiding or showing a point leaves every entry in its place.
LEMMA ToggleInv == ASSUME DeliveryInv, NEW i, TogglePickupStatus(i) PROVE DeliveryInv'
<1> DEFINE hidden == ~points[i].active
<1>1. /\ DeliveryTypeOK /\ i \in DOMAIN points
      /\ points' = [points EXCEPT ![i] = [points[i] EXCEPT !.active = hidden]]
      /\ UNCHANGED <<cities, editor, wizard, offered, taken>>
  BY DEF DeliveryInv, TogglePickupStatus
<1>2. hidden \in BOOLEAN
  OBVIOUS
<1> HIDE DEF hidden
<1>3. /\ points' \in Seq(PointEntries) /\ DOMAIN points' = DOMAIN points
      /\ \A k \in DOMAIN points : points'[k].point = points[k].point
  <2> DEFINE entry == [points[i] EXCEPT !.active = hidden]
  <2>1. points \in Seq(PointEntries) /\ points[i] \in PointEntries
    BY <1>1 DEF DeliveryTypeOK
  <2>2. entry \in PointEntries /\ entry.point = points[i].point
    BY <1>2, <2>1 DEF PointEntries
  <2>3. points' = [points EXCEPT ![i] = entry]
    BY <1>1
  <2> HIDE DEF entry
  <2>4. points' \in [1 .. Len(points) -> PointEntries] /\ Len(points) \in Nat
    BY <1>1, <2>1, <2>2, <2>3
  <2>5. points' \in Seq(PointEntries)
    BY <2>4
  <2> QED
    BY <1>1, <2>1, <2>2, <2>3, <2>5
<1>4. DeliveryTypeOK'
  BY <1>1, <1>3 DEF DeliveryTypeOK
<1>5. StraightList'
  BY <1>1, <1>3 DEF DeliveryInv, StraightList
<1> QED
  BY <1>1, <1>4, <1>5 DEF DeliveryInv, PickupAsPressed, AnswersOfThisPass, CityTypedAtOnce

\* After a deletion no list that customers see is straight.
LEMMA DeletePointInv == ASSUME DeliveryInv, NEW i, DeletePickupPoint(i) PROVE DeliveryInv'
<1>1. DeliveryTypeOK /\ i \in DOMAIN points /\ points' = RemoveAt(points, i)
      /\ offered' = [offered EXCEPT !.straight = FALSE]
      /\ UNCHANGED <<cities, editor, wizard, taken>>
  BY DEF DeliveryInv, DeletePickupPoint
<1>2. points' \in Seq(PointEntries)
  <2>1. points \in Seq(PointEntries) /\ i \in 1 .. Len(points)
    BY <1>1 DEF DeliveryTypeOK
  <2>2. SubSeq(points, 1, i - 1) \in Seq(PointEntries)
    BY <2>1
  <2>3. SubSeq(points, i + 1, Len(points)) \in Seq(PointEntries)
    BY <2>1
  <2> QED
    BY <1>1, <2>2, <2>3 DEF RemoveAt
<1>3. DeliveryTypeOK' /\ ~offered'.straight
  BY <1>1, <1>2 DEF DeliveryTypeOK
<1> QED
  BY <1>1, <1>3 DEF DeliveryInv, StraightList, PickupAsPressed, AnswersOfThisPass,
                    CityTypedAtOnce

\* The list offered to a customer is the settings' points in their order.
LEMMA OfferInv == ASSUME DeliveryInv, HandleSelfPickup PROVE DeliveryInv'
<1> DEFINE active == Dropping(points, {p \in ToSet(points) : ~p.active})
           all == active = points
           list == [i \in DOMAIN active |-> active[i].point]
<1>1. DeliveryTypeOK /\ offered' = [list |-> list, straight |-> all]
      /\ UNCHANGED <<points, cities, editor, wizard, taken>>
  BY DEF DeliveryInv, HandleSelfPickup
<1>2. active \in Seq(PointEntries)
  BY <1>1, DroppingElements DEF DeliveryTypeOK
<1> HIDE DEF active
<1>3. list \in Seq(Points)
  <2>1. \A i \in DOMAIN active : active[i] \in PointEntries
    BY <1>2
  <2>2. list \in [1 .. Len(active) -> Points] /\ Len(active) \in Nat
    BY <1>2, <2>1 DEF PointEntries
  <2> QED
    BY <2>2
<1>4. all => \A i \in DOMAIN list : list[i] = points[i].point
  OBVIOUS
<1>5. all \in BOOLEAN
  OBVIOUS
<1> HIDE DEF all, list
<1>6. DeliveryTypeOK'
  BY <1>1, <1>3, <1>5 DEF DeliveryTypeOK
<1>7. StraightList'
  BY <1>1, <1>4 DEF StraightList
<1> QED
  BY <1>1, <1>6, <1>7 DEF DeliveryInv, PickupAsPressed, AnswersOfThisPass, CityTypedAtOnce

\* A button of the list takes the point that stands there.
LEMMA ChoiceInv == ASSUME DeliveryInv, NEW i, HandlePickupPointChoice(i) PROVE DeliveryInv'
<1>1. /\ DeliveryTypeOK /\ i \in DOMAIN offered.list /\ i \in DOMAIN points
      /\ taken' = [pressed |-> offered.list[i], order |-> points[i].point,
                   straight |-> offered.straight]
      /\ UNCHANGED <<points, cities, editor, wizard, offered>>
  BY DEF DeliveryInv, HandlePickupPointChoice
<1>2. offered.list[i] \in Points /\ points[i].point \in Points /\ offered.straight \in BOOLEAN
  <2>1. points[i] \in PointEntries
    BY <1>1 DEF DeliveryTypeOK
  <2>2. offered.list \in Seq(Points) /\ offered.straight \in BOOLEAN
    BY <1>1 DEF DeliveryTypeOK
  <2> QED
    BY <1>1, <2>1, <2>2 DEF PointEntries
<1>3. DeliveryTypeOK'
  BY <1>1, <1>2 DEF DeliveryTypeOK
<1>4. PickupAsPressed'
  BY <1>1 DEF DeliveryInv, StraightList, PickupAsPressed
<1> QED
  BY <1>1, <1>3, <1>4 DEF DeliveryInv, StraightList, AnswersOfThisPass, CityTypedAtOnce

\* The last answer of the wizard puts the city in the list.
LEMMA CityInv == ASSUME DeliveryInv, SetCityDays PROVE DeliveryInv'
<1> DEFINE entry == [name |-> wizard.name, named |-> wizard.named, priced |-> wizard.priced]
<1>1. DeliveryTypeOK /\ wizard.stage = "days" /\ cities' = Append(cities, entry)
      /\ wizard' = [wizard EXCEPT !.name = Nothing] /\ UNCHANGED <<points, editor, offered, taken>>
  BY DEF DeliveryInv, SetCityDays, UnchangedPoints
<1>2. entry \in CityEntries /\ entry.named = entry.priced
  BY <1>1 DEF DeliveryTypeOK, Passes, CityEntries, DeliveryInv, AnswersOfThisPass
<1> HIDE DEF entry
<1>3. /\ cities' \in Seq(CityEntries)
      /\ \A i \in DOMAIN cities' :
           (i \in DOMAIN cities /\ cities'[i] = cities[i]) \/ cities'[i] = entry
  BY <1>1, <1>2 DEF DeliveryTypeOK
<1>4. DeliveryTypeOK'
  BY <1>1, <1>3 DEF DeliveryTypeOK, Passes
<1>5. CityTypedAtOnce'
  BY <1>2, <1>3 DEF DeliveryInv, CityTypedAtOnce
<1>6. AnswersOfThisPass'
  BY <1>1 DEF DeliveryInv, AnswersOfThisPass, DeliveryTypeOK, Passes
<1> QED
  BY <1>1, <1>4, <1>5, <1>6 DEF DeliveryInv, StraightList, PickupAsPressed

\* What is left of the list of cities was in it.
LEMMA DeleteCityInv == ASSUME DeliveryInv, NEW name, DeleteCity(name) PROVE DeliveryInv'
<1> DEFINE gone == {c \in ToSet(cities) : c.name = name}
<1>1. DeliveryTypeOK /\ cities' = Dropping(cities, gone)
      /\ UNCHANGED <<wizard, points, editor, offered, taken>>
  BY DEF DeliveryInv, DeleteCity, UnchangedPoints
<1>2. cities' \in Seq(CityEntries) /\ ToSet(cities') \subseteq ToSet(cities)
  BY <1>1, DroppingElements DEF DeliveryTypeOK
<1>3. \A i \in DOMAIN cities' : \E k \in DOMAIN cities : cities'[i] = cities[k]
  BY <1>2 DEF ToSet
<1>4. CityTypedAtOnce'
  BY <1>3 DEF DeliveryInv, CityTypedAtOnce
<1> QED
  BY <1>1, <1>2, <1>4 DEF DeliveryInv, DeliveryTypeOK, StraightList, PickupAsPressed,
                          AnswersOfThisPass

\* It holds of every reachable state: one step per handler.
LEMMA DeliveryInvariant == DeliverySpec => []DeliveryInv
<1>1. ASSUME DeliveryInv, [DeliveryNext]_deliveryVars PROVE DeliveryInv'
  <2> USE DEF DeliveryInv, DeliveryTypeOK, StraightList, PickupAsPressed, AnswersOfThisPass,
              CityTypedAtOnce
  <2>1. ASSUME NEW i \in 1 .. Len(points), StartPickupFieldEdit(i) PROVE DeliveryInv'
    BY <1>1, <2>1 DEF StartPickupFieldEdit
  <2>2. CASE SavePickupFieldVal \/ StartAddPickup \/ ShowPickupMgmt \/ AdminExitToMainMenu
    BY <1>1, <2>2 DEF SavePickupFieldVal, StartAddPickup, ShowPickupMgmt, AdminExitToMainMenu,
                      deliveryVars
  <2>3. CASE StartAddCity
    <3>1. wizard' \in Passes /\ wizard'.stage = "city"
      <4> DEFINE n == wizard.pass + 1
      <4>1. wizard \in Passes /\ n \in 0 .. MaxPasses
        BY <1>1, <2>3 DEF StartAddCity, Passes
      <4>2. wizard' = [wizard EXCEPT !.pass = n, !.stage = "city"]
        BY <2>3 DEF StartAddCity
      <4> HIDE DEF n
      <4> QED
        BY <4>1, <4>2 DEF Passes
    <3> QED
      BY <1>1, <2>3, <3>1 DEF StartAddCity, UnchangedPoints
  <2>4. ASSUME NEW name \in Cities, SetCityName(name) PROVE DeliveryInv'
    BY <1>1, <2>4 DEF SetCityName, UnchangedPoints, Passes
  <2>5. CASE SetCityCost
    BY <1>1, <2>5 DEF SetCityCost, UnchangedPoints, Passes
  <2>6. CASE RestartDelivery
    BY <1>1, <2>6 DEF RestartDelivery, UnchangedPoints, Passes
  <2>7. CASE UNCHANGED deliveryVars
    BY <1>1, <2>7 DEF deliveryVars
  <2> QED
    BY <1>1, <2>1, <2>2, <2>3, <2>4, <2>5, <2>6, <2>7, ToggleInv, DeletePointInv, OfferInv,
       ChoiceInv, CityInv, DeleteCityInv DEF DeliveryNext
<1> QED
  BY <1>1, DeliveryInitInv, PTL DEF DeliverySpec

\* Types: the two lists of the settings, the conversations of the staff and the
\* customer's choice.
THEOREM DeliveryTypes == DeliverySpec => []DeliveryTypeOK
<1>1. DeliveryInv => DeliveryTypeOK
  BY DEF DeliveryInv
<1> QED
  BY <1>1, DeliveryInvariant, PTL

\* The pickup point of an order is the one whose button was pressed, if no
\* point was hidden when its list was drawn and none was deleted since
\* (_handle_self_pickup, handle_pickup_point_choice).
THEOREM TakenAsPressed == DeliverySpec => []PickupAsPressed
<1>1. DeliveryInv => PickupAsPressed
  BY DEF DeliveryInv
<1> QED
  BY <1>1, DeliveryInvariant, PTL

\* A city of the list has its name and its cost from the same pass of the wizard
\* (set_city_name, set_city_cost and set_city_days).
THEOREM TypedAtOnce == DeliverySpec => []CityTypedAtOnce
<1>1. DeliveryInv => CityTypedAtOnce
  BY DEF DeliveryInv
<1> QED
  BY <1>1, DeliveryInvariant, PTL

--------------------------------------------------------------------------------
\* InfoPages.

HIDE DeliveryAssumption
USE PagesAssumption

\* The inductive invariant.
PagesInv ==
  /\ PagesTypeOK
  /\ AnswerGoesWhereAsked

\* What an editor remembers.
Memories == [action : Actions, page : Ids \cup {NoPage}, parent : Ids \cup {Root}]

--------------------------------------------------------------------------------
\* The table.

\* The siblings of a page are finitely many, and have the same siblings.
LEMMA SiblingsFinite ==
  ASSUME PagesTypeOK, NEW p \in DOMAIN pages
  PROVE  /\ IsFiniteSet(Siblings(p)) /\ p \in Siblings(p)
         /\ Cardinality(Siblings(p)) \in 1 .. created /\ created \in 0 .. MaxPages
         /\ \A c \in Siblings(p) : c \in DOMAIN pages /\ Siblings(c) = Siblings(p)
<1>1. created \in 0 .. MaxPages /\ DOMAIN pages \subseteq 1 .. created
  BY DEF PagesTypeOK, Numbers
<1>2. IsFiniteSet(1 .. created) /\ Cardinality(1 .. created) = created
  BY <1>1, FS_Interval
<1>3. Siblings(p) \in SUBSET (1 .. created) /\ p \in Siblings(p)
  BY <1>1 DEF Siblings
<1>4. IsFiniteSet(Siblings(p)) /\ Cardinality(Siblings(p)) <= created
  BY <1>2, <1>3, FS_Subset
<1>5. Cardinality(Siblings(p)) \in Nat /\ Cardinality(Siblings(p)) # 0
  BY <1>3, <1>4, FS_CardinalityType, FS_EmptySet
<1>6. \A c \in Siblings(p) : c \in DOMAIN pages /\ Siblings(c) = Siblings(p)
  BY DEF Siblings
<1> QED
  BY <1>1, <1>3, <1>4, <1>5, <1>6

\* Places are counted from 0.
LEMMA PlaceBounds ==
  ASSUME PagesTypeOK, NEW p \in DOMAIN pages
  PROVE  Place(p) \in 0 .. Cardinality(Siblings(p)) - 1
<1> DEFINE front == {s \in Siblings(p) : Before(s, p)}
           n == Cardinality(Siblings(p))
<1>1. IsFiniteSet(Siblings(p)) /\ p \in Siblings(p) /\ n \in Nat
  BY SiblingsFinite, FS_CardinalityType
<1>2. p \notin front /\ front \in SUBSET (Siblings(p) \ {p})
  <2>1. pages[p].order \in 0 .. MaxPages /\ p \in Nat
    BY DEF PagesTypeOK, Numbers
  <2>2. ~Before(p, p)
    BY <2>1 DEF Before
  <2> QED
    BY <2>2
<1>3. IsFiniteSet(Siblings(p) \ {p}) /\ Cardinality(Siblings(p) \ {p}) = n - 1
  BY <1>1, FS_RemoveElement
<1>4. IsFiniteSet(front) /\ Cardinality(front) <= n - 1
  BY <1>2, <1>3, FS_Subset
<1>5. Cardinality(front) \in Nat
  BY <1>4, FS_CardinalityType
<1> QED
  BY <1>1, <1>4, <1>5 DEF Place

\* The new places are numbers.
LEMMA MovedBounds ==
  ASSUME PagesTypeOK, NEW p \in DOMAIN pages, NEW direction, NEW c \in Siblings(p)
  PROVE  Moved(p, direction)[c] \in Numbers
<1> DEFINE there == IF direction = "up" THEN Place(p) - 1 ELSE Place(p) + 1
           moves == \E s \in Siblings(p) : Place(s) = there
<1>1. Moved(p, direction)[c] = IF moves /\ c = p THEN there
                               ELSE IF moves /\ Place(c) = there THEN Place(p) ELSE Place(c)
  BY DEF Moved
<1>2. ASSUME NEW s \in Siblings(p) PROVE Place(s) \in Numbers
  BY SiblingsFinite, PlaceBounds DEF Numbers
<1>3. Place(p) \in Numbers
  BY <1>2, SiblingsFinite
<1> HIDE DEF there
<1> QED
  BY <1>1, <1>2, <1>3

\* The arrows keep the table's types.
LEMMA MoveTypes ==
  ASSUME PagesTypeOK, NEW p, NEW direction, MoveItem(p, direction)
  PROVE  PagesTypeOK'
<1> DEFINE place == Moved(p, direction)
<1>1. /\ p \in DOMAIN pages /\ UNCHANGED <<created, awaiting, memory, prompted>>
      /\ pages' = [c \in DOMAIN pages |->
                     IF c \in Siblings(p) THEN [pages[c] EXCEPT !.order = place[c]] ELSE pages[c]]
  BY DEF MoveItem, Exists, Renumbered
<1>2. \A c \in Siblings(p) : place[c] \in Numbers
  BY <1>1, MovedBounds
<1> HIDE DEF place
<1>3. ASSUME NEW c \in DOMAIN pages
      PROVE  pages'[c].parent = pages[c].parent /\ pages'[c].order \in Numbers
  BY <1>1, <1>2 DEF PagesTypeOK
<1> QED
  BY <1>1, <1>3 DEF PagesTypeOK

\* So does a new page.
LEMMA NewPageTypes ==
  ASSUME PagesTypeOK, created < MaxPages, NEW parent \in DOMAIN pages \cup {Root},
         created' = created + 1, pages' = WithNewPage(parent)
  PROVE  /\ created' \in Numbers /\ DOMAIN pages' \subseteq 1 .. created'
         /\ pages' \in [DOMAIN pages' -> [parent : DOMAIN pages' \cup {Root}, order : Numbers]]
<1> DEFINE n == created + 1
           D == DOMAIN pages
<1>1. /\ n \in Numbers /\ 0 \in Numbers /\ D \subseteq 1 .. n
      /\ pages \in [D -> [parent : D \cup {Root}, order : Numbers]]
  BY DEF PagesTypeOK, Numbers
<1>2. pages' = [p \in D \cup {n} |->
                  IF p = n THEN [parent |-> parent, order |-> 0] ELSE pages[p]]
  BY DEF WithNewPage
<1>3. DOMAIN pages' = D \cup {n}
  BY <1>2
<1>4. \A p \in D \cup {n} :
        pages'[p] \in [parent : D \cup {n} \cup {Root}, order : Numbers]
  BY <1>1, <1>2
<1>5. pages' \in [D \cup {n} -> [parent : D \cup {n} \cup {Root}, order : Numbers]]
  BY <1>2, <1>4
<1>6. n \in 1 .. n
  BY DEF PagesTypeOK, Numbers
<1> QED
  BY <1>1, <1>3, <1>5, <1>6

\* A page that stays when p is deleted keeps its parent: a closed set that
\* leaves the page out leaves out its parent.
LEMMA DeleteTypes ==
  ASSUME PagesTypeOK, NEW p, pages' = Without(p)
  PROVE  /\ DOMAIN pages' \subseteq DOMAIN pages
         /\ pages' \in [DOMAIN pages' -> [parent : DOMAIN pages' \cup {Root}, order : Numbers]]
<1> DEFINE D == DOMAIN pages
           left == D \ Subtree(p)
<1>1. pages \in [D -> [parent : D \cup {Root}, order : Numbers]]
  BY DEF PagesTypeOK
<1>2. pages' = [c \in left |-> pages[c]]
  BY DEF Without
<1>3. ASSUME NEW c \in left, pages[c].parent # Root PROVE pages[c].parent \in left
  <2>1. pages[c].parent \in D
    BY <1>1, <1>3
  <2>2. PICK set \in SUBSET (D \cup {p}) : p \in set /\ WithChildren(set) /\ c \notin set
    BY DEF Subtree
  <2>3. pages[c].parent \notin set
    BY <2>2 DEF WithChildren
  <2> QED
    BY <2>1, <2>2, <2>3 DEF Subtree
<1>4. \A c \in left : pages[c] \in [parent : left \cup {Root}, order : Numbers]
  BY <1>1, <1>3
<1> HIDE DEF left
<1>5. pages' \in [left -> [parent : left \cup {Root}, order : Numbers]]
  BY <1>2, <1>4
<1>6. left \subseteq D
  BY DEF left
<1> QED
  BY <1>2, <1>5, <1>6

\* And a new number of a page.
LEMMA OrderTypes ==
  ASSUME PagesTypeOK, NEW p, NEW n \in Numbers, pages' = WithOrder(p, n)
  PROVE  /\ DOMAIN pages' = DOMAIN pages
         /\ pages' \in [DOMAIN pages -> [parent : DOMAIN pages \cup {Root}, order : Numbers]]
<1>1. CASE Exists(p)
  <2> DEFINE D == DOMAIN pages
             entry == [pages[p] EXCEPT !.order = n]
  <2>1. /\ pages \in [D -> [parent : D \cup {Root}, order : Numbers]] /\ p \in D
        /\ pages' = [pages EXCEPT ![p] = entry]
    BY <1>1 DEF PagesTypeOK, Exists, WithOrder
  <2>2. entry \in [parent : D \cup {Root}, order : Numbers]
    BY <2>1
  <2> HIDE DEF entry
  <2> QED
    BY <2>1, <2>2
<1>2. CASE ~Exists(p)
  BY <1>2 DEF PagesTypeOK, WithOrder
<1> QED
  BY <1>1, <1>2

--------------------------------------------------------------------------------
\* The conversations.

\* The part of the invariant that is about them.
TalkOK ==
  /\ awaiting \in [Editors -> Questions]
  /\ memory \in [Editors -> Memories]
  /\ prompted \in [Editors -> Ids \cup {NoPage}]
  /\ AnswerGoesWhereAsked

\* A question that fits what is remembered with it.
LEMMA AwaitTalk ==
  ASSUME TalkOK, NEW e \in Editors, NEW question \in Questions, NEW mem \in Memories,
         NEW page \in Ids \cup {NoPage}, Await(e, question, mem, page),
         question = "title" => mem.action = "create",
         question = "rename" => mem.action = "edit_title" /\ mem.page = page,
         question = "order" => mem.action = "edit_order" /\ mem.page = page,
         question = "content" =>
           mem.action = "edit_content" /\ mem.page = page /\ page # NoPage
  PROVE  TalkOK'
<1>1. /\ awaiting' = [awaiting EXCEPT ![e] = question]
      /\ memory' = [memory EXCEPT ![e] = mem]
      /\ prompted' = [prompted EXCEPT ![e] = page]
  BY DEF Await
<1>2. /\ awaiting' \in [Editors -> Questions] /\ memory' \in [Editors -> Memories]
      /\ prompted' \in [Editors -> Ids \cup {NoPage}]
  BY <1>1 DEF TalkOK
<1>3. awaiting'[e] = question /\ memory'[e] = mem /\ prompted'[e] = page
  BY <1>1 DEF TalkOK
<1>4. \A f \in Editors \ {e} :
        awaiting'[f] = awaiting[f] /\ memory'[f] = memory[f] /\ prompted'[f] = prompted[f]
  BY <1>1 DEF TalkOK
<1>5. AnswerGoesWhereAsked'
  BY <1>3, <1>4 DEF TalkOK, AnswerGoesWhereAsked, FitsQuestion
<1> QED
  BY <1>2, <1>5 DEF TalkOK

\* The invariant is the table's types and TalkOK.
LEMMA InvParts ==
  ASSUME TalkOK', created' \in Numbers, DOMAIN pages' \subseteq 1 .. created',
         pages' \in [DOMAIN pages' -> [parent : DOMAIN pages' \cup {Root}, order : Numbers]]
  PROVE  PagesInv'
  BY DEF TalkOK, PagesInv, PagesTypeOK, Memories

\* What an answer leaves in memory.
LEMMA ForgettingType == ASSUME NEW mem \in Memories PROVE Forgetting(mem) \in Memories
  BY DEF Forgetting, Memories, Actions

\* Steps that end a conversation or open one, and leave the table alone.
LEMMA TalkSteps ==
  ASSUME PagesInv, NEW e \in Editors, NEW p, NEW parent,
         \/ parent \in 0 .. created /\ StartAddPage(e, parent)
         \/ p \in 1 .. created /\ (StartEditPage(e, p) \/ StartQuickRename(e, p))
         \/ AskEditTitle(e) \/ AskEditOrder(e) \/ AskEditContent(e)
         \/ HandleTitle(e) \/ HandleContent(e) \/ HandleInactive(e) \/ HandleRename(e)
         \/ CancelCms(e) \/ ForgetUserData(e)
  PROVE  TalkOK' /\ UNCHANGED <<pages, created>>
<1>1. TalkOK /\ created \in Numbers
  BY DEF PagesInv, PagesTypeOK, TalkOK, Memories
<1>2. memory[e] \in Memories /\ awaiting[e] \in Questions
  BY <1>1 DEF TalkOK
<1>3. /\ p \in 1 .. created => p \in Ids
      /\ parent \in 0 .. created => parent \in Ids \cup {Root}
  BY <1>1 DEF Numbers, Ids, Root
<1>4. CASE parent \in 0 .. created /\ StartAddPage(e, parent)
  <2> DEFINE mem == [memory[e] EXCEPT !.action = "create", !.parent = parent]
  <2>1. mem \in Memories /\ mem.action = "create"
    BY <1>2, <1>3, <1>4 DEF Memories, Actions
  <2>2. Await(e, "title", mem, NoPage) /\ UNCHANGED <<pages, created>>
    BY <1>4 DEF StartAddPage
  <2> HIDE DEF mem
  <2> QED
    BY <1>1, <2>1, <2>2, AwaitTalk DEF Questions
<1>5. CASE p \in 1 .. created /\ StartQuickRename(e, p)
  <2> DEFINE mem == [memory[e] EXCEPT !.action = "edit_title", !.page = p]
  <2>1. mem \in Memories /\ mem.action = "edit_title" /\ mem.page = p
    BY <1>2, <1>3, <1>5 DEF Memories, Actions
  <2>2. Await(e, "rename", mem, p) /\ UNCHANGED <<pages, created>>
    BY <1>5 DEF StartQuickRename
  <2> HIDE DEF mem
  <2> QED
    BY <1>1, <1>3, <1>5, <2>1, <2>2, AwaitTalk DEF Questions
<1>6. CASE AskEditTitle(e)
  <2> DEFINE mem == [memory[e] EXCEPT !.action = "edit_title"]
  <2>1. mem \in Memories /\ mem.action = "edit_title" /\ mem.page = memory[e].page
    BY <1>2 DEF Memories, Actions
  <2>2. Await(e, "rename", mem, memory[e].page) /\ UNCHANGED <<pages, created>>
    BY <1>6 DEF AskEditTitle
  <2>3. memory[e].page \in Ids \cup {NoPage}
    BY <1>2 DEF Memories
  <2> HIDE DEF mem
  <2> QED
    BY <1>1, <2>1, <2>2, <2>3, AwaitTalk DEF Questions
<1>7. CASE AskEditOrder(e)
  <2> DEFINE mem == [memory[e] EXCEPT !.action = "edit_order"]
  <2>1. mem \in Memories /\ mem.action = "edit_order" /\ mem.page = memory[e].page
    BY <1>2 DEF Memories, Actions
  <2>2. Await(e, "order", mem, memory[e].page) /\ UNCHANGED <<pages, created>>
    BY <1>7 DEF AskEditOrder
  <2>3. memory[e].page \in Ids \cup {NoPage}
    BY <1>2 DEF Memories
  <2> HIDE DEF mem
  <2> QED
    BY <1>1, <2>1, <2>2, <2>3, AwaitTalk DEF Questions
<1>8. CASE AskEditContent(e)
  <2> DEFINE mem == [memory[e] EXCEPT !.action = "edit_content"]
  <2>1. mem \in Memories /\ mem.action = "edit_content" /\ mem.page = memory[e].page
    BY <1>2 DEF Memories, Actions
  <2>2. /\ IF mem.page = NoPage THEN Conclude(e, mem) ELSE Await(e, "content", mem, mem.page)
        /\ UNCHANGED <<pages, created>>
    BY <1>8 DEF AskEditContent
  <2>3. memory[e].page \in Ids \cup {NoPage}
    BY <1>2 DEF Memories
  <2> HIDE DEF mem
  <2> QED
    BY <1>1, <2>1, <2>2, <2>3, AwaitTalk DEF Questions, Conclude
<1>9. CASE HandleContent(e) \/ HandleRename(e)
  <2>1. Conclude(e, Forgetting(memory[e])) /\ UNCHANGED <<pages, created>>
    BY <1>9 DEF HandleContent, HandleRename
  <2> QED
    BY <1>1, <1>2, <2>1, ForgettingType, AwaitTalk DEF Questions, Conclude
<1>10. CASE CancelCms(e)
  <2>1. Conclude(e, NoMemory) /\ UNCHANGED <<pages, created>> /\ NoMemory \in Memories
    BY <1>10 DEF CancelCms, NoMemory, Memories, Actions
  <2> QED
    BY <1>1, <2>1, AwaitTalk DEF Questions, Conclude
<1>11. CASE p \in 1 .. created /\ StartEditPage(e, p)
  <2> DEFINE mem == [memory[e] EXCEPT !.page = p]
  <2>1. mem \in Memories
    BY <1>2, <1>3, <1>11 DEF Memories
  <2>2. memory' = [memory EXCEPT ![e] = mem] /\ awaiting[e] = "none"
        /\ UNCHANGED <<pages, created, awaiting, prompted>>
    BY <1>11 DEF StartEditPage, Idle
  <2> HIDE DEF mem
  <2>3. memory' \in [Editors -> Memories] /\ \A f \in Editors \ {e} : memory'[f] = memory[f]
    BY <1>1, <2>1, <2>2 DEF TalkOK
  <2> QED
    BY <1>1, <2>2, <2>3 DEF TalkOK, AnswerGoesWhereAsked, FitsQuestion, NoMemory
<1>12. CASE HandleTitle(e)
  <2>1. /\ awaiting[e] = "title" /\ awaiting' = [awaiting EXCEPT ![e] = "content"]
        /\ UNCHANGED <<pages, created, memory, prompted>>
    BY <1>12 DEF HandleTitle
  <2> QED
    BY <1>1, <2>1 DEF TalkOK, Questions, AnswerGoesWhereAsked, FitsQuestion, NoMemory
<1>13. CASE HandleInactive(e)
  <2>1. Conclude(e, memory[e]) /\ UNCHANGED <<pages, created>>
    BY <1>13 DEF HandleInactive
  <2> QED
    BY <1>1, <1>2, <2>1, AwaitTalk DEF Questions, Conclude
<1>14. CASE ForgetUserData(e)
  <2>1. memory' = [memory EXCEPT ![e] = NoMemory]
        /\ UNCHANGED <<pages, created, awaiting, prompted>>
    BY <1>14 DEF ForgetUserData
  <2>2. NoMemory \in Memories
    BY DEF NoMemory, Memories, Actions
  <2>3. /\ memory' \in [Editors -> Memories] /\ memory'[e] = NoMemory
        /\ \A f \in Editors \ {e} : memory'[f] = memory[f]
    BY <1>1, <2>1, <2>2 DEF TalkOK
  <2> QED
    BY <1>1, <2>1, <2>3 DEF TalkOK, AnswerGoesWhereAsked, FitsQuestion
<1> QED
  BY <1>4, <1>5, <1>6, <1>7, <1>8, <1>9, <1>10, <1>11, <1>12, <1>13, <1>14

\* It holds of every reachable state: one step per handler.
LEMMA PagesInvariant == PagesSpec => []PagesInv
<1>1. PagesInit => PagesInv
  <2> SUFFICES ASSUME PagesInit PROVE PagesInv
    OBVIOUS
  <2>1. PagesTypeOK
    BY DEF PagesInit, PagesTypeOK, Numbers, Questions, NoMemory, Actions, NoPage, Root
  <2> QED
    BY <2>1 DEF PagesInit, PagesInv, AnswerGoesWhereAsked, FitsQuestion
<1>2. ASSUME PagesInv, [PagesNext]_pagesVars PROVE PagesInv'
  <2>1. /\ PagesTypeOK /\ TalkOK /\ created \in Numbers /\ DOMAIN pages \subseteq 1 .. created
        /\ pages \in [DOMAIN pages -> [parent : DOMAIN pages \cup {Root}, order : Numbers]]
    BY <1>2 DEF PagesInv, PagesTypeOK, TalkOK, Memories
  <2>2. ASSUME NEW p, NEW direction, MoveItem(p, direction) PROVE PagesInv'
    <3>1. PagesTypeOK'
      BY <2>1, <2>2, MoveTypes
    <3> QED
      BY <1>2, <2>2, <3>1 DEF MoveItem, PagesInv, AnswerGoesWhereAsked, FitsQuestion
  <2>3. ASSUME NEW e \in Editors, NEW p \in 1 .. created, DeletePage(e, p) PROVE PagesInv'
    <3>1. pages' = Without(p) /\ UNCHANGED <<created, awaiting, memory, prompted>>
      BY <2>3 DEF DeletePage
    <3>2. TalkOK'
      BY <2>1, <3>1 DEF TalkOK, AnswerGoesWhereAsked, FitsQuestion
    <3> QED
      BY <2>1, <3>1, <3>2, DeleteTypes, InvParts
  <2>4. ASSUME NEW e \in Editors, HandleNewContent(e) PROVE PagesInv'
    <3> DEFINE mem == [memory[e] EXCEPT !.action = "none", !.parent = Root]
    <3>1. memory[e].parent \in DOMAIN pages \cup {Root} /\ mem \in Memories
      BY <2>1, <2>4 DEF HandleNewContent, Exists, TalkOK, Memories, Actions
    <3>2. /\ created < MaxPages /\ created' = created + 1 /\ pages' = WithNewPage(memory[e].parent)
          /\ Await(e, "none", mem, NoPage)
      BY <2>4 DEF HandleNewContent, Conclude
    <3> HIDE DEF mem
    <3>3. TalkOK'
      BY <2>1, <3>1, <3>2, AwaitTalk DEF Questions
    <3> QED
      BY <2>1, <3>1, <3>2, <3>3, NewPageTypes, InvParts
  <2>5. ASSUME NEW e \in Editors, NEW n \in Numbers, HandleOrder(e, n) PROVE PagesInv'
    <3>1. /\ pages' = WithOrder(memory[e].page, n) /\ UNCHANGED created
          /\ Await(e, "none", Forgetting(memory[e]), NoPage)
      BY <2>5 DEF HandleOrder, Conclude
    <3>2. Forgetting(memory[e]) \in Memories
      BY <2>1, ForgettingType DEF TalkOK
    <3>3. TalkOK'
      BY <2>1, <3>1, <3>2, AwaitTalk DEF Questions
    <3> QED
      BY <2>1, <3>1, <3>3, OrderTypes, InvParts
  <2>6. CASE RestartEditor
    <3>1. TalkOK'
      BY <2>1, <2>6 DEF RestartEditor, TalkOK, Questions, AnswerGoesWhereAsked, FitsQuestion
    <3> QED
      BY <2>1, <2>6, <3>1, InvParts DEF RestartEditor
  <2>7. CASE UNCHANGED pagesVars
    BY <1>2, <2>7 DEF pagesVars, PagesInv, PagesTypeOK, AnswerGoesWhereAsked, FitsQuestion
  <2>8. ASSUME TalkOK' /\ UNCHANGED <<pages, created>> PROVE PagesInv'
    BY <2>1, <2>8, InvParts
  <2>9. \A e \in Editors :
          \/ \E parent \in 0 .. created : StartAddPage(e, parent)
          \/ \E p \in 1 .. created : StartEditPage(e, p) \/ StartQuickRename(e, p)
          \/ AskEditTitle(e) \/ AskEditOrder(e) \/ AskEditContent(e)
          \/ HandleTitle(e) \/ HandleContent(e) \/ HandleInactive(e) \/ HandleRename(e)
          \/ CancelCms(e) \/ ForgetUserData(e)
          => PagesInv'
    BY <1>2, <2>8, TalkSteps
  <2> QED
    BY <1>2, <2>2, <2>3, <2>4, <2>5, <2>6, <2>7, <2>9 DEF PagesNext
<1> QED
  BY <1>1, <1>2, PTL DEF PagesSpec

\* Types, and that every page lies below a page that exists or below the root: a
\* deletion takes all that is below the page with it (the foreign key's cascade).
THEOREM PagesTypes == PagesSpec => []PagesTypeOK
<1>1. PagesInv => PagesTypeOK
  BY DEF PagesInv
<1> QED
  BY <1>1, PagesInvariant, PTL

\* What an editor answers goes to the page that he was asked about or, once a
\* log-out has forgotten the question, nowhere, however the handlers of his
\* conversation follow each other.
THEOREM AnswersReachPage == PagesSpec => []AnswerGoesWhereAsked
<1>1. PagesInv => AnswerGoesWhereAsked
  BY DEF PagesInv
<1> QED
  BY <1>1, PagesInvariant, PTL

--------------------------------------------------------------------------------
\* The arrows.

\* Numbers that count the members of a set from 0 leave k of them below k.
LEMMA CountedBelow ==
  ASSUME NEW S, NEW n \in Nat, NEW f \in [S -> 0 .. n - 1], NEW k \in 0 .. n,
         \A a, b \in S : f[a] = f[b] => a = b,
         \A i \in 0 .. n - 1 : \E a \in S : f[a] = i
  PROVE  Cardinality({a \in S : f[a] < k}) = k
<1> DEFINE T == {a \in S : f[a] < k}
           g == [a \in T |-> f[a]]
           h == [i \in 0 .. k - 1 |-> CHOOSE a \in T : f[a] = i]
<1>1. ASSUME NEW i \in 0 .. k - 1 PROVE h[i] \in T /\ f[h[i]] = i
  <2>1. PICK a \in S : f[a] = i
    OBVIOUS
  <2>2. a \in T /\ f[a] = i
    BY <2>1
  <2>3. h[i] = CHOOSE b \in T : f[b] = i
    OBVIOUS
  <2> HIDE DEF T, h
  <2> QED
    BY <2>2, <2>3
<1>2. h \in [0 .. k - 1 -> T]
  BY <1>1
<1>3. \A a \in T : f[a] \in 0 .. k - 1 /\ h[f[a]] = a
  BY <1>1
<1>4. \A i, j \in 0 .. k - 1 : h[i] = h[j] => i = j
  BY <1>1
<1>5. h \in Bijection(0 .. k - 1, T)
  <2> HIDE DEF h, T
  <2>1. h \in Injection(0 .. k - 1, T)
    BY <1>2, <1>4 DEF Injection, IsInjective
  <2>2. h \in Surjection(0 .. k - 1, T)
    BY <1>2, <1>3 DEF Surjection
  <2> QED
    BY <2>1, <2>2 DEF Bijection
<1>6. IsFiniteSet(0 .. k - 1) /\ Cardinality(0 .. k - 1) = k
  <2>1. 0 \in Int /\ k - 1 \in Int
    OBVIOUS
  <2> QED
    BY <2>1, FS_Interval
<1> HIDE DEF T, h
<1>7. Cardinality(T) = k
  BY <1>5, <1>6, FS_Bijection DEF ExistsBijection
<1> QED
  BY <1>7 DEF T

\* The places of siblings with different numbers are in the order of the
\* numbers.
LEMMA PlacesInOrder ==
  ASSUME PagesTypeOK, NEW p \in DOMAIN pages, Distinct(Siblings(p)),
         NEW a \in Siblings(p), NEW b \in Siblings(p)
  PROVE  /\ Place(a) = Cardinality(Above(a))
         /\ pages[a].order < pages[b].order <=> Place(a) < Place(b)
         /\ Place(a) = Place(b) => a = b
<1> DEFINE S == Siblings(p)
           Lower(c) == {s \in S : pages[s].order < pages[c].order}
<1>1. /\ \A c \in S : c \in DOMAIN pages /\ Siblings(c) = S /\ pages[c].order \in Nat
      /\ IsFiniteSet(S)
      /\ \A c, d \in S : c # d => pages[c].order # pages[d].order
  BY SiblingsFinite DEF PagesTypeOK, Numbers, Distinct
<1>2. ASSUME NEW c \in S
      PROVE  Place(c) = Cardinality(Lower(c)) /\ Above(c) = Lower(c)
  <2>1. {s \in Siblings(c) : Before(s, c)} = Lower(c)
    <3>1. c \in Nat /\ \A s \in S : s \in Nat
      BY <1>1 DEF PagesTypeOK
    <3>2. ASSUME NEW s \in S PROVE Before(s, c) <=> pages[s].order < pages[c].order
      <4>1. CASE s = c
        BY <1>1, <3>1, <4>1 DEF Before
      <4>2. CASE s # c
        BY <1>1, <4>2 DEF Before
      <4> QED
        BY <4>1, <4>2
    <3> QED
      BY <1>1, <3>2
  <2> QED
    BY <1>1, <2>1 DEF Place, Above
<1>3. ASSUME NEW c \in S, NEW d \in S, pages[c].order < pages[d].order
      PROVE  Cardinality(Lower(c)) < Cardinality(Lower(d))
  <2>1. Lower(c) \in SUBSET Lower(d) /\ c \in Lower(d) /\ c \notin Lower(c)
    BY <1>1, <1>3
  <2>2. IsFiniteSet(Lower(d)) /\ IsFiniteSet(Lower(c))
    <3>1. Lower(d) \in SUBSET S /\ Lower(c) \in SUBSET S
      OBVIOUS
    <3> HIDE DEF Lower
    <3> QED
      BY <1>1, <3>1, FS_Subset
  <2> HIDE DEF Lower
  <2>3. /\ Cardinality(Lower(c)) <= Cardinality(Lower(d))
        /\ Cardinality(Lower(c)) # Cardinality(Lower(d))
    BY <2>1, <2>2, FS_Subset
  <2> QED
    BY <2>2, <2>3, FS_CardinalityType
<1>4. \A c \in S : Place(c) \in Nat
  BY <1>1, PlaceBounds, SiblingsFinite
<1>5. pages[a].order \in Nat /\ pages[b].order \in Nat
  BY <1>1
<1>6. pages[a].order < pages[b].order => Place(a) < Place(b)
  BY <1>2, <1>3
<1>7. pages[b].order < pages[a].order => Place(b) < Place(a)
  BY <1>2, <1>3
<1> HIDE DEF Lower
<1> QED
  BY <1>1, <1>2, <1>4, <1>5, <1>6, <1>7

\* Every place among such siblings is taken.
LEMMA PlacesTaken ==
  ASSUME PagesTypeOK, NEW p \in DOMAIN pages, Distinct(Siblings(p)),
         NEW i \in 0 .. Cardinality(Siblings(p)) - 1
  PROVE  \E c \in Siblings(p) : Place(c) = i
<1> DEFINE S == Siblings(p)
           n == Cardinality(S)
           I == 0 .. n - 1
           f == [c \in S |-> Place(c)]
<1>1. IsFiniteSet(S) /\ n \in Nat
  BY SiblingsFinite
<1>2. f \in [S -> I]
  BY SiblingsFinite, PlaceBounds
<1>3. \A a, b \in S : f[a] = f[b] => a = b
  BY PlacesInOrder
<1>4. IsFiniteSet(I) /\ Cardinality(I) = n
  <2>1. 0 \in Int /\ n - 1 \in Int
    BY <1>1
  <2> QED
    BY <1>1, <2>1, FS_Interval
<1>5. f \in Injection(S, I)
  BY <1>2, <1>3 DEF Injection, IsInjective
<1> HIDE DEF f, I
<1>6. f \in Surjection(S, I)
  BY <1>4, <1>5, FS_Injection
<1>7. \E c \in S : f[c] = i
  BY <1>6 DEF Surjection, I
<1> QED
  BY <1>7 DEF f

\* What one arrow does.
LEMMA ArrowMoves ==
  ASSUME PagesTypeOK, NEW p \in DOMAIN pages, NEW direction \in {"up", "down"},
         Distinct(Siblings(p)), MoveItem(p, direction)
  PROVE  LET above == Cardinality(Above(p))
             below == Cardinality(Siblings(p)) - 1 - above
         IN  /\ Cardinality(Above(p)') = IF direction = "up"
                                         THEN IF above = 0 THEN 0 ELSE above - 1
                                         ELSE IF below = 0 THEN above ELSE above + 1
             /\ Distinct(Siblings(p))'
             /\ \A a, b \in Siblings(p) \ {p} :
                  a \in Above(b) <=> a \in Above(b)'
<1> DEFINE S == Siblings(p)
           n == Cardinality(S)
           x == Place(p)
           there == IF direction = "up" THEN x - 1 ELSE x + 1
           moves == \E s \in S : Place(s) = there
           place == Moved(p, direction)
<1>1. /\ p \in S /\ n \in Nat \ {0} /\ S \subseteq DOMAIN pages
      /\ \A c \in S : Siblings(c) = S /\ Place(c) \in 0 .. n - 1
  BY SiblingsFinite, PlaceBounds
<1>2. /\ x = Cardinality(Above(p))
      /\ \A a, b \in S : /\ pages[a].order < pages[b].order <=> Place(a) < Place(b)
                         /\ Place(a) = Place(b) => a = b
  BY <1>1, PlacesInOrder
<1>3. moves <=> there \in 0 .. n - 1
  BY <1>1, PlacesTaken
<1>4. place = [c \in S |-> IF moves /\ c = p THEN there
                           ELSE IF moves /\ Place(c) = there THEN x ELSE Place(c)]
  BY DEF Moved
<1>5. /\ DOMAIN pages' = DOMAIN pages
      /\ \A c \in DOMAIN pages : pages'[c].parent = pages[c].parent
      /\ \A c \in S : pages'[c].order = place[c]
  <2>1. pages' = [c \in DOMAIN pages |->
                    IF c \in S THEN [pages[c] EXCEPT !.order = place[c]] ELSE pages[c]]
    BY DEF MoveItem, Renumbered
  <2> HIDE DEF place
  <2>2. \A c \in DOMAIN pages : pages[c] \in [parent : DOMAIN pages \cup {Root}, order : Numbers]
    BY DEF PagesTypeOK
  <2> QED
    BY <1>1, <2>1, <2>2
<1>6. \A c \in S : Siblings(c)' = S
  BY <1>1, <1>5 DEF Siblings
<1> HIDE DEF place, moves, there, x, n, S
<1>7. x \in 0 .. n - 1 /\ there \in Int /\ (there = x - 1 \/ there = x + 1)
  BY <1>1 DEF x, there
<1>8. \A c \in S : place[c] \in 0 .. n - 1
  BY <1>1, <1>3, <1>4, <1>7
<1>9. \A a, b \in S : place[a] = place[b] => a = b
  BY <1>1, <1>2, <1>3, <1>4, <1>7 DEF x
<1>10. \A i \in 0 .. n - 1 : \E c \in S : place[c] = i
  <2> SUFFICES ASSUME NEW i \in 0 .. n - 1 PROVE \E c \in S : place[c] = i
    OBVIOUS
  <2>1. \A j \in 0 .. n - 1 : \E c \in S : Place(c) = j
    BY PlacesTaken DEF n, S
  <2>2. CASE ~moves
    BY <1>4, <2>1, <2>2
  <2>3. CASE moves /\ i = there
    BY <1>1, <1>4, <2>3
  <2>4. CASE moves /\ i = x
    <3>1. PICK c \in S : Place(c) = there
      BY <2>4 DEF moves
    <3>2. c # p
      BY <1>7, <3>1 DEF x
    <3> QED
      BY <1>4, <2>4, <3>1, <3>2
  <2>5. CASE i # there /\ i # x
    <3>1. PICK c \in S : Place(c) = i
      BY <2>1
    <3> QED
      BY <1>4, <2>5, <3>1 DEF x
  <2> QED
    BY <2>2, <2>3, <2>4, <2>5
<1>11. place \in [S -> 0 .. n - 1]
  BY <1>4, <1>8
<1>12. \A c \in S : Above(c)' = {s \in S : place[s] < place[c]}
  BY <1>5, <1>6 DEF Above
<1>13. Cardinality(Above(p)') = place[p]
  <2>1. n \in Nat /\ place[p] \in 0 .. n
    BY <1>1, <1>8
  <2>2. Cardinality({s \in S : place[s] < place[p]}) = place[p]
    BY <1>9, <1>10, <1>11, <2>1, CountedBelow
  <2> QED
    BY <1>1, <1>12, <2>2
<1>14. place[p] = IF direction = "up" THEN IF x = 0 THEN 0 ELSE x - 1
                  ELSE IF n - 1 - x = 0 THEN x ELSE x + 1
  BY <1>1, <1>3, <1>4, <1>7 DEF there, x
<1>15. Distinct(Siblings(p))'
  BY <1>1, <1>5, <1>6, <1>9 DEF Distinct
<1>16. ASSUME NEW a \in S \ {p}, NEW b \in S \ {p} PROVE a \in Above(b) <=> a \in Above(b)'
  <2>1. a \in Above(b) <=> Place(a) < Place(b)
    BY <1>1, <1>2 DEF Above
  <2>2. a \in Above(b)' <=> place[a] < place[b]
    BY <1>12
  <2>3. /\ Place(a) \in Nat /\ Place(b) \in Nat /\ Place(a) # x /\ Place(b) # x
        /\ Place(a) = Place(b) <=> a = b
    BY <1>1, <1>2 DEF x
  <2>4. /\ place[a] = IF moves /\ Place(a) = there THEN x ELSE Place(a)
        /\ place[b] = IF moves /\ Place(b) = there THEN x ELSE Place(b)
    BY <1>4
  <2> QED
    BY <1>7, <2>1, <2>2, <2>3, <2>4
<1> QED
  BY <1>2, <1>13, <1>14, <1>15, <1>16 DEF S, n, x

\* An arrow moves its page by one place, or by none at the end of the row, and
\* leaves the order of the others (move_item, InfoService.move_page).
THEOREM ArrowsOnePlace == PagesSpec => ArrowsMoveOnePlace
<1>1. PagesInv => PagesTypeOK
  BY DEF PagesInv
<1>2. ASSUME PagesTypeOK, [PagesNext]_pagesVars
      PROVE  \A p \in DOMAIN pages, direction \in {"up", "down"} :
               Distinct(Siblings(p)) /\ MoveItem(p, direction) =>
                 LET above == Cardinality(Above(p))
                     below == Cardinality(Siblings(p)) - 1 - above
                 IN  /\ Cardinality(Above(p)') = IF direction = "up"
                                                 THEN IF above = 0 THEN 0 ELSE above - 1
                                                 ELSE IF below = 0 THEN above ELSE above + 1
                     /\ Distinct(Siblings(p))'
                     /\ \A a, b \in Siblings(p) \ {p} :
                          a \in Above(b) <=> a \in Above(b)'
  BY <1>2, ArrowMoves
<1> QED
  BY <1>1, <1>2, PagesInvariant, PTL DEF PagesSpec, ArrowsMoveOnePlace

================================================================================
