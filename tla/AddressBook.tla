------------------------------ MODULE AddressBook ------------------------------
(***************************************************************************)
(* The saved pickup points of one customer: the table user_saved_addresses *)
(* (bot_services/user_address_service.py), the settings in which they are  *)
(* renamed, preferred and deleted (handlers/user_panel.py), and the button *)
(* under a new order that adds one                                         *)
(* (handlers/order_delivery_checkout.py).                                  *)
(*                                                                         *)
(* The checkout offers the default of a delivery service as a button.      *)
(* Buttons of earlier messages stay and name an address by its id.         *)
(* Updates are handled one at a time; what a name says is left out.        *)
(***************************************************************************)
EXTENDS Naturals

CONSTANTS
  Services,     \* delivery services: cdek and yandex
  Spots,        \* their pickup points
  MaxAddresses  \* bound: addresses ever saved

ASSUME AddressAssumption == MaxAddresses \in Nat

VARIABLES
  book,      \* the table: id -> service, spot, and whether it is the default
  saved,     \* ids given out so far; a higher id was created later
  renaming   \* the conversation, and renaming_addr_id

addressVars == <<book, saved, renaming>>

Of(service) == {a \in DOMAIN book : book[a].service = service}

--------------------------------------------------------------------------------

AddressInit ==
  /\ book = <<>> /\ saved = 0
  /\ renaming = [waiting |-> FALSE, address |-> 0]

\* add_address: the first address of a service is its default; a spot that is
\* there already gets the name and text anew.
AddAddress(service, spot) ==
  /\ IF \E a \in Of(service) : book[a].spot = spot
     THEN UNCHANGED <<book, saved>>
     ELSE /\ saved < MaxAddresses
          /\ saved' = saved + 1
          /\ book' = [a \in DOMAIN book \cup {saved + 1} |->
                        IF a = saved + 1
                        THEN [service |-> service, spot |-> spot, default |-> Of(service) = {}]
                        ELSE book[a]]
  /\ UNCHANGED renaming

\* set_default_address; an address that is gone has no service.
SetDefault(id) ==
  /\ id \in DOMAIN book
  /\ book' = [a \in DOMAIN book |->
                IF book[a].service = book[id].service
                THEN [book[a] EXCEPT !.default = a = id] ELSE book[a]]
  /\ UNCHANGED <<saved, renaming>>

\* Deliberate bug: the oldest of all services' addresses succeeds.
OldestOfAll(id) ==
  IF DOMAIN book = {id} THEN id
  ELSE CHOOSE a \in DOMAIN book \ {id} : \A b \in DOMAIN book \ {id} : a <= b

\* The address that succeeds id as the default: the one created last.
Successor(id) ==
  LET others == Of(book[id].service) \ {id}
  IN  IF others = {} THEN id ELSE CHOOSE a \in others : \A b \in others : b <= a

\* delete_address: the row is deleted and, if it was the default, another of
\* its service becomes it, in one transaction.
DeleteAddress(id) ==
  /\ id \in DOMAIN book
  /\ book' = [a \in DOMAIN book \ {id} |->
                IF book[id].default /\ a = Successor(id)
                THEN [book[a] EXCEPT !.default = TRUE] ELSE book[a]]
  /\ UNCHANGED <<saved, renaming>>

\* The button is no entry point while a name is awaited.
StartRename(id) ==
  /\ ~renaming.waiting
  /\ renaming' = [waiting |-> TRUE, address |-> id]
  /\ UNCHANGED <<book, saved>>

\* The next text is the name, if the address is still there.
SaveRenamed ==
  /\ renaming.waiting
  /\ renaming' = [renaming EXCEPT !.waiting = FALSE]
  /\ UNCHANGED <<book, saved>>

\* "Cancel" writes to an attribute of the update, which are all read-only: it
\* raises, and the next text is still taken for the name.
CancelRename == renaming.waiting /\ UNCHANGED addressVars

\* The conversation does not survive a restart of the bot.
RestartAddresses ==
  /\ renaming' = [renaming EXCEPT !.waiting = FALSE]
  /\ UNCHANGED <<book, saved>>

AddressNext ==
  \/ \E service \in Services, spot \in Spots : AddAddress(service, spot)
  \/ \E id \in 1 .. saved : SetDefault(id) \/ DeleteAddress(id) \/ StartRename(id)
  \/ SaveRenamed \/ CancelRename \/ RestartAddresses

AddressSpec == AddressInit /\ [][AddressNext]_addressVars

--------------------------------------------------------------------------------
\* Properties.

\* A service with saved addresses has exactly one default, so that the
\* checkout offers one as soon as there is one and use_saved_address finds the
\* same one again, whatever was saved, preferred and deleted by old buttons.
\* No spot is saved twice.
OneDefaultPerService ==
  \A service \in Services :
    /\ Of(service) # {} => \E a \in Of(service) : book[a].default
    /\ \A a, b \in Of(service) :
         a # b => /\ ~(book[a].default /\ book[b].default)
                  /\ book[a].spot # book[b].spot

================================================================================
