---------------------------- MODULE MCCatalogueSync ----------------------------
(***************************************************************************)
(* CatalogueSync for TLC: the contents of product files.                   *)
(***************************************************************************)
EXTENDS CatalogueSync

CONSTANT p1

\* On sale, complete; the same without a line "search:", which the
\* synchronisation then makes; taken off sale; with an illegible price.
MCWritten == {[sale |-> TRUE,  price |-> p1,         search |-> "full"],
              [sale |-> TRUE,  price |-> p1,         search |-> "none"],
              [sale |-> FALSE, price |-> p1,         search |-> "none"],
              [sale |-> TRUE,  price |-> Unreadable, search |-> "full"]}

\* Two releases of complete files, as all in the repository are.
MCReleased == [sale : BOOLEAN, price : {p1}, search : {"full"}]
================================================================================
