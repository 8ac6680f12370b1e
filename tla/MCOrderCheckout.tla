--------------------------- MODULE MCOrderCheckout ---------------------------
(***************************************************************************)
(* OrderCheckout for TLC.  Customers and products are model values that no *)
(* definition tells apart, so runs without temporal properties may count   *)
(* states up to their permutation.                                         *)
(***************************************************************************)
EXTENDS OrderCheckout, TLC

Symmetric == Permutations(Users) \cup Permutations(Products)
==============================================================================
