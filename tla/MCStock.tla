------------------------------- MODULE MCStock -------------------------------
(***************************************************************************)
(* Instances of Stock for TLC: the goods of a shop in two warehouses and a *)
(* component, a two-line document of each kind over them, and stock that   *)
(* is enough for some of the requests only.                                *)
(***************************************************************************)
EXTENDS Stock, TLC

CONSTANTS shop, depot, move, transfer, sale, order

In(c, n) == [cell |-> c, qty |-> n]
Out(c, n) == [cell |-> c, qty |-> 0 - n]

\* The sale and the order take the rows of the two cells in opposite orders.
MCLines ==
  [d \in Docs |->
     CASE d = move -> << In(shop, 1) >>
       [] d = transfer -> << Out(depot, 1), In(shop, 1) >>
       [] d = sale -> << Out(shop, 1), Out(depot, 1) >>
       [] d = order -> << Out(depot, 1), In(shop, 1) >>]

MCKind ==
  [d \in Docs |->
     CASE d = move -> "movement"
       [] d = transfer -> "direct"
       [] d = sale -> "checkout"
       [] d = order -> "produce"]

TwoInDepot == [c \in Cells |-> IF c = depot THEN 2 ELSE 0]
DepotOnly == {depot}
=============================================================================
