---------------------------- MODULE MCInventory ----------------------------
(***************************************************************************)
(* Small instances of Inventory: which orders, which stock, which messages *)
(* the topics carry.                                                       *)
(***************************************************************************)
EXTENDS InventoryProperties, TLC

CONSTANTS o1, o2

Created(o, n) == [type |-> "OrderCreated", order |-> o, copy |-> n]
Failed(o) == [type |-> "PaymentFailed", order |-> o, copy |-> 1]

\* One order of two products, published twice, whose payment fails.
BothProducts == 1 :> 1 @@ 2 :> 1
OneOrder == o1 :> BothProducts
TwicePublished == {Created(o1, 1), Created(o1, 2), Failed(o1)}

\* Two orders of the same two products.
TwoOrders == o1 :> BothProducts @@ o2 :> BothProducts
Contended == {Created(o1, 1), Created(o1, 2), Created(o2, 1)}

\* One order of two units of one product.
SmallOrder == o1 :> (1 :> 2)
SmallStock == 1 :> 3

Plenty == 1 :> 2 @@ 2 :> 2
Scarce == 1 :> 2 @@ 2 :> 1

\* One order, published once.
OncePublished == {Created(o1, 1), Failed(o1)}

\* Interchangeable instances and runs of the job.
Symmetry == Permutations(Instances) \cup Permutations(Jobs)
=============================================================================
