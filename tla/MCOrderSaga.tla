---------------------------- MODULE MCOrderSaga ----------------------------
(***************************************************************************)
(* Small instances of OrderSaga.                                           *)
(***************************************************************************)
EXTENDS OrderSaga, TLC

CONSTANT o1

Created(n) == [type |-> "OrderCreated", order |-> o1, copy |-> n]
Failed == [type |-> "PaymentFailed", order |-> o1, copy |-> 1]

Single == {<<"payment", 1>>, <<"shipping", 1>>, <<"order", 1>>}

\* StockReserved is published for each copy, and again after a failed call.
Published(created, failed) ==
    [OrderCreated |-> created, StockReserved |-> created + MaxErrors, PaymentFailed |-> failed]

SmallOrder == o1 :> (1 :> 2)
SmallStock == 1 :> 3

Duplicates == Published(2, 1)
DuplicatesInbox == {Created(1), Created(2), Failed}

Pays == Published(1, 0)
PaysInbox == {Created(1)}
=============================================================================
