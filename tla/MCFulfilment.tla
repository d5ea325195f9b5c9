---------------------------- MODULE MCFulfilment ----------------------------
(***************************************************************************)
(* Small instances of Fulfilment: which services have how many workers,    *)
(* and how much the other services publish.                                *)
(***************************************************************************)
EXTENDS FulfilmentProperties

CONSTANT o1

Single == {<<"payment", 1>>, <<"shipping", 1>>, <<"order", 1>>}
TwoOrderWorkers == Single \cup {<<"order", 2>>}
WithMessageria == {<<"payment", 1>>, <<"messageria", 1>>}

Published(created, reserved, failed) ==
    [OrderCreated |-> created, StockReserved |-> reserved, PaymentFailed |-> failed]

\* The order's stock is reserved, and its payment fails as well.
Declined == Published(1, 1, 1)

\* OrderCreated is published twice with one id; stock is reserved.
Duplicated == Published(2, 1, 0)

Once == Published(1, 1, 0)
=============================================================================
