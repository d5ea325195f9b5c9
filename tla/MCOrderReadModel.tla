-------------------------- MODULE MCOrderReadModel --------------------------
(***************************************************************************)
(* Small instances of OrderReadModel: the events of one confirmed order.   *)
(***************************************************************************)
EXTENDS OrderReadModel, TLC

\* OrderCreated is published twice by the outbox.
Confirmed ==
    "order"     :> <<"OrderCreated", "OrderCreated", "OrderConfirmed">> @@
    "inventory" :> <<"StockReserved">> @@
    "payment"   :> <<"PaymentCaptured">> @@
    "shipping"  :> <<"ShipmentCreated">> @@
    "notification" :> <<"NotificationSent:ORDER_CREATED", "NotificationSent:ORDER_PAID">>

EventTopics == DOMAIN Confirmed
=============================================================================
