----------------------------- MODULE StockData -----------------------------
(***************************************************************************)
(* The inventory database's data, shared by the ledger that states what    *)
(* the database promises and by the service that drives it.                *)
(*                                                                         *)
(* A row of the reservations table is named by the order it belongs to,    *)
(* the product, and the copy of the OrderCreated event whose transaction   *)
(* inserted it (the table's own key is a random UUID).  A row that was     *)
(* never inserted has status "NONE".                                       *)
(***************************************************************************)
EXTENDS Naturals, FiniteSets

CONSTANTS
    Orders,        \* the orders the service hears of
    Products,      \* product ids, as numbers: localeCompare is <
    MaxCopies,     \* how often one event can be published
    Demand,        \* Demand[o][p]: quantity of p order o asks for (0: none)
    InitialStock   \* availableStock of each product after the seed

\* An order names at least one product: create-order.dto.ts, orders.controller.ts.
ASSUME StockAssumption ==
    /\ Products \subseteq Nat \ {0}
    /\ MaxCopies \in Nat
    /\ Demand \in [Orders -> [Products -> Nat]]
    /\ \A o \in Orders : \E p \in Products : Demand[o][p] > 0
    /\ InitialStock \in [Products -> Nat]

Copies == 1..MaxCopies
Rows == Orders \X Products \X Copies
Status == {"NONE", "RESERVED", "RELEASED", "EXPIRED"}

ProductsOf(o) == {p \in Products : Demand[o][p] > 0}
RowsOf(o, n) == {r \in Rows : r[1] = o /\ r[3] = n /\ r[2] \in ProductsOf(o)}
Quantity(r) == Demand[r[1]][r[2]]

\* The units of stock a row stands for, each named by the row and a number.
Units(r) == {r} \X (1..Quantity(r))
=============================================================================
