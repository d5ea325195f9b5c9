---------------------------- MODULE StockLedger ----------------------------
(***************************************************************************)
(* What the inventory database promises, whoever drives it: stock is taken *)
(* for a whole order or not at all, never beyond what is available, and    *)
(* each reservation gives its quantity back at most once.                  *)
(***************************************************************************)
EXTENDS StockData

VARIABLES
    stock,         \* products.available_stock
    reservation    \* reservations.status, by row

InStock(o) == \A p \in ProductsOf(o) : stock[p] >= Demand[o][p]

-----------------------------------------------------------------------------
Init ==
    /\ stock = InitialStock
    /\ reservation = [r \in Rows |-> "NONE"]

\* All the products of the order are taken and its rows inserted, at once.
Reserve(o, n) ==
    /\ InStock(o)
    /\ \A r \in RowsOf(o, n) : reservation[r] = "NONE"
    /\ stock' = [p \in Products |-> stock[p] - Demand[o][p]]
    /\ reservation' = [r \in Rows |-> IF r \in RowsOf(o, n) THEN "RESERVED"
                                                          ELSE reservation[r]]

\* A reservation ends, and the product gets its quantity back.
Restore(r, status) ==
    /\ reservation[r] = "RESERVED"
    /\ reservation' = [reservation EXCEPT ![r] = status]
    /\ stock' = [stock EXCEPT ![r[2]] = @ + Quantity(r)]

Next ==
    \/ \E o \in Orders, n \in Copies : Reserve(o, n)
    \/ \E r \in Rows, status \in {"RELEASED", "EXPIRED"} : Restore(r, status)

vars == <<stock, reservation>>
Spec == Init /\ [][Next]_vars

-----------------------------------------------------------------------------
TypeOK ==
    /\ stock \in [Products -> Nat]
    /\ reservation \in [Rows -> Status]

HeldRows(p) == {r \in Rows : r[2] = p /\ reservation[r] = "RESERVED"}
HeldUnits(p) == UNION {Units(r) : r \in HeldRows(p)}

(***************************************************************************)
(* Conservation: what is available of a product and what its open          *)
(* reservations hold is always the seeded stock.  It fails if a            *)
(* reservation is restored twice (the expiry job and a PaymentFailed both  *)
(* incrementing availableStock), if part of an order's stock stays taken   *)
(* after an out-of-stock rollback, or if rows are inserted over others.    *)
(***************************************************************************)
Conservation ==
    \A p \in Products :
        /\ IsFiniteSet(HeldUnits(p))
        /\ stock[p] + Cardinality(HeldUnits(p)) = InitialStock[p]
=============================================================================
