------------------------- MODULE StockLedgerProofs -------------------------
(***************************************************************************)
(* The ledger conserves stock, for any orders, demands, and seeded stock.  *)
(***************************************************************************)
EXTENDS StockLedger, FiniteSetTheorems, TLAPS

USE DEF Status

\* A row names a product, and its quantity is a number.
LEMMA RowsWellFormed ==
    ASSUME NEW r \in Rows
    PROVE  /\ r = <<r[1], r[2], r[3]>>
           /\ r[1] \in Orders /\ r[2] \in Products /\ r[3] \in Copies
           /\ Quantity(r) \in Nat
<1>1. /\ r = <<r[1], r[2], r[3]>>
      /\ r[1] \in Orders /\ r[2] \in Products /\ r[3] \in Copies
  BY DEF Rows
<1>2. Demand[r[1]] \in [Products -> Nat]
  BY <1>1, StockAssumption
<1> QED
  BY <1>1, <1>2 DEF Quantity

\* What an order does not name, it does not take.
LEMMA DemandWellFormed ==
    ASSUME NEW o \in Orders, NEW p \in Products
    PROVE  Demand[o][p] \in Nat /\ (p \notin ProductsOf(o) => Demand[o][p] = 0)
BY StockAssumption DEF ProductsOf

\* A row stands for as many units as its quantity, and for no other row's.
LEMMA UnitsOfRow ==
    ASSUME NEW r \in Rows
    PROVE  IsFiniteSet(Units(r)) /\ Cardinality(Units(r)) = Quantity(r)
<1> DEFINE q == Quantity(r)
<1>1. q \in Nat
  BY RowsWellFormed
<1>2. IsFiniteSet(1..q) /\ Cardinality(1..q) = q
  BY <1>1, FS_Interval
<1>3. IsFiniteSet({r}) /\ Cardinality({r}) = 1
  BY FS_Singleton
<1>4. /\ IsFiniteSet({r} \X (1..q))
      /\ Cardinality({r} \X (1..q)) = Cardinality({r}) * Cardinality(1..q)
  BY <1>2, <1>3, FS_Product
<1> QED
  BY <1>1, <1>2, <1>3, <1>4 DEF Units

LEMMA UnitsDisjoint ==
    ASSUME NEW r, NEW q, r # q
    PROVE  Units(r) \cap Units(q) = {}
BY DEF Units

-----------------------------------------------------------------------------
\* The stock of a product stays a natural number: a decrement is conditional
\* on availableStock.
THEOREM LedgerTypeCorrect == Spec => []TypeOK
<1>1. Init => TypeOK
  BY StockAssumption DEF Init, TypeOK
<1>2. TypeOK /\ [Next]_vars => TypeOK'
  <2> SUFFICES ASSUME TypeOK, [Next]_vars PROVE TypeOK'
    OBVIOUS
  <2>1. ASSUME NEW o \in Orders, NEW n \in Copies, Reserve(o, n) PROVE TypeOK'
    <3>1. \A p \in Products : stock[p] - Demand[o][p] \in Nat
      BY <2>1, DemandWellFormed DEF TypeOK, Reserve, InStock
    <3> QED
      BY <2>1, <3>1 DEF TypeOK, Reserve
  <2>2. ASSUME NEW r \in Rows, NEW s \in {"RELEASED", "EXPIRED"}, Restore(r, s)
        PROVE  TypeOK'
    <3>1. r[2] \in Products /\ Quantity(r) \in Nat
      BY RowsWellFormed
    <3> QED
      BY <2>2, <3>1 DEF TypeOK, Restore
  <2>3. CASE UNCHANGED vars
    BY <2>3 DEF TypeOK, vars
  <2> QED
    BY <2>1, <2>2, <2>3 DEF Next
<1> QED
  BY <1>1, <1>2, PTL DEF Spec

\* What a reserving transaction does to the units held of one product.
LEMMA ReserveHolds ==
    ASSUME TypeOK, NEW o \in Orders, NEW n \in Copies, Reserve(o, n),
           NEW p \in Products, IsFiniteSet(HeldUnits(p))
    PROVE  /\ IsFiniteSet(HeldUnits(p)')
           /\ Cardinality(HeldUnits(p)') = Cardinality(HeldUnits(p)) + Demand[o][p]
<1> DEFINE r == <<o, p, n>>
<1>1. r \in Rows /\ Quantity(r) = Demand[o][p]
  BY DEF Rows, Quantity
<1>2. CASE p \notin ProductsOf(o)
  <2>1. HeldRows(p)' = HeldRows(p)
    BY <1>2 DEF HeldRows, Reserve, RowsOf
  <2>2. HeldUnits(p)' = HeldUnits(p)
    BY <2>1 DEF HeldUnits
  <2> QED
    BY <1>2, <2>2, DemandWellFormed, FS_CardinalityType
<1>3. CASE p \in ProductsOf(o)
  <2>1. r \in RowsOf(o, n) /\ reservation[r] = "NONE"
    BY <1>1, <1>3 DEF RowsOf, Reserve
  <2>2. HeldRows(p)' = HeldRows(p) \cup {r}
    BY <1>1, <2>1, RowsWellFormed DEF HeldRows, Reserve, RowsOf
  <2>3. HeldUnits(p)' = HeldUnits(p) \cup Units(r)
    BY <2>2 DEF HeldUnits
  <2>4. r \notin HeldRows(p)
    BY <2>1 DEF HeldRows
  <2>5. HeldUnits(p) \cap Units(r) = {}
    BY <2>4, UnitsDisjoint DEF HeldUnits
  <2>6. /\ IsFiniteSet(HeldUnits(p) \cup Units(r))
        /\ Cardinality(HeldUnits(p) \cup Units(r))
             = Cardinality(HeldUnits(p)) + Cardinality(Units(r)) - Cardinality({})
    BY <1>1, <2>5, UnitsOfRow, FS_Union
  <2> QED
    BY <1>1, <2>3, <2>6, UnitsOfRow, FS_EmptySet, FS_CardinalityType,
       DemandWellFormed
<1> QED
  BY <1>2, <1>3

\* What ending a reservation does to them.
LEMMA RestoreFrees ==
    ASSUME TypeOK, NEW r \in Rows, NEW s \in {"RELEASED", "EXPIRED"}, Restore(r, s),
           NEW p \in Products, IsFiniteSet(HeldUnits(p))
    PROVE  /\ IsFiniteSet(HeldUnits(p)')
           /\ Cardinality(HeldUnits(p)')
                = Cardinality(HeldUnits(p)) - (IF r[2] = p THEN Quantity(r) ELSE 0)
<1>1. CASE r[2] # p
  <2>1. HeldRows(p)' = HeldRows(p)
    BY <1>1 DEF HeldRows, Restore, TypeOK
  <2>2. HeldUnits(p)' = HeldUnits(p)
    BY <2>1 DEF HeldUnits
  <2> QED
    BY <1>1, <2>2, FS_CardinalityType
<1>2. CASE r[2] = p
  <2>1. r \in HeldRows(p)
    BY <1>2 DEF HeldRows, Restore
  <2>2. HeldRows(p)' = HeldRows(p) \ {r}
    BY DEF HeldRows, Restore, TypeOK
  <2>3. \A q \in HeldRows(p)' : Units(q) \cap Units(r) = {}
    BY <2>2, UnitsDisjoint
  <2>4. HeldUnits(p)' = HeldUnits(p) \ Units(r)
    BY <2>1, <2>2, <2>3 DEF HeldUnits
  <2>5. HeldUnits(p) \cap Units(r) = Units(r)
    BY <2>1 DEF HeldUnits
  <2>6. /\ IsFiniteSet(HeldUnits(p) \ Units(r))
        /\ Cardinality(HeldUnits(p) \ Units(r))
             = Cardinality(HeldUnits(p)) - Cardinality(Units(r))
    BY <2>5, FS_Difference
  <2> QED
    BY <1>2, <2>4, <2>6, UnitsOfRow
<1> QED
  BY <1>1, <1>2

\* Available stock and open reservations always add up to the seeded stock
\* (the conditional updates of handleOrderCreated, handlePaymentFailed and
\* releaseExpiredReservations).
THEOREM LedgerConservation == Spec => []Conservation
<1>1. Init => Conservation
  <2> SUFFICES ASSUME Init, NEW p \in Products
               PROVE  /\ IsFiniteSet(HeldUnits(p))
                      /\ stock[p] + Cardinality(HeldUnits(p)) = InitialStock[p]
    BY DEF Conservation
  <2>1. HeldRows(p) = {}
    BY DEF Init, HeldRows
  <2>2. HeldUnits(p) = {}
    BY <2>1 DEF HeldUnits
  <2> QED
    BY <2>2, FS_EmptySet, StockAssumption DEF Init
<1>2. TypeOK /\ Conservation /\ [Next]_vars => Conservation'
  <2> SUFFICES ASSUME TypeOK, Conservation, [Next]_vars, NEW p \in Products
               PROVE  /\ IsFiniteSet(HeldUnits(p)')
                      /\ stock'[p] + Cardinality(HeldUnits(p)') = InitialStock[p]
    BY DEF Conservation
  <2>1. /\ IsFiniteSet(HeldUnits(p))
        /\ Cardinality(HeldUnits(p)) \in Nat
        /\ stock[p] \in Nat
        /\ stock[p] + Cardinality(HeldUnits(p)) = InitialStock[p]
    BY FS_CardinalityType DEF Conservation, TypeOK
  <2>2. ASSUME NEW o \in Orders, NEW n \in Copies, Reserve(o, n)
        PROVE  /\ IsFiniteSet(HeldUnits(p)')
               /\ stock'[p] + Cardinality(HeldUnits(p)') = InitialStock[p]
    <3>1. stock'[p] = stock[p] - Demand[o][p]
      BY <2>2 DEF Reserve
    <3> QED
      BY <2>1, <2>2, <3>1, ReserveHolds, DemandWellFormed
  <2>3. ASSUME NEW r \in Rows, NEW s \in {"RELEASED", "EXPIRED"}, Restore(r, s)
        PROVE  /\ IsFiniteSet(HeldUnits(p)')
               /\ stock'[p] + Cardinality(HeldUnits(p)') = InitialStock[p]
    <3>1. stock'[p] = stock[p] + (IF r[2] = p THEN Quantity(r) ELSE 0)
      BY <2>1, <2>3 DEF Restore, TypeOK
    <3> QED
      BY <2>1, <2>3, <3>1, RestoreFrees, RowsWellFormed
  <2>4. CASE UNCHANGED vars
    <3>1. HeldRows(p)' = HeldRows(p)
      BY <2>4 DEF HeldRows, vars
    <3> QED
      BY <2>1, <2>4, <3>1 DEF HeldUnits, vars
  <2> QED
    BY <2>2, <2>3, <2>4 DEF Next
<1> QED
  BY <1>1, <1>2, LedgerTypeCorrect, PTL DEF Spec
=============================================================================
