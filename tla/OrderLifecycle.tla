--------------------------- MODULE OrderLifecycle ---------------------------
(***************************************************************************)
(* What the choreography promises about an order, whatever is lost,        *)
(* duplicated or repeated on the way: it is paid only once its stock was   *)
(* reserved, shipped only once paid, decided once and for good, confirmed  *)
(* only if shipped and cancelled only if its payment failed, and its       *)
(* outcome is told once at most, as decided.                               *)
(***************************************************************************)
EXTENDS Naturals

CONSTANT Orders

VARIABLES
    reserved, paid, declined, shipped,  \* the orders that were
    outcome,                            \* what was decided
    told                                \* how often each decision was told

Decisions == {"CONFIRMED", "CANCELLED"}
vars == <<reserved, paid, declined, shipped, outcome, told>>

Init ==
    /\ reserved = {} /\ paid = {} /\ declined = {} /\ shipped = {}
    /\ outcome = [o \in Orders |-> "PENDING"]
    /\ told = [o \in Orders |-> [d \in Decisions |-> 0]]

ReserveStock(o) ==
    /\ reserved' = reserved \cup {o}
    /\ UNCHANGED <<paid, declined, shipped, outcome, told>>

Pay(o) ==
    /\ o \in reserved
    /\ paid' = paid \cup {o}
    /\ UNCHANGED <<reserved, declined, shipped, outcome, told>>

Decline(o) ==
    /\ o \in reserved
    /\ declined' = declined \cup {o}
    /\ UNCHANGED <<reserved, paid, shipped, outcome, told>>

Ship(o) ==
    /\ o \in paid
    /\ shipped' = shipped \cup {o}
    /\ UNCHANGED <<reserved, paid, declined, outcome, told>>

Decide(o, decision) ==
    /\ outcome[o] = "PENDING"
    /\ o \in IF decision = "CONFIRMED" THEN shipped ELSE declined
    /\ outcome' = [outcome EXCEPT ![o] = decision]
    /\ UNCHANGED <<reserved, paid, declined, shipped, told>>

Tell(o) ==
    /\ outcome[o] # "PENDING"
    /\ \A d \in Decisions : told[o][d] = 0
    /\ told' = [told EXCEPT ![o][outcome[o]] = 1]
    /\ UNCHANGED <<reserved, paid, declined, shipped, outcome>>

Next ==
    \E o \in Orders :
        \/ ReserveStock(o) \/ Pay(o) \/ Decline(o) \/ Ship(o) \/ Tell(o)
        \/ \E decision \in Decisions : Decide(o, decision)

Spec == Init /\ [][Next]_vars
=============================================================================
