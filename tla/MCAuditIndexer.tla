--------------------------- MODULE MCAuditIndexer ---------------------------
(***************************************************************************)
(* A small instance of AuditIndexer: batches of two out of three events,   *)
(* of which each may come twice.                                           *)
(***************************************************************************)
EXTENDS AuditIndexer

CONSTANTS e1, e2, e3, r1, r2

ThreeEvents == {e1, e2, e3}
TwoReplicas == {r1, r2}
=============================================================================
