------------------------------ MODULE Tenants ------------------------------
(***************************************************************************)
(* The companies that share the panel.  Every row, token, database session *)
(* and websocket of the system belongs to one of them, or to none.         *)
(***************************************************************************)
CONSTANTS Companies, NoCompany

ASSUME TenantsAssumption == NoCompany \notin Companies
=============================================================================
