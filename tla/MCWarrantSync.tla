--------------------------- MODULE MCWarrantSync ---------------------------
(* WarrantSync for TLC: three payloads, of which one is revoked.            *)
EXTENDS WarrantSync
CONSTANTS p1, p2, p3

MCStatus == [p \in Snapshots |-> CASE p = p3 -> "REVOGADO" [] OTHER -> "PENDENTE"]
=============================================================================
