-------------------------- MODULE MCAlertPipeline --------------------------
(* AlertPipeline for TLC: up to three payloads, of which one is revoked.    *)
EXTENDS AlertPipeline
CONSTANTS p1, p2, p3

MCStatus == [p \in Snapshots |->
    CASE p = p1 -> "PENDENTE" [] p = p2 -> "CUMPRIDO" [] OTHER -> "REVOGADO"]
=============================================================================
