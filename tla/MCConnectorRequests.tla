-------------------------- MODULE MCConnectorRequests --------------------------
(* Instances of ConnectorRequests for TLC. *)
EXTENDS ConnectorRequests, TLC

Symmetry == Permutations(Clients)
================================================================================
