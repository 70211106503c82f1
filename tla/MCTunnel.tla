------------------------------ MODULE MCTunnel ------------------------------
(* Instances of Tunnel for TLC. No symmetry: the runs check liveness.      *)
EXTENDS Tunnel
=============================================================================
