------------------------------ MODULE MCDialer ------------------------------
(* Instances of Dialer for TLC. No symmetry: the runs check liveness.      *)
EXTENDS Dialer
=============================================================================
