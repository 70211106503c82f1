------------------------------ MODULE MCRelay -------------------------------
(* Instances of Relay for TLC. The peers and their goroutines differ, so   *)
(* there is no symmetry to use.                                            *)
EXTENDS Relay
=============================================================================
