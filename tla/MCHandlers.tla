----------------------------- MODULE MCHandlers -----------------------------
(* Instances of Handlers for TLC. Requests are interchangeable.            *)
EXTENDS Handlers, TLC

Symmetry == Permutations(Requests)
=============================================================================
