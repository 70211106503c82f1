---------------------------- MODULE MCCertCache -----------------------------
(* Instances of CertCache for TLC: handshakes are interchangeable, and so  *)
(* are names.                                                              *)
EXTENDS CertCache, TLC

Symmetry == Permutations(Handshakes) \cup Permutations(Names)
=============================================================================
