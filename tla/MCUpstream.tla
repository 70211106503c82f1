----------------------------- MODULE MCUpstream -----------------------------
(* Instances of Upstream for TLC. Requests are interchangeable, and so are *)
(* the proxies they may be sent through.                                   *)
EXTENDS Upstream, TLC

Symmetry == Permutations(Requests) \cup Permutations(Uris)
=============================================================================
