----------------------------- MODULE MCCapture -----------------------------
(* Instances of Capture for TLC. Requests and Streams are interchangeable: *)
(* no definition chooses among them, so symmetry is sound for invariants   *)
(* and for the step-wise refinement; the liveness run does without it.     *)
EXTENDS Capture, TLC

Symmetry == Permutations(Requests) \cup Permutations(Streams)
=============================================================================
