------------------------------ MODULE MCRules ------------------------------
(* Instances of Rules for TLC.                                             *)
EXTENDS Rules

CONSTANTS a, b  \* two hosts

\* append doubles an array that is full.
MCCapacity(P) ==
  IF P = <<>> THEN 0
  ELSE CHOOSE c \in {2 ^ k : k \in 0..Len(P)} : c >= Len(P) /\ c < 2 * Len(P)

Pattern(S) == [match |-> S]

\* Growing, shrinking, reordered; arrays with and without room.
MCFilterLists ==
  LET A == Pattern({a})  B == Pattern({b})  N == Pattern({})
  IN {<<>>, <<A>>, <<A, B>>, <<B, A>>, <<B, N, A>>, <<B, N, N, Pattern({a, b})>>}

MCReplaceLists ==
  {<<>>,
   <<[match |-> {a}, does |-> "nothing"]>>,
   <<[match |-> {b}, does |-> "substitute"], [match |-> {a, b}, does |-> "nothing"],
     [match |-> {a}, does |-> "panic"]>>,
   <<[match |-> {}, does |-> "nothing"], [match |-> {}, does |-> "substitute"],
     [match |-> {b}, does |-> "nothing"], [match |-> {a}, does |-> "substitute"]>>}
=============================================================================
