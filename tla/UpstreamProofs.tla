--------------------------- MODULE UpstreamProofs ---------------------------
(***************************************************************************)
(* The routes of settled requests, for every number of requests, of        *)
(* proxies and of changes.                                                 *)
(***************************************************************************)
EXTENDS Upstream, TLAPS

(* Either every request in flight is settled so far, or none is: a change  *)
(* unsettles all of them, and who begins among unsettled ones joins them.  *)
AlikeInv ==
  /\ \A q, r \in InFlight : q \in unsettled <=> r \in unsettled
  /\ \A r \in unsettled : pc[r] # "new"

(* What a request that is settled so far has found out is still so, and    *)
(* nothing changed since it began.                                         *)
Found(r) ==
  /\ wanted[r] = proxyFunc
  /\ kind[r] \in Clients \/ pc[r] = "use"
  /\ pc[r] \in {"unset?", "assign"} => proxyFunc # "nil" /\ saw[r] = proxyFunc
  /\ pc[r] \in {"held?", "erase"} => proxyFunc = "nil"
  /\ pc[r] \in {"cleared?", "use"} /\ proxyFunc # "nil" /\ kind[r] \in Clients
       => proxy[kind[r]] # "nil"
  /\ pc[r] = "use" /\ proxyFunc = "nil" /\ kind[r] \in Clients
       => proxy[kind[r]] = "nil"
  /\ had[r] = "nil" /\ kind[r] \in Clients => proxy[kind[r]] \in {"nil", proxyFunc}
  /\ had[r] # "env" /\ kind[r] \in Clients => proxy[kind[r]] # "env"

FoundInv == \A r \in InFlight \ unsettled : Found(r)

(* The three properties, of one request.                                   *)
Right(r) ==
  /\ wanted[r] = "nil" => route[r] = "direct"
  /\ kind[r] \in Clients /\ wanted[r] # "nil" =>
       /\ had[r] # "env" => route[r] \in Uris
       /\ had[r] = "nil" => route[r] = wanted[r]

RightInv == \A r \in Requests : Settled(r) => Right(r)

IInv == TypeOK /\ AlikeInv /\ FoundInv /\ RightInv
-----------------------------------------------------------------------------
(* Every variable keeps its type; the invariant is inductive by itself.    *)
LEMMA TypeInductive == TypeOK /\ [Next]_vars => TypeOK'
<1> SUFFICES ASSUME TypeOK, [Next]_vars PROVE TypeOK'
  OBVIOUS
<1> USE DEF Steps, Clients, Kinds
<1>1. CASE UNCHANGED vars
  BY <1>1 DEF TypeOK, vars
<1>2. ASSUME NEW f \in Uris \cup {"nil"}, Change(f)
      PROVE  TypeOK'
  BY <1>2, ChangesAssumption DEF TypeOK, Change, InFlight
<1>3. ASSUME NEW r \in Requests, Request(r)
      PROVE  TypeOK'
  <2>1. ASSUME NEW k \in Kinds, Begin(r, k) PROVE TypeOK'
    BY <2>1 DEF TypeOK, Begin, Go, settings
  <2>2. CASE TestSet(r)
    BY <2>2 DEF TypeOK, TestSet, Go, settings, history
  <2>3. CASE TestUnset(r)
    BY <2>3 DEF TypeOK, TestUnset, Go, settings, history
  <2>4. CASE Assign(r)
    <3>1. PICK f \in {saw[r], proxyFunc} : proxy' = [proxy EXCEPT ![kind[r]] = f]
      BY <2>4 DEF Assign
    <3>2. f \in Uris \cup {"nil"}
      BY DEF TypeOK
    <3> HIDE DEF Clients
    <3>3. proxy' \in [Clients -> Uris \cup {"nil", "env"}]
      BY <3>1, <3>2 DEF TypeOK
    <3>4. pc' \in [Requests -> Steps \cup {"new", "done"}]
      BY <2>4 DEF TypeOK, Assign, Go
    <3>5. UNCHANGED <<saw, route, settings, history>>
      BY <2>4 DEF Assign
    <3> QED BY <3>3, <3>4, <3>5 DEF TypeOK, settings, history
  <2>5. CASE TestCleared(r)
    BY <2>5 DEF TypeOK, TestCleared, Go, settings, history
  <2>6. CASE TestHeld(r)
    BY <2>6 DEF TypeOK, TestHeld, Go, settings, history
  <2>7. CASE Erase(r)
    BY <2>7 DEF TypeOK, Erase, Go, settings, history
  <2>8. CASE Leave(r)
    BY <2>8 DEF TypeOK, Leave, Ways, Go, settings, history
  <2>9. CASE LeaveByTunnel(r)
    BY <2>9 DEF TypeOK, LeaveByTunnel, Go, settings, history
  <2> QED BY <1>3, <2>1, <2>2, <2>3, <2>4, <2>5, <2>6, <2>7, <2>8, <2>9 DEF Request
<1> QED BY <1>1, <1>2, <1>3 DEF Next, SetProxy, ClearProxy

LEMMA TypeInitial == Init => TypeOK
  BY ChangesAssumption DEF Init, TypeOK, Clients, Kinds

(* TypeOK is an invariant of the specification.                            *)
THEOREM TypeCorrect == Spec => []TypeOK
  BY TypeInitial, TypeInductive, PTL DEF Spec
-----------------------------------------------------------------------------
LEMMA Initial == Init => IInv
  BY TypeInitial
     DEF Init, IInv, AlikeInv, FoundInv, RightInv, InFlight, Steps, Settled

(* A change unsettles everything in flight and touches no route.           *)
LEMMA ChangeStep ==
  ASSUME IInv, TypeOK', NEW f, Change(f) PROVE IInv'
<1>1. InFlight' = InFlight /\ InFlight \subseteq unsettled'
  BY DEF Change, InFlight
<1>2. AlikeInv' /\ FoundInv'
  BY <1>1 DEF AlikeInv, FoundInv, IInv, Change, InFlight, Steps
<1>3. RightInv'
  BY DEF IInv, RightInv, Right, Settled, Change
<1> QED BY <1>2, <1>3 DEF IInv

(* A new request is unsettled if the others are, and has found nothing.    *)
LEMMA BeginStep ==
  ASSUME IInv, TypeOK', NEW r \in Requests, NEW k \in Kinds, Begin(r, k)
  PROVE  IInv'
<1> USE DEF Steps
<1>1. InFlight' = InFlight \cup {r} /\ r \notin InFlight
  BY DEF IInv, TypeOK, Begin, Go, InFlight, Kinds, Clients
<1>2. AlikeInv'
  <2>1. \A q \in unsettled : q \in Requests /\ pc[q] # "new" /\ q # r
    BY DEF IInv, TypeOK, AlikeInv, Begin
  <2>2. \A q \in unsettled' : pc'[q] # "new"
    BY <2>1 DEF IInv, TypeOK, Begin, Go, Kinds, Clients
  <2>3. CASE InFlight \cap unsettled = {}
    BY <1>1, <2>1, <2>2, <2>3 DEF AlikeInv, Begin
  <2>4. CASE InFlight \cap unsettled # {}
    BY <1>1, <2>2, <2>4 DEF IInv, AlikeInv, Begin
  <2> QED BY <2>3, <2>4
<1>3. Found(r)'
  BY DEF IInv, TypeOK, Found, Begin, Go, settings, Kinds, Clients
<1>4. ASSUME NEW q \in InFlight \ unsettled, q # r PROVE Found(q)'
  BY <1>4 DEF IInv, TypeOK, FoundInv, Found, InFlight, Begin, Go, settings
<1>5. FoundInv'
  BY <1>1, <1>3, <1>4 DEF FoundInv, Begin
<1>6. RightInv'
  BY DEF IInv, TypeOK, RightInv, Right, Settled, Begin, Go, settings
<1> QED BY <1>2, <1>5, <1>6 DEF IInv

(* What the steps between the beginning and the end have in common.        *)
Between(r, place) ==
  /\ pc[r] \in Steps /\ Go(r, place)
  /\ UNCHANGED <<route, settings, history>>

LEMMA BetweenStep ==
  ASSUME IInv, TypeOK', NEW r \in Requests, NEW place \in Steps, Between(r, place),
         r \notin unsettled => \A q \in InFlight \ unsettled : Found(q)'
  PROVE  IInv'
<1>1. InFlight' = InFlight /\ r \in InFlight
  BY DEF IInv, TypeOK, Between, Go, InFlight
<1>2. AlikeInv'
  BY <1>1 DEF IInv, TypeOK, AlikeInv, Between, Go, Steps, history
<1>3. r \in unsettled => InFlight \ unsettled = {}
  BY <1>1 DEF IInv, AlikeInv
<1>4. FoundInv'
  BY <1>1, <1>3 DEF FoundInv, Between, history
<1>5. RightInv'
  BY DEF IInv, TypeOK, RightInv, Right, Settled, Between, Go, Steps, history
<1> QED BY <1>2, <1>4, <1>5 DEF IInv

(* A settled request's step leaves what the others have found as it is.    *)
LEMMA InnerStep ==
  ASSUME IInv, TypeOK', NEW r \in Requests,
         TestSet(r) \/ TestUnset(r) \/ Assign(r) \/ TestCleared(r) \/ TestHeld(r) \/ Erase(r)
  PROVE  IInv'
<1>1. PICK place \in Steps : Between(r, place)
  BY DEF TestSet, TestUnset, Assign, TestCleared, TestHeld, Erase, Between, Steps
<1>2. ASSUME r \notin unsettled, NEW q \in InFlight \ unsettled PROVE Found(q)'
  <2>1. r \in InFlight /\ Found(r) /\ Found(q) /\ q \in Requests
    BY <1>1, <1>2 DEF IInv, FoundInv, InFlight, Between
  <2> USE <1>2, <2>1 DEF Found, Go, settings, history
  <2>2. CASE TestSet(r)
    BY <2>2 DEF TestSet, IInv, TypeOK
  <2>3. CASE TestUnset(r)
    BY <2>3 DEF TestUnset, IInv, TypeOK
  <2>4. CASE Assign(r)
    <3>1. proxy' = [proxy EXCEPT ![kind[r]] = proxyFunc] /\ proxyFunc # "nil"
      BY <2>4 DEF Assign
    <3>2. \A c \in Clients : proxy'[c] = IF c = kind[r] THEN proxyFunc ELSE proxy[c]
      BY <3>1 DEF IInv, TypeOK
    <3>3. proxyFunc # "env"
      BY UrisAssumption DEF IInv, TypeOK
    <3> QED BY <2>4, <3>1, <3>2, <3>3 DEF Assign, IInv, TypeOK
  <2>5. CASE TestCleared(r)
    BY <2>5 DEF TestCleared, IInv, TypeOK
  <2>6. CASE TestHeld(r)
    BY <2>6 DEF TestHeld, IInv, TypeOK
  <2>7. CASE Erase(r)
    <3>1. proxyFunc = "nil"
      BY <2>7 DEF Erase
    <3>2. \A c \in Clients : proxy'[c] = IF c = kind[r] THEN "nil" ELSE proxy[c]
      BY <2>7 DEF Erase, IInv, TypeOK
    <3> QED BY <2>7, <3>1, <3>2 DEF Erase, IInv, TypeOK
  <2> QED BY <2>2, <2>3, <2>4, <2>5, <2>6, <2>7
<1> QED BY <1>1, <1>2, BetweenStep

(* Leaving uses what has been found.                                       *)
LEMMA LeaveStep ==
  ASSUME IInv, TypeOK', NEW r \in Requests, Leave(r) \/ LeaveByTunnel(r)
  PROVE  IInv'
<1>1. InFlight' = InFlight \ {r} /\ r \in InFlight
  BY DEF IInv, TypeOK, Leave, LeaveByTunnel, Go, InFlight, Steps
<1>2. AlikeInv'
  BY <1>1 DEF IInv, TypeOK, AlikeInv, Leave, LeaveByTunnel, Go, history
<1>3. FoundInv'
  BY <1>1 DEF IInv, TypeOK, FoundInv, Found, InFlight, Leave, LeaveByTunnel, Go,
              settings, history
<1>4. ASSUME r \notin unsettled PROVE Right(r)'
  <2>1. Found(r)
    BY <1>1, <1>4 DEF IInv, FoundInv
  <2>2. CASE Leave(r)
    BY <2>1, <2>2, UrisAssumption DEF Found, Right, Leave, Ways, IInv, TypeOK, settings, history
  <2>3. CASE LeaveByTunnel(r)
    BY <2>1, <2>3 DEF Found, Right, LeaveByTunnel, IInv, TypeOK, settings, history
  <2> QED BY <2>2, <2>3
<1>5. ASSUME NEW q \in Requests, q # r, Settled(q)' PROVE Right(q)'
  BY <1>5 DEF IInv, TypeOK, RightInv, Right, Settled, Leave, LeaveByTunnel, Go, history
<1>6. RightInv'
  BY <1>4, <1>5 DEF RightInv, Settled, Leave, LeaveByTunnel, history
<1> QED BY <1>2, <1>3, <1>6 DEF IInv

LEMMA Inductive == IInv /\ [Next]_vars => IInv'
<1> SUFFICES ASSUME IInv, [Next]_vars PROVE IInv'
  OBVIOUS
<1>1. TypeOK'
  BY TypeInductive DEF IInv
<1>2. CASE UNCHANGED vars
  BY <1>1, <1>2 DEF IInv, AlikeInv, FoundInv, Found, RightInv, Right, Settled,
                    InFlight, vars
<1>3. CASE SetProxy \/ ClearProxy
  BY <1>1, <1>3, ChangeStep DEF SetProxy, ClearProxy
<1>4. ASSUME NEW r \in Requests, Request(r) PROVE IInv'
  BY <1>1, <1>4, BeginStep, InnerStep, LeaveStep DEF Request
<1> QED BY <1>2, <1>3, <1>4 DEF Next

THEOREM InductiveInvariant == Spec => []IInv
  BY Initial, Inductive, PTL DEF Spec

(* A settled request goes direct once the setting is cleared, whatever the *)
(* requests beside it do to the field they share.                          *)
THEOREM ClearedIsDirectHolds == Spec => []ClearedIsDirect
<1>1. IInv => ClearedIsDirect
  BY DEF IInv, RightInv, Right, ClearedIsDirect
<1> QED BY <1>1, InductiveInvariant, PTL

(* With a proxy set and the environment's function out of the field, a     *)
(* settled request of a shared client leaves by a proxy the user named.    *)
THEOREM StaysProxiedHolds == Spec => []StaysProxied
<1>1. IInv => StaysProxied
  BY DEF IInv, RightInv, Right, StaysProxied
<1> QED BY <1>1, InductiveInvariant, PTL

(* A client found without a proxy takes the one that is set.               *)
THEOREM EmptyClientObeysHolds == Spec => []EmptyClientObeys
<1>1. IInv => EmptyClientObeys
  BY DEF IInv, RightInv, Right, EmptyClientObeys
<1> QED BY <1>1, InductiveInvariant, PTL
=============================================================================
