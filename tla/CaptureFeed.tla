---------------------------- MODULE CaptureFeed ----------------------------
(***************************************************************************)
(* What the capture feed of go-mitm promises, without its mechanism: the   *)
(* exchanges that pass through the proxy are recorded one after the other, *)
(* an intercepted exchange is recorded before its client is answered, and  *)
(* every record is shown at most once, on one page, in recording order.    *)
(* Records may be lost (a page that went away, a record of a type the page *)
(* does not understand); nothing else may happen to them.                  *)
(***************************************************************************)
EXTENDS Naturals, Sequences

CONSTANTS Requests,   \* the requests that pass through the proxy
          Streams     \* the event streams that pages open

VARIABLES intercepted, \* requests that must be recorded before they are answered
          answered,    \* requests whose client has its answer
          recorded,    \* the records, in recording order (each named by its request)
          shown,       \* shown[s]: the record numbers page s has shown, in order
          gone         \* record numbers that no page will ever show

feedVars == <<intercepted, answered, recorded, shown, gone>>

Recorded(r) == \E n \in DOMAIN recorded : recorded[n] = r
ShownBy(s, n) == \E i \in DOMAIN shown[s] : shown[s][i] = n
Pending(n) == n \in DOMAIN recorded /\ n \notin gone /\ \A s \in Streams : ~ShownBy(s, n)

Init ==
  /\ intercepted = {}
  /\ answered = {}
  /\ recorded = <<>>
  /\ shown = [s \in Streams |-> <<>>]
  /\ gone = {}

Intercept(r) ==
  /\ r \notin answered
  /\ ~Recorded(r)
  /\ intercepted' = intercepted \cup {r}
  /\ UNCHANGED <<answered, recorded, shown, gone>>

Record(r) ==
  /\ ~Recorded(r)
  /\ recorded' = Append(recorded, r)
  /\ UNCHANGED <<intercepted, answered, shown, gone>>

Answer(r) ==
  /\ r \in intercepted => Recorded(r)
  /\ answered' = answered \cup {r}
  /\ UNCHANGED <<intercepted, recorded, shown, gone>>

Show(s, n) ==
  /\ Pending(n)
  /\ \A i \in DOMAIN shown[s] : shown[s][i] < n
  /\ shown' = [shown EXCEPT ![s] = Append(@, n)]
  /\ UNCHANGED <<intercepted, answered, recorded, gone>>

Lose(n) ==
  /\ Pending(n)
  /\ gone' = gone \cup {n}
  /\ UNCHANGED <<intercepted, answered, recorded, shown>>

Next ==
  \/ \E r \in Requests : Intercept(r) \/ Record(r) \/ Answer(r)
  \/ \E n \in DOMAIN recorded : Lose(n) \/ \E s \in Streams : Show(s, n)

Spec == Init /\ [][Next]_feedVars
=============================================================================
