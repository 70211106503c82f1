---------------------------- MODULE DialerProofs ----------------------------
(***************************************************************************)
(* What a failed dial may leave behind and what may end the process, for   *)
(* any number of dials.                                                    *)
(***************************************************************************)
EXTENDS Dialer, TLAPS

(* DialContext and its goroutine agree on the channel between them: it is  *)
(* open as long as the caller waits, and full only when the goroutine has  *)
(* gone.                                                                   *)
ChannelInv(d) ==
  /\ caller[d] = "new" => helper[d] = "none" /\ conn[d] = "none"
  /\ helper[d] = "none" <=> chan[d] = "none"
  /\ caller[d] = "wait" <=> chan[d] \in {"empty", "full"}
  /\ chan[d] = "full" => helper[d] = "gone"

(* What the goroutine has in hand. An error comes without a connection, and*)
(* a connection the caller still waits for is open.                        *)
ResultInv(d) ==
  /\ helper[d] \in {"none", "dial"} => result[d] = "none"
  /\ helper[d] \in {"select", "gone"} => result[d] # "none"
  /\ helper[d] = "dial" \/ result[d] = "error" => conn[d] = "none"
  /\ caller[d] = "wait" /\ result[d] = "conn" => conn[d] = "open"

(* Only a websocket's time can be over. A caller that has returned before  *)
(* its goroutine gave up, and one that gave up with a connection made, had *)
(* no time left.                                                           *)
LateInv(d) ==
  /\ ctx[d] = "done" => client[d] = "websocket"
  /\ chan[d] = "closed" /\ helper[d] \in {"dial", "select"} =>
       caller[d] = "failed" /\ ctx[d] = "done"
  /\ caller[d] = "failed" => conn[d] = "none" \/ ctx[d] = "done"

DialInv(d) == ChannelInv(d) /\ ResultInv(d) /\ LateInv(d)

IInv == TypeOK /\ EndsOnlyAfterTimeout /\ \A d \in Dials : DialInv(d)
-----------------------------------------------------------------------------
LEMMA Initial == Init => IInv
  BY DEF Init, IInv, TypeOK, EndsOnlyAfterTimeout, DialInv, ChannelInv, ResultInv, LateInv

(* A dial's step needs a process that runs, and touches no other dial.     *)
LEMMA Frame ==
  ASSUME TypeOK, NEW d \in Dials,
         DialContext(d) \/ Dial(d) \/ Goroutine(d) \/ Timeout(d)
  PROVE  /\ alive /\ UNCHANGED config
         /\ \A c \in Dials \ {d} :
              /\ ctx'[c] = ctx[c] /\ caller'[c] = caller[c] /\ helper'[c] = helper[c]
              /\ result'[c] = result[c] /\ chan'[c] = chan[c] /\ conn'[c] = conn[c]
  BY DEF TypeOK, DialContext, Dial, Goroutine, Timeout, NetDial, Start, Receive, GiveUp,
         Handshake, Send, SendOnClosed, Drop, config

(* So it is enough that a step keeps what is said of its own dial.         *)
LEMMA OwnDial ==
  ASSUME IInv, NEW d \in Dials,
         DialContext(d) \/ Dial(d) \/ Goroutine(d) \/ Timeout(d),
         TypeOK', EndsOnlyAfterTimeout', DialInv(d)'
  PROVE  IInv'
<1>1. ASSUME NEW c \in Dials \ {d} PROVE DialInv(c)'
  <2>1. DialInv(c)
    BY DEF IInv
  <2>2. /\ ctx'[c] = ctx[c] /\ caller'[c] = caller[c] /\ helper'[c] = helper[c]
        /\ result'[c] = result[c] /\ chan'[c] = chan[c] /\ conn'[c] = conn[c]
        /\ client' = client
    BY Frame DEF IInv, config
  <2> QED BY <2>1, <2>2 DEF DialInv, ChannelInv, ResultInv, LateInv
<1> QED BY <1>1 DEF IInv

LEMMA DialContextStep ==
  ASSUME IInv, NEW d \in Dials, DialContext(d)
  PROVE  IInv'
<1> USE DEF IInv, TypeOK, DialInv, ChannelInv, ResultInv, LateInv, config
<1>1. alive' /\ EndsOnlyAfterTimeout'
  BY Frame DEF EndsOnlyAfterTimeout, DialContext, NetDial, Start, Receive, GiveUp, Handshake
<1>2. TypeOK' /\ DialInv(d)'
  <2>1. CASE NetDial(d)
    BY <2>1 DEF NetDial, Connected
  <2>2. CASE Start(d)
    BY <2>2 DEF Start
  <2>3. CASE Receive(d)
    BY <2>3 DEF Receive, Connected
  <2>4. CASE GiveUp(d)
    BY <2>4 DEF GiveUp
  <2>5. CASE Handshake(d)
    BY <2>5 DEF Handshake
  <2> QED BY <2>1, <2>2, <2>3, <2>4, <2>5 DEF DialContext
<1> QED BY <1>1, <1>2, OwnDial

\* The SOCKS server's answer, perhaps after the caller has gone.
LEMMA DialStep ==
  ASSUME IInv, NEW d \in Dials, Dial(d)
  PROVE  IInv'
<1> USE DEF IInv, TypeOK, DialInv, ChannelInv, ResultInv, LateInv, config
<1>1. EndsOnlyAfterTimeout'
  BY DEF EndsOnlyAfterTimeout, Dial
<1>2. TypeOK' /\ DialInv(d)'
  BY DEF Dial
<1> QED BY <1>1, <1>2, OwnDial

LEMMA GoroutineStep ==
  ASSUME IInv, NEW d \in Dials, Goroutine(d)
  PROVE  IInv'
<1> USE DEF IInv, TypeOK, DialInv, ChannelInv, ResultInv, LateInv, config
<1>1. CASE Send(d)
  <2>1. TypeOK' /\ EndsOnlyAfterTimeout' /\ DialInv(d)'
    BY <1>1 DEF Send, EndsOnlyAfterTimeout
  <2> QED BY <2>1, OwnDial
<1>2. CASE SendOnClosed(d)
  <2>1. caller[d] = "failed" /\ ctx[d] = "done" /\ client[d] = "websocket"
    BY <1>2 DEF SendOnClosed
  <2>2. TypeOK' /\ DialInv(d)'
    BY <1>2 DEF SendOnClosed
  <2>3. EndsOnlyAfterTimeout'
    BY <1>2, <2>1 DEF SendOnClosed, EndsOnlyAfterTimeout
  <2> QED BY <2>2, <2>3, OwnDial
<1>3. CASE Drop(d)
  <2>1. TypeOK' /\ EndsOnlyAfterTimeout' /\ DialInv(d)'
    BY <1>3 DEF Drop, EndsOnlyAfterTimeout
  <2> QED BY <2>1, OwnDial
<1> QED BY <1>1, <1>2, <1>3 DEF Goroutine

LEMMA TimeoutStep ==
  ASSUME IInv, NEW d \in Dials, Timeout(d)
  PROVE  IInv'
<1>1. TypeOK' /\ EndsOnlyAfterTimeout' /\ DialInv(d)'
  BY DEF IInv, TypeOK, DialInv, ChannelInv, ResultInv, LateInv, config, Timeout,
         EndsOnlyAfterTimeout
<1> QED BY <1>1, OwnDial

LEMMA Inductive == IInv /\ [Next]_vars => IInv'
<1> SUFFICES ASSUME IInv, [Next]_vars PROVE IInv'
  OBVIOUS
<1>1. CASE UNCHANGED vars
  BY <1>1 DEF vars, config, IInv, TypeOK, EndsOnlyAfterTimeout, DialInv, ChannelInv,
              ResultInv, LateInv
<1> QED BY <1>1, DialContextStep, DialStep, GoroutineStep, TimeoutStep DEF Next

LEMMA AlwaysIInv == Spec => []IInv
  BY Initial, Inductive, PTL DEF Spec
-----------------------------------------------------------------------------
(* Types, and: whoever is given a connection by DialContext is given one   *)
(* that is open.                                                           *)
THEOREM TypeCorrect == Spec => []TypeOK
<1>1. IInv => TypeOK
  BY DEF IInv
<1> QED BY <1>1, AlwaysIInv, PTL

(* A dial that fails leaves no connection open, unless its time was over.  *)
THEOREM LostIsLateHolds == Spec => []LostIsLate
<1>1. IInv => LostIsLate
  BY DEF IInv, DialInv, LateInv, LostIsLate
<1> QED BY <1>1, AlwaysIInv, PTL

(* Only a websocket whose dial timed out can end the process by its        *)
(* goroutine's send: no request of the http.Transport ever does.           *)
THEOREM EndsOnlyAfterTimeoutHolds == Spec => []EndsOnlyAfterTimeout
<1>1. IInv => EndsOnlyAfterTimeout
  BY DEF IInv
<1> QED BY <1>1, AlwaysIInv, PTL
=============================================================================
