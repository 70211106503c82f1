------------------------------- MODULE Dialer -------------------------------
(***************************************************************************)
(* How a connection to the outside is made: NetDialer, or Socks5Dialer,    *)
(* which runs the library's Dial, that knows no context, in a goroutine and*)
(* waits for its result or the end of the context, whichever comes first.  *)
(* The two meet in a channel of one that DialContext closes when it        *)
(* returns. DialTLSContext goes on to set TLS up on the connection.        *)
(*                                                                         *)
(* The contexts: gorilla's websocket.Dialer gives a whole handshake 45     *)
(* seconds; http.Transport lets a dial go on when its request is cancelled.*)
(***************************************************************************)
EXTENDS FiniteSets

CONSTANT Dials  \* one per connection asked for

VARIABLES
  socks,   \* is netDialer a Socks5Dialer
  hello,   \* is there a clientHelloConfig
  alive,   \* does the process still run
  client,  \* client[d]: who asks, "http" or "websocket"
  secure,  \* secure[d]: is it DialTLSContext that is called
  ctx,     \* ctx[d]: "live" or "done"
  caller,  \* caller[d]: where DialTLSContext or DialContext is
  helper,  \* helper[d]: the goroutine
  result,  \* result[d]: what Dial returned to it
  chan,    \* chan[d]: "none", "empty", "full" or "closed"
  conn     \* conn[d]: the connection made: "none", "open", "closed"

config == <<socks, hello, client, secure>>
vars == <<config, alive, ctx, caller, helper, result, chan, conn>>

Init ==
  /\ socks \in BOOLEAN /\ hello \in BOOLEAN
  /\ client \in [Dials -> {"http", "websocket"}]
  /\ secure \in [Dials -> BOOLEAN]
  /\ alive = TRUE
  /\ ctx = [d \in Dials |-> "live"]
  /\ caller = [d \in Dials |-> "new"]
  /\ helper = [d \in Dials |-> "none"]
  /\ result = [d \in Dials |-> "none"]
  /\ chan = [d \in Dials |-> "none"]
  /\ conn = [d \in Dials |-> "none"]

(* What is left to do with the connection DialContext returns: UClient     *)
(* makes the handshake, Client leaves it to the one who uses it.           *)
Connected(d) == IF secure[d] /\ hello THEN "handshake" ELSE "ok"
-----------------------------------------------------------------------------
(* Faulty variants, used only to confirm that the properties notice them.  *)

\* The result's error is not looked at.
ReceiveAnyway(d) ==
  /\ alive /\ caller[d] = "wait" /\ chan[d] = "full"
  /\ caller' = [caller EXCEPT ![d] = Connected(d)]
  /\ chan' = [chan EXCEPT ![d] = "closed"]
  /\ UNCHANGED <<config, alive, ctx, helper, result, conn>>

\* An address that cannot be split into host and port is an error of Client.
ReceiveSplit(d) ==
  /\ alive /\ caller[d] = "wait" /\ chan[d] = "full"
  /\ \E c \in {"failed", IF result[d] = "conn" THEN Connected(d) ELSE "failed"} :
       caller' = [caller EXCEPT ![d] = c]
  /\ chan' = [chan EXCEPT ![d] = "closed"]
  /\ UNCHANGED <<config, alive, ctx, helper, result, conn>>

\* close(ch) is not deferred.
StartClosed(d) ==
  /\ alive /\ caller[d] = "new" /\ socks
  /\ caller' = [caller EXCEPT ![d] = "wait"]
  /\ helper' = [helper EXCEPT ![d] = "dial"]
  /\ chan' = [chan EXCEPT ![d] = "closed"]
  /\ UNCHANGED <<config, alive, ctx, result, conn>>

\* The caller only gives up once the goroutine has ended.
GiveUpLate(d) ==
  /\ alive /\ caller[d] = "wait" /\ ctx[d] = "done" /\ helper[d] = "gone"
  /\ caller' = [caller EXCEPT ![d] = "failed"]
  /\ chan' = [chan EXCEPT ![d] = "closed"]
  /\ UNCHANGED <<config, alive, ctx, helper, result, conn>>
-----------------------------------------------------------------------------
(* NetDialer.                                                              *)

NetDial(d) ==
  /\ alive /\ caller[d] = "new" /\ ~socks
  /\ \/ /\ caller' = [caller EXCEPT ![d] = Connected(d)]
        /\ conn' = [conn EXCEPT ![d] = "open"]
     \/ /\ caller' = [caller EXCEPT ![d] = "failed"]
        /\ UNCHANGED conn
  /\ UNCHANGED <<config, alive, ctx, helper, result, chan>>
-----------------------------------------------------------------------------
(* Socks5Dialer.                                                           *)

Start(d) ==
  /\ alive /\ caller[d] = "new" /\ socks
  /\ caller' = [caller EXCEPT ![d] = "wait"]
  /\ helper' = [helper EXCEPT ![d] = "dial"]
  /\ chan' = [chan EXCEPT ![d] = "empty"]
  /\ UNCHANGED <<config, alive, ctx, result, conn>>

\* The SOCKS server connects or refuses; it may also never answer.
Dial(d) ==
  /\ alive /\ helper[d] = "dial"
  /\ helper' = [helper EXCEPT ![d] = "select"]
  /\ \/ /\ result' = [result EXCEPT ![d] = "conn"]
        /\ conn' = [conn EXCEPT ![d] = "open"]
     \/ /\ result' = [result EXCEPT ![d] = "error"]
        /\ UNCHANGED conn
  /\ UNCHANGED <<config, alive, ctx, caller, chan>>

Send(d) ==
  /\ alive /\ helper[d] = "select" /\ chan[d] = "empty"
  /\ chan' = [chan EXCEPT ![d] = "full"]
  /\ helper' = [helper EXCEPT ![d] = "gone"]
  /\ UNCHANGED <<config, alive, ctx, caller, result, conn>>

\* select takes any case that can go on, and a send on a closed channel can:
\* it panics, in a goroutine nobody recovers, and the process ends.
SendOnClosed(d) ==
  /\ alive /\ helper[d] = "select" /\ chan[d] = "closed"
  /\ alive' = FALSE
  /\ helper' = [helper EXCEPT ![d] = "gone"]
  /\ UNCHANGED <<config, ctx, caller, result, chan, conn>>

\* The connection, if there is one, is dropped as it is.
Drop(d) ==
  /\ alive /\ helper[d] = "select" /\ ctx[d] = "done"
  /\ helper' = [helper EXCEPT ![d] = "gone"]
  /\ UNCHANGED <<config, alive, ctx, caller, result, chan, conn>>

Receive(d) ==
  /\ alive /\ caller[d] = "wait" /\ chan[d] = "full"
  /\ caller' = [caller EXCEPT ![d] = IF result[d] = "conn" THEN Connected(d) ELSE "failed"]
  /\ chan' = [chan EXCEPT ![d] = "closed"]
  /\ UNCHANGED <<config, alive, ctx, helper, result, conn>>

GiveUp(d) ==
  /\ alive /\ caller[d] = "wait" /\ ctx[d] = "done"
  /\ caller' = [caller EXCEPT ![d] = "failed"]
  /\ chan' = [chan EXCEPT ![d] = "closed"]
  /\ UNCHANGED <<config, alive, ctx, helper, result, conn>>
-----------------------------------------------------------------------------
(* UClient. HandshakeContext closes the connection when the context ends;  *)
(* when the handshake, or the preset before it, fails nobody does.         *)

Handshake(d) ==
  /\ alive /\ caller[d] = "handshake"
  /\ \/ caller' = [caller EXCEPT ![d] = "ok"] /\ UNCHANGED conn
     \/ caller' = [caller EXCEPT ![d] = "refused"] /\ UNCHANGED conn
     \/ /\ ctx[d] = "done"
        /\ caller' = [caller EXCEPT ![d] = "failed"]
        /\ conn' = [conn EXCEPT ![d] = "closed"]
  /\ UNCHANGED <<config, alive, ctx, helper, result, chan>>

\* 45 seconds have passed.
Timeout(d) ==
  /\ alive /\ client[d] = "websocket" /\ ctx[d] = "live"
  /\ caller[d] \in {"wait", "handshake"}
  /\ ctx' = [ctx EXCEPT ![d] = "done"]
  /\ UNCHANGED <<config, alive, caller, helper, result, chan, conn>>
-----------------------------------------------------------------------------
DialContext(d) == NetDial(d) \/ Start(d) \/ Receive(d) \/ GiveUp(d) \/ Handshake(d)
Goroutine(d) == Send(d) \/ SendOnClosed(d) \/ Drop(d)

Next == \E d \in Dials : DialContext(d) \/ Dial(d) \/ Goroutine(d) \/ Timeout(d)

Spec == Init /\ [][Next]_vars

(* Goroutines and timers run, net.Dialer and a handshake come to an end; a *)
(* SOCKS server need not answer.                                           *)
FairSpec ==
  /\ Spec
  /\ \A d \in Dials : WF_vars(DialContext(d)) /\ WF_vars(Goroutine(d)) /\ WF_vars(Timeout(d))
-----------------------------------------------------------------------------
(* Types, and: a dial that succeeds has a connection that is open.         *)
TypeOK ==
  /\ socks \in BOOLEAN /\ hello \in BOOLEAN /\ alive \in BOOLEAN
  /\ client \in [Dials -> {"http", "websocket"}]
  /\ secure \in [Dials -> BOOLEAN]
  /\ ctx \in [Dials -> {"live", "done"}]
  /\ caller \in [Dials -> {"new", "wait", "handshake", "ok", "failed", "refused"}]
  /\ helper \in [Dials -> {"none", "dial", "select", "gone"}]
  /\ result \in [Dials -> {"none", "conn", "error"}]
  /\ chan \in [Dials -> {"none", "empty", "full", "closed"}]
  /\ conn \in [Dials -> {"none", "open", "closed"}]
  /\ \A d \in Dials : caller[d] \in {"ok", "handshake"} => conn[d] = "open"

(* A dial that fails leaves no open connection that nobody was given,      *)
(* unless its time was over (or, "refused", a client hello that failed).   *)
LostIsLate ==
  \A d \in Dials :
    caller[d] = "failed" /\ helper[d] \in {"none", "gone"} /\ conn[d] = "open" => ctx[d] = "done"

(* Only a websocket whose time was over before the SOCKS server answered   *)
(* can end the process; no request of the http.Transport can.              *)
EndsOnlyAfterTimeout ==
  ~alive => \E d \in Dials : client[d] = "websocket" /\ ctx[d] = "done" /\ caller[d] = "failed"

(* A websocket's dial comes to an end though the server never answers; an  *)
(* http request's does when the server answers.                            *)
DialReturns ==
  \A d \in Dials :
    caller[d] = "wait" /\ (client[d] = "websocket" \/ helper[d] # "dial")
      ~> caller[d] # "wait" \/ ~alive

(* "If it timed out or was cancelled, nothing is sent here any more": the  *)
(* goroutine of a dial that was given up ends, and nothing else happens.   *)
NoSendAfterTimeout ==
  [][\A d \in Dials :
       ctx[d] = "done" /\ caller[d] = "failed" /\ helper[d] = "select" /\ helper'[d] = "gone"
         => alive' /\ chan' = chan]_vars
=============================================================================
