---------------------------- MODULE TunnelProofs ----------------------------
(***************************************************************************)
(* What a tunnel's bytes come to, for any number of tunnels and bytes and  *)
(* whenever the servers are stopped.                                       *)
(***************************************************************************)
EXTENDS Tunnel, TLAPS

(* Where a handler is before the connection has been taken over.           *)
Before == {"new", "offer", "dial", "flush", "abort"}

InFlight(t, e) == IF loop[<<t, e>>] = "write" THEN 1 ELSE 0

(* A loop passes on what it took, and takes what was sent.                 *)
LoopInv(t) ==
  \A e \in Ends :
    /\ taken[<<t, e>>] <= sent[<<t, e>>]
    /\ got[<<t, e>>] + InFlight(t, e) <= taken[<<t, e>>]

(* Until then the loops stand still, and only net/http has read, from the  *)
(* client.                                                                 *)
HeldInv(t) ==
  /\ pc[t] = "new" => ~ahead[t]
  /\ pc[t] \in Before =>
       /\ \A e \in Ends : loop[<<t, e>>] = "idle" /\ got[<<t, e>>] = 0
       /\ taken[<<t, "server">>] = 0 /\ taken[<<t, "client">>] = ReadAheadOf(t)

(* What was read from e and has not been written, nor is about to be.      *)
Kept(t, e) == taken[<<t, e>>] - got[<<t, e>>] - InFlight(t, e)

(* OnlyAheadIsLost, for one tunnel.                                        *)
AccountInv(t) ==
  pc[t] = "copy" /\ (\A q \in Ends : conn[<<t, q>>] = "open") =>
    Kept(t, "server") = 0 /\ Kept(t, "client") = ReadAheadOf(t)

TunnelInv(t) == LoopInv(t) /\ HeldInv(t) /\ AccountInv(t)

IInv == Types /\ \A t \in Tunnels : TunnelInv(t)
-----------------------------------------------------------------------------
LEMMA Initial == Init => IInv
<1> SUFFICES ASSUME Init PROVE IInv
  OBVIOUS
<1>1. Types
  <2>1. Bytes \in Nat /\ 0 \in 0..Bytes
    BY BoundsAssumption
  <2> QED BY <2>1 DEF Init, Types
<1>2. ASSUME NEW t \in Tunnels PROVE TunnelInv(t)
  BY DEF Init, TunnelInv, LoopInv, HeldInv, AccountInv, Kept, InFlight, ReadAheadOf, Ends
<1> QED BY <1>1, <1>2 DEF IInv

(* The types of what is counted.                                           *)
LEMMA Counted ==
  ASSUME Types, NEW t \in Tunnels, NEW e \in Ends
  PROVE  /\ sent[<<t, e>>] \in 0..Bytes /\ taken[<<t, e>>] \in 0..Bytes /\ got[<<t, e>>] \in 0..Bytes
         /\ early[t] \in 0..Bytes /\ ReadAheadOf(t) \in Nat /\ InFlight(t, e) \in {0, 1}
         /\ <<t, e>> \in Tunnels \X Ends /\ Other(e) \in Ends \ {e} /\ Bytes \in Nat
  BY BoundsAssumption DEF Types, ReadAheadOf, InFlight, Other, Ends

(* A step in which t's handler does not move, and its connections at most  *)
(* close; and one in which it moves, with the client's connection not yet  *)
(* taken over.                                                             *)
Stays(t) == pc'[t] = pc[t] /\ \A e \in Ends : conn'[<<t, e>>] = "open" => conn[<<t, e>>] = "open"
GoesOn(t) == pc[t] \in Before /\ pc'[t] \in Before \ {"new"}

(* What a step may do to a tunnel none of whose bytes it moves: its handler*)
(* goes on before the take-over or ends, and connections close.            *)
LEMMA HandOver ==
  ASSUME IInv, NEW t \in Tunnels,
         early'[t] = early[t], ahead'[t] = ahead[t],
         \A e \in Ends : /\ sent'[<<t, e>>] = sent[<<t, e>>] /\ taken'[<<t, e>>] = taken[<<t, e>>]
                         /\ got'[<<t, e>>] = got[<<t, e>>] /\ loop'[<<t, e>>] = loop[<<t, e>>],
         Stays(t) \/ pc'[t] = "ended" \/ GoesOn(t)
  PROVE  TunnelInv(t)'
<1>1. TunnelInv(t) /\ "client" \in Ends /\ "server" \in Ends
  BY DEF IInv, Ends
<1>2. /\ ReadAheadOf(t)' = ReadAheadOf(t)
      /\ \A e \in Ends : InFlight(t, e)' = InFlight(t, e)
  BY DEF ReadAheadOf, InFlight
<1>3. LoopInv(t)'
  BY <1>1, <1>2 DEF TunnelInv, LoopInv
<1>4. HeldInv(t)'
  BY <1>1, <1>2 DEF TunnelInv, HeldInv, Before, Stays, GoesOn
<1>5. AccountInv(t)'
  BY <1>1, <1>2 DEF TunnelInv, AccountInv, Kept, Before, Stays, GoesOn
<1> QED BY <1>3, <1>4, <1>5 DEF TunnelInv

(* The servers: their goroutines, Stop, and what Stop closes.              *)
LEMMA ServerStep ==
  ASSUME IInv, Serve \/ ListenStarts \/ Stop
  PROVE  IInv'
<1>1. UNCHANGED <<kind, early, ahead, loop, sent, taken, got>>
  BY DEF Serve, Stop, ServeStarts, AcceptFails, Accept, ListenStarts, CloseHttps,
         CloseHttpsConns, CloseHttp, Stopped, srvVars, byteVars
<1>2. /\ stop' \in {"running", "closing", "https", "http", "stopped"} /\ open' \in BOOLEAN
      /\ serve' \in {"start", "accept", "returned"}
      /\ listen' \in {"start", "listening", "returned"}
      /\ deaf' = deaf
  BY DEF Serve, Stop, ServeStarts, AcceptFails, Accept, ListenStarts, CloseHttps,
         CloseHttpsConns, CloseHttp, Stopped, srvVars, IInv, Types
<1>3. \/ \E t \in Tunnels : /\ pc[t] = "offer" /\ pc' = [pc EXCEPT ![t] = "flush"]
                            /\ conn' = [conn EXCEPT ![<<t, "server">>] = "open"]
      \/ /\ pc' = pc /\ conn' \in [Tunnels \X Ends -> {"none", "open", "closed"}]
         /\ \A p \in Tunnels \X Ends : conn'[p] = "open" => conn[p] = "open"
  <2>1. CASE \E t \in Tunnels : Accept(t)
    BY <2>1 DEF Accept, Go
  <2>2. CASE ServeStarts \/ AcceptFails \/ ListenStarts \/ CloseHttps \/ Stopped
    BY <2>2 DEF ServeStarts, AcceptFails, ListenStarts, CloseHttps, Stopped, IInv, Types
  <2>3. CASE CloseHttpsConns
    BY <2>3 DEF CloseHttpsConns, IInv, Types
  <2>4. CASE CloseHttp
    BY <2>4 DEF CloseHttp, IInv, Types
  <2> QED BY <2>1, <2>2, <2>3, <2>4 DEF Serve, Stop
<1>4. /\ pc' \in [Tunnels -> {"new", "offer", "dial", "flush", "abort", "copy", "ended"}]
      /\ conn' \in [Tunnels \X Ends -> {"none", "open", "closed"}]
  <2>1. pc \in [Tunnels -> {"new", "offer", "dial", "flush", "abort", "copy", "ended"}]
    BY DEF IInv, Types
  <2>2. conn \in [Tunnels \X Ends -> {"none", "open", "closed"}]
    BY DEF IInv, Types
  <2> QED BY <1>3, <2>1, <2>2
<1>5. Types'
  BY <1>1, <1>2, <1>4 DEF IInv, Types
<1>6. ASSUME NEW t \in Tunnels PROVE TunnelInv(t)'
  <2>1. ASSUME NEW s \in Tunnels, pc[s] = "offer", pc' = [pc EXCEPT ![s] = "flush"],
               conn' = [conn EXCEPT ![<<s, "server">>] = "open"]
        PROVE  Stays(t) \/ GoesOn(t)
    <3>1. CASE t = s
      BY <2>1, <3>1 DEF IInv, Types, GoesOn, Before
    <3>2. CASE t # s
      <4>1. pc'[t] = pc[t]
        BY <2>1, <3>2 DEF IInv, Types
      <4>2. \A e \in Ends : conn'[<<t, e>>] = conn[<<t, e>>]
        BY <2>1, <3>2 DEF IInv, Types
      <4> QED BY <4>1, <4>2 DEF Stays
    <3> QED BY <3>1, <3>2
  <2>2. ASSUME pc' = pc, \A p \in Tunnels \X Ends : conn'[p] = "open" => conn[p] = "open"
        PROVE  Stays(t)
    BY <2>2 DEF Stays
  <2>3. Stays(t) \/ GoesOn(t)
    BY <1>3, <2>1, <2>2
  <2> QED BY <1>1, <2>3, HandOver
<1> QED BY <1>5, <1>6 DEF IInv

(* A handler, but for its taking the connection over, and an end leaving.  *)
LEMMA HandlerStep ==
  ASSUME IInv, NEW t \in Tunnels,
         \/ OfferFails(t) \/ Dial(t) \/ DialFails(t) \/ Flush(t) \/ Return(t)
         \/ \E e \in Ends : Leave(t, e)
  PROVE  IInv'
<1>1. UNCHANGED <<stop, open, serve, listen, deaf, kind, early, ahead, loop, sent, taken, got>>
  BY DEF OfferFails, Dial, DialFails, Flush, Return, Leave, srvVars, byteVars
<1>2. conn' \in [Tunnels \X Ends -> {"none", "open", "closed"}]
  BY DEF OfferFails, Dial, DialFails, Flush, Return, Leave, IInv, Types
<1>3. \/ pc' = pc /\ \A p \in Tunnels \X Ends : conn'[p] = "open" => conn[p] = "open"
      \/ /\ pc[t] \in Before /\ pc' = [pc EXCEPT ![t] = "flush"]
         /\ \A p \in Tunnels \X Ends : p[1] # t => conn'[p] = conn[p]
      \/ pc[t] \in Before /\ pc' = [pc EXCEPT ![t] = "abort"] /\ conn' = conn
      \/ /\ pc' = [pc EXCEPT ![t] = "ended"]
         /\ \A p \in Tunnels \X Ends : p[1] # t => conn'[p] = conn[p]
  <2>1. CASE OfferFails(t)
    BY <2>1 DEF OfferFails, Go, IInv, Types
  <2>2. CASE Dial(t)
    BY <2>2 DEF Dial, Go, Before, IInv, Types
  <2>3. CASE DialFails(t)
    BY <2>3 DEF DialFails, Go
  <2>4. CASE Flush(t)
    BY <2>4 DEF Flush, Go, Before
  <2>5. CASE Return(t)
    BY <2>5 DEF Return, Go, IInv, Types
  <2>6. CASE \E e \in Ends : Leave(t, e)
    BY <2>6 DEF Leave, IInv, Types
  <2> QED BY <2>1, <2>2, <2>3, <2>4, <2>5, <2>6
<1>4. pc' \in [Tunnels -> {"new", "offer", "dial", "flush", "abort", "copy", "ended"}]
  BY <1>3 DEF IInv, Types
<1>5. Types'
  BY <1>1, <1>2, <1>4 DEF IInv, Types
<1>6. ASSUME NEW s \in Tunnels PROVE TunnelInv(s)'
  <2>1. Stays(s) \/ pc'[s] = "ended" \/ GoesOn(s)
    BY <1>3 DEF IInv, Types, Stays, GoesOn, Before, Ends
  <2> QED BY <1>1, <2>1, HandOver
<1> QED BY <1>5, <1>6 DEF IInv

(* The request: net/http may have read what the client sent behind it.     *)
LEMMA ConnectStep ==
  ASSUME IInv, NEW t \in Tunnels, Connect(t)
  PROVE  IInv'
<1>1. PICK n \in 0..Bytes :
        /\ early' = [early EXCEPT ![t] = n] /\ sent' = [sent EXCEPT ![<<t, "client">>] = n]
        /\ taken' = [taken EXCEPT ![<<t, "client">>] = n]
  <2>1. 0 \in 0..Bytes
    BY BoundsAssumption
  <2> QED BY <2>1 DEF Connect
<1>2. /\ pc[t] = "new" /\ pc' = [pc EXCEPT ![t] = IF kind[t] = "pipe" THEN "offer" ELSE "dial"]
      /\ UNCHANGED <<stop, open, serve, listen, deaf, kind, conn, ahead, loop, got>>
  BY DEF Connect, Go, srvVars
<1>3. Types'
  <2>1. pc' \in [Tunnels -> {"new", "offer", "dial", "flush", "abort", "copy", "ended"}]
    BY <1>2 DEF IInv, Types
  <2>2. early' \in [Tunnels -> 0..Bytes]
    BY <1>1 DEF IInv, Types
  <2>3. sent' \in [Tunnels \X Ends -> 0..Bytes] /\ taken' \in [Tunnels \X Ends -> 0..Bytes]
    BY <1>1 DEF IInv, Types
  <2> QED BY <1>2, <2>1, <2>2, <2>3 DEF IInv, Types
<1>4. ASSUME NEW s \in Tunnels PROVE TunnelInv(s)'
  <2>1. CASE s # t
    <3>1. /\ early'[s] = early[s]
          /\ \A e \in Ends : sent'[<<s, e>>] = sent[<<s, e>>] /\ taken'[<<s, e>>] = taken[<<s, e>>]
      BY <2>1, <1>1 DEF IInv, Types
    <3>2. Stays(s)
      BY <2>1, <1>2 DEF IInv, Types, Stays
    <3> QED BY <1>2, <3>1, <3>2, HandOver
  <2>2. CASE s = t
    <3>1. /\ pc'[t] \in Before \ {"new"} /\ early'[t] = n
          /\ taken'[<<t, "client">>] = n /\ sent'[<<t, "client">>] = n
          /\ taken'[<<t, "server">>] = taken[<<t, "server">>]
          /\ sent'[<<t, "server">>] = sent[<<t, "server">>]
      BY <1>1, <1>2 DEF IInv, Types, Before, Ends
    <3>2. /\ ~ahead[t] /\ taken[<<t, "server">>] = 0 /\ sent[<<t, "server">>] >= 0
          /\ \A e \in Ends : loop[<<t, e>>] = "idle" /\ got[<<t, e>>] = 0
      BY <1>2 DEF IInv, Types, TunnelInv, HeldInv, LoopInv, Before, Ends
    <3>3. LoopInv(t)'
      BY <1>2, <3>1, <3>2 DEF LoopInv, InFlight, Ends
    <3>4. HeldInv(t)'
      BY <1>2, <3>1, <3>2 DEF HeldInv, ReadAheadOf
    <3>5. AccountInv(t)'
      BY <3>1 DEF AccountInv, Before
    <3> QED BY <2>2, <3>3, <3>4, <3>5 DEF TunnelInv
  <2> QED BY <2>1, <2>2
<1> QED BY <1>3, <1>4 DEF IInv

(* The take-over: from here on it is for the loops to read.                *)
LEMMA HijackStep ==
  ASSUME IInv, NEW t \in Tunnels, Hijack(t)
  PROVE  IInv'
<1>1. /\ pc[t] = "abort" /\ pc' = [pc EXCEPT ![t] = "copy"]
      /\ loop' = [p \in Tunnels \X Ends |-> IF p[1] = t THEN "read" ELSE loop[p]]
      /\ UNCHANGED <<stop, open, serve, listen, deaf, kind, conn, early, ahead, sent, taken, got>>
  BY DEF Hijack, Go, srvVars, byteVars
<1>2. Types'
  <2>1. pc' \in [Tunnels -> {"new", "offer", "dial", "flush", "abort", "copy", "ended"}]
    BY <1>1 DEF IInv, Types
  <2>2. loop' \in [Tunnels \X Ends -> {"idle", "read", "write", "ended"}]
    BY <1>1 DEF IInv, Types
  <2> QED BY <1>1, <2>1, <2>2 DEF IInv, Types
<1>3. ASSUME NEW s \in Tunnels PROVE TunnelInv(s)'
  <2>1. CASE s # t
    <3>1. \A e \in Ends : loop'[<<s, e>>] = loop[<<s, e>>]
      BY <2>1, <1>1
    <3>2. Stays(s)
      BY <2>1, <1>1 DEF IInv, Types, Stays
    <3> QED BY <1>1, <3>1, <3>2, HandOver
  <2>2. CASE s = t
    <3>1. pc'[t] = "copy" /\ \A e \in Ends : loop'[<<t, e>>] = "read"
      BY <1>1 DEF IInv, Types
    <3>2. /\ \A e \in Ends : got[<<t, e>>] = 0 /\ taken[<<t, e>>] <= sent[<<t, e>>]
          /\ taken[<<t, "server">>] = 0 /\ taken[<<t, "client">>] = ReadAheadOf(t)
      BY <1>1 DEF IInv, TunnelInv, HeldInv, LoopInv, Before
    <3>3. \A e \in Ends : taken[<<t, e>>] \in Nat /\ ReadAheadOf(t) \in Nat
      BY Counted DEF IInv
    <3>4. LoopInv(t)'
      BY <1>1, <3>1, <3>2, <3>3 DEF LoopInv, InFlight
    <3>5. HeldInv(t)'
      BY <3>1 DEF HeldInv, Before
    <3>6. AccountInv(t)'
      BY <1>1, <3>1, <3>2, <3>3 DEF AccountInv, Kept, InFlight, ReadAheadOf, Ends
    <3> QED BY <2>2, <3>4, <3>5, <3>6 DEF TunnelInv
  <2> QED BY <2>1, <2>2
<1> QED BY <1>2, <1>3 DEF IInv

(* net/http's reader of the client's connection, while it has that.        *)
LEMMA ReadAheadStep ==
  ASSUME IInv, NEW t \in Tunnels, ReadAhead(t)
  PROVE  IInv'
<1> DEFINE n == taken[<<t, "client">>]
<1>1. /\ pc[t] \in Before \ {"new"} /\ ~ahead[t] /\ n < sent[<<t, "client">>]
      /\ ahead' = [ahead EXCEPT ![t] = TRUE] /\ taken' = [taken EXCEPT ![<<t, "client">>] = n + 1]
      /\ UNCHANGED <<stop, open, serve, listen, deaf, kind, pc, conn, early, sent, loop, got>>
  BY DEF ReadAhead, Held, Before, srvVars
<1>2. /\ n \in 0..Bytes /\ sent[<<t, "client">>] \in 0..Bytes /\ early[t] \in 0..Bytes
      /\ Bytes \in Nat
  BY Counted DEF IInv, Ends
<1>3. n + 1 \in 0..Bytes
  BY <1>1, <1>2
<1> HIDE DEF n
<1>4. Types'
  BY <1>1, <1>3 DEF IInv, Types
<1>5. ASSUME NEW s \in Tunnels PROVE TunnelInv(s)'
  <2>1. CASE s # t
    <3>1. ahead'[s] = ahead[s] /\ \A e \in Ends : taken'[<<s, e>>] = taken[<<s, e>>]
      BY <2>1, <1>1 DEF IInv, Types
    <3> QED BY <1>1, <3>1, HandOver DEF Stays
  <2>2. CASE s = t
    <3>1. /\ ahead'[t] /\ taken'[<<t, "client">>] = n + 1
          /\ taken'[<<t, "server">>] = taken[<<t, "server">>]
      BY <1>1 DEF IInv, Types, Ends
    <3>2. /\ n = ReadAheadOf(t) /\ taken[<<t, "server">>] = 0
          /\ taken[<<t, "server">>] <= sent[<<t, "server">>]
          /\ \A e \in Ends : loop[<<t, e>>] = "idle" /\ got[<<t, e>>] = 0
      BY <1>1 DEF IInv, TunnelInv, HeldInv, LoopInv, Before, Ends, n
    <3>3. n = early[t]
      BY <1>1, <1>2, <3>2 DEF ReadAheadOf
    <3>4. LoopInv(t)'
      BY <1>1, <1>2, <3>1, <3>2 DEF LoopInv, InFlight, Ends
    <3>5. HeldInv(t)'
      BY <1>1, <1>2, <3>1, <3>2, <3>3 DEF HeldInv, ReadAheadOf
    <3>6. AccountInv(t)'
      BY <1>1 DEF AccountInv, Before
    <3> QED BY <2>2, <3>4, <3>5, <3>6 DEF TunnelInv
  <2> QED BY <2>1, <2>2
<1> QED BY <1>4, <1>5 DEF IInv

(* An end writes a byte.                                                   *)
LEMMA SendStep ==
  ASSUME IInv, NEW t \in Tunnels, NEW e \in Ends, Send(t, e)
  PROVE  IInv'
<1> DEFINE n == sent[<<t, e>>]
<1>1. /\ n < Bytes /\ sent' = [sent EXCEPT ![<<t, e>>] = n + 1]
      /\ UNCHANGED <<stop, open, serve, listen, deaf, kind, pc, conn, early, ahead, loop, taken, got>>
  BY DEF Send, srvVars
<1>2. n \in 0..Bytes /\ Bytes \in Nat /\ n + 1 \in 0..Bytes
  BY <1>1, Counted DEF IInv
<1> HIDE DEF n
<1>3. Types'
  BY <1>1, <1>2 DEF IInv, Types
<1>4. ASSUME NEW s \in Tunnels PROVE TunnelInv(s)'
  <2>1. \A d \in Ends : sent[<<s, d>>] <= sent'[<<s, d>>]
    <3> SUFFICES ASSUME NEW d \in Ends PROVE sent[<<s, d>>] <= sent'[<<s, d>>]
      OBVIOUS
    <3>1. sent[<<s, d>>] \in Nat
      BY Counted DEF IInv
    <3>2. CASE <<s, d>> = <<t, e>>
      BY <3>1, <3>2, <1>1 DEF IInv, Types, n
    <3>3. CASE <<s, d>> # <<t, e>>
      BY <3>1, <3>3, <1>1 DEF IInv, Types
    <3> QED BY <3>2, <3>3
  <2>2. LoopInv(s) /\ HeldInv(s) /\ AccountInv(s)
    BY DEF IInv, TunnelInv
  <2>3. \A d \in Ends : taken[<<s, d>>] <= sent'[<<s, d>>]
    BY <1>3, <2>1, <2>2, Counted DEF IInv, Types, LoopInv
  <2>4. \A d \in Ends : InFlight(s, d)' = InFlight(s, d)
    BY <1>1 DEF InFlight
  <2>5. ReadAheadOf(s)' = ReadAheadOf(s)
    BY <1>1 DEF ReadAheadOf
  <2>6. LoopInv(s)'
    BY <1>1, <2>2, <2>3, <2>4 DEF LoopInv
  <2>7. HeldInv(s)' /\ AccountInv(s)'
    BY <1>1, <2>2, <2>4, <2>5 DEF HeldInv, AccountInv, Kept, Ends
  <2> QED BY <2>6, <2>7 DEF TunnelInv
<1> QED BY <1>3, <1>4 DEF IInv

(* An end that stops reading moves nothing.                                *)
LEMMA DeafStep ==
  ASSUME IInv, NEW t \in Tunnels, NEW e \in Ends, StopsReading(t, e)
  PROVE  IInv'
<1>1. /\ deaf' \in SUBSET (Tunnels \X Ends)
      /\ UNCHANGED <<stop, open, serve, listen, kind, pc, conn, early, ahead>>
      /\ UNCHANGED <<loop, sent, taken, got>>
  BY DEF StopsReading, srvVars, byteVars, IInv, Types
<1>2. Types'
  BY <1>1 DEF IInv, Types
<1>3. ASSUME NEW s \in Tunnels PROVE TunnelInv(s)'
  BY <1>1, HandOver DEF Stays
<1> QED BY <1>2, <1>3 DEF IInv

(* What a step of one loop may do to the others: nothing.                  *)
LEMMA OwnLoop ==
  ASSUME IInv, NEW t \in Tunnels, NEW e \in Ends,
         UNCHANGED <<stop, open, serve, listen, deaf, kind, pc, conn, early, ahead, sent>>,
         loop[<<t, e>>] # "idle",
         \A p \in Tunnels \X Ends : p # <<t, e>> =>
           loop'[p] = loop[p] /\ taken'[p] = taken[p] /\ got'[p] = got[p],
         loop' \in [Tunnels \X Ends -> {"idle", "read", "write", "ended"}],
         taken' \in [Tunnels \X Ends -> 0..Bytes], got' \in [Tunnels \X Ends -> Nat],
         taken'[<<t, e>>] <= sent[<<t, e>>],
         got'[<<t, e>>] + InFlight(t, e)' <= taken'[<<t, e>>],
         \/ \E q \in Ends : conn[<<t, q>>] # "open"
         \/ Kept(t, e)' = Kept(t, e)
  PROVE  IInv'
<1>1. Types'
  <2>1. ASSUME NEW p \in Tunnels \X Ends PROVE got'[p] \in 0..Bytes
    <3>1. CASE p # <<t, e>>
      BY <3>1 DEF IInv, Types
    <3>2. CASE p = <<t, e>>
      <4>1. /\ got'[<<t, e>>] \in Nat /\ taken'[<<t, e>>] \in 0..Bytes /\ Bytes \in Nat
            /\ InFlight(t, e)' \in {0, 1}
        BY <3>2, BoundsAssumption DEF InFlight
      <4> QED BY <3>2, <4>1
    <3> QED BY <3>1, <3>2
  <2>2. got' \in [Tunnels \X Ends -> 0..Bytes]
    BY <2>1
  <2> QED BY <2>2 DEF IInv, Types
<1>2. ASSUME NEW s \in Tunnels, s # t PROVE TunnelInv(s)'
  <2>1. \A d \in Ends : /\ loop'[<<s, d>>] = loop[<<s, d>>] /\ taken'[<<s, d>>] = taken[<<s, d>>]
                        /\ got'[<<s, d>>] = got[<<s, d>>]
    BY <1>2
  <2> QED BY <2>1, HandOver DEF Stays
<1>3. TunnelInv(t)'
  <2> DEFINE o == Other(e)
  <2>1. o \in Ends /\ o # e /\ \A d \in Ends : d = e \/ d = o
    BY DEF Other, Ends
  <2>2. /\ loop'[<<t, o>>] = loop[<<t, o>>] /\ taken'[<<t, o>>] = taken[<<t, o>>]
        /\ got'[<<t, o>>] = got[<<t, o>>]
    BY <2>1
  <2>3. InFlight(t, o)' = InFlight(t, o) /\ ReadAheadOf(t)' = ReadAheadOf(t)
    BY <2>2 DEF InFlight, ReadAheadOf
  <2> HIDE DEF o
  <2>4. LoopInv(t)'
    BY <2>1, <2>2, <2>3 DEF IInv, TunnelInv, LoopInv
  <2>5. pc[t] \notin Before
    BY DEF IInv, TunnelInv, HeldInv
  <2>6. HeldInv(t)'
    BY <2>5 DEF HeldInv, Before
  <2>7. AccountInv(t)'
    <3>1. Kept(t, o)' = Kept(t, o)
      BY <2>2, <2>3 DEF Kept
    <3>2. (\A q \in Ends : conn[<<t, q>>] = "open") => \A d \in Ends : Kept(t, d)' = Kept(t, d)
      BY <2>1, <3>1
    <3> HIDE DEF Kept
    <3> QED BY <2>3, <3>2 DEF IInv, TunnelInv, AccountInv, Ends
  <2> QED BY <2>4, <2>6, <2>7 DEF TunnelInv
<1> QED BY <1>1, <1>2, <1>3 DEF IInv

(* io.Copy takes a byte.                                                   *)
LEMMA CopyReadStep ==
  ASSUME IInv, NEW t \in Tunnels, NEW e \in Ends, CopyRead(t, e)
  PROVE  IInv'
<1> DEFINE n == taken[<<t, e>>]
<1>1. /\ loop[<<t, e>>] = "read" /\ n < sent[<<t, e>>]
      /\ taken' = [taken EXCEPT ![<<t, e>>] = n + 1]
      /\ loop' = [loop EXCEPT ![<<t, e>>] = "write"] /\ got' = got
      /\ UNCHANGED <<stop, open, serve, listen, deaf, kind, pc, conn, early, ahead, sent>>
  BY DEF CopyRead, srvVars
<1>2. /\ n \in 0..Bytes /\ sent[<<t, e>>] \in 0..Bytes /\ got[<<t, e>>] \in 0..Bytes
      /\ Bytes \in Nat /\ <<t, e>> \in Tunnels \X Ends
  BY Counted DEF IInv
<1>3. n + 1 \in 0..Bytes /\ n + 1 <= sent[<<t, e>>]
  BY <1>1, <1>2
<1>4. got[<<t, e>>] + InFlight(t, e) <= n
  BY DEF IInv, TunnelInv, LoopInv
<1>5. InFlight(t, e) = 0 /\ InFlight(t, e)' = 1
  BY <1>1, <1>2 DEF IInv, Types, InFlight
<1> HIDE DEF n
<1>6. /\ taken' \in [Tunnels \X Ends -> 0..Bytes] /\ taken'[<<t, e>>] = n + 1
      /\ loop' \in [Tunnels \X Ends -> {"idle", "read", "write", "ended"}]
      /\ got' \in [Tunnels \X Ends -> Nat]
      /\ \A p \in Tunnels \X Ends : p # <<t, e>> =>
           loop'[p] = loop[p] /\ taken'[p] = taken[p] /\ got'[p] = got[p]
  BY <1>1, <1>2, <1>3 DEF IInv, Types
<1>7. got[<<t, e>>] + 1 <= n + 1 /\ n + 1 - got[<<t, e>>] - 1 = n - got[<<t, e>>] - 0
  BY <1>2, <1>4, <1>5
<1>8. Kept(t, e)' = Kept(t, e)
  <2>1. Kept(t, e) = n - got[<<t, e>>] - 0
    BY <1>5 DEF Kept, n
  <2>2. Kept(t, e)' = n + 1 - got[<<t, e>>] - 1
    <3>1. taken'[<<t, e>>] = n + 1 /\ got'[<<t, e>>] = got[<<t, e>>] /\ InFlight(t, e)' = 1
      BY <1>1, <1>5, <1>6
    <3>2. Kept(t, e)' = taken'[<<t, e>>] - got'[<<t, e>>] - InFlight(t, e)'
      BY DEF Kept
    <3>3. n \in Int /\ got[<<t, e>>] \in Int
      BY <1>2
    <3> QED BY <3>1, <3>2, <3>3
  <2> QED BY <1>7, <2>1, <2>2
<1> QED BY <1>1, <1>3, <1>5, <1>6, <1>7, <1>8, OwnLoop

(* io.Copy has written the byte it took.                                   *)
LEMMA CopyWriteStep ==
  ASSUME IInv, NEW t \in Tunnels, NEW e \in Ends, CopyWrite(t, e)
  PROVE  IInv'
<1> DEFINE n == got[<<t, e>>]
<1>1. /\ loop[<<t, e>>] = "write" /\ got' = [got EXCEPT ![<<t, e>>] = n + 1]
      /\ loop' = [loop EXCEPT ![<<t, e>>] = "read"] /\ taken' = taken
      /\ UNCHANGED <<stop, open, serve, listen, deaf, kind, pc, conn, early, ahead, sent>>
  BY DEF CopyWrite, srvVars
<1>2. /\ n \in Nat /\ taken[<<t, e>>] \in Nat /\ <<t, e>> \in Tunnels \X Ends
  BY Counted DEF IInv
<1>3. taken[<<t, e>>] <= sent[<<t, e>>] /\ n + InFlight(t, e) <= taken[<<t, e>>]
  BY DEF IInv, TunnelInv, LoopInv
<1>4. InFlight(t, e) = 1 /\ InFlight(t, e)' = 0
  BY <1>1, <1>2 DEF IInv, Types, InFlight
<1> HIDE DEF n
<1>5. /\ got' \in [Tunnels \X Ends -> Nat] /\ got'[<<t, e>>] = n + 1
      /\ loop' \in [Tunnels \X Ends -> {"idle", "read", "write", "ended"}]
      /\ taken' \in [Tunnels \X Ends -> 0..Bytes]
      /\ \A p \in Tunnels \X Ends : p # <<t, e>> =>
           loop'[p] = loop[p] /\ taken'[p] = taken[p] /\ got'[p] = got[p]
  BY <1>1, <1>2 DEF IInv, Types
<1>6. n + 1 + 0 <= taken[<<t, e>>] /\ taken[<<t, e>>] - (n + 1) - 0 = taken[<<t, e>>] - n - 1
  BY <1>2, <1>3, <1>4
<1>7. Kept(t, e)' = Kept(t, e)
  BY <1>1, <1>4, <1>5, <1>6 DEF Kept, n
<1> QED BY <1>1, <1>3, <1>4, <1>5, <1>6, <1>7, OwnLoop

(* io.Copy ends, or a write fails: only when an end has gone.              *)
LEMMA CopyFailsStep ==
  ASSUME IInv, NEW t \in Tunnels, NEW e \in Ends, CopyEnds(t, e) \/ WriteFails(t, e)
  PROVE  IInv'
<1>1. PICK l \in {"ended", "read"} : loop' = [loop EXCEPT ![<<t, e>>] = l]
  BY DEF CopyEnds, WriteFails
<1>2. /\ loop[<<t, e>>] # "idle" /\ taken' = taken /\ got' = got
      /\ UNCHANGED <<stop, open, serve, listen, deaf, kind, pc, conn, early, ahead, sent>>
  BY DEF CopyEnds, WriteFails, srvVars, byteVars
<1>3. \E q \in Ends : conn[<<t, q>>] # "open"
  BY DEF CopyEnds, WriteFails, Other, Ends
<1>4. /\ got[<<t, e>>] \in Nat /\ taken[<<t, e>>] \in Nat /\ <<t, e>> \in Tunnels \X Ends
      /\ InFlight(t, e) \in {0, 1}
  BY Counted DEF IInv
<1>5. taken[<<t, e>>] <= sent[<<t, e>>] /\ got[<<t, e>>] + InFlight(t, e) <= taken[<<t, e>>]
  BY DEF IInv, TunnelInv, LoopInv
<1>6. InFlight(t, e)' = 0
  BY <1>1, <1>4 DEF IInv, Types, InFlight
<1>7. got[<<t, e>>] + 0 <= taken[<<t, e>>]
  BY <1>4, <1>5
<1>8. /\ loop' \in [Tunnels \X Ends -> {"idle", "read", "write", "ended"}]
      /\ got' \in [Tunnels \X Ends -> Nat] /\ taken' \in [Tunnels \X Ends -> 0..Bytes]
      /\ \A p \in Tunnels \X Ends : p # <<t, e>> =>
           loop'[p] = loop[p] /\ taken'[p] = taken[p] /\ got'[p] = got[p]
  BY <1>1, <1>2, <1>4 DEF IInv, Types
<1> QED BY <1>2, <1>3, <1>5, <1>6, <1>7, <1>8, OwnLoop
-----------------------------------------------------------------------------
LEMMA Inductive == IInv /\ [Next]_vars => IInv'
<1> SUFFICES ASSUME IInv, [Next]_vars PROVE IInv'
  OBVIOUS
<1>1. CASE UNCHANGED vars
  <2>1. /\ UNCHANGED <<stop, open, serve, listen, deaf, kind, pc, conn>>
        /\ UNCHANGED <<early, ahead, sent, loop, taken, got>>
    BY <1>1 DEF vars
  <2>2. Types'
    BY <2>1 DEF IInv, Types
  <2>3. ASSUME NEW t \in Tunnels PROVE TunnelInv(t)'
    BY <2>1, HandOver DEF Stays
  <2> QED BY <2>2, <2>3 DEF IInv
<1>2. CASE Serve \/ ListenStarts \/ Stop
  BY <1>2, ServerStep
<1>3. ASSUME NEW t \in Tunnels, Connect(t) \/ Handler(t) \/ ReadAhead(t) PROVE IInv'
  BY <1>3, ConnectStep, HandlerStep, HijackStep, ReadAheadStep DEF Handler
<1>4. ASSUME NEW t \in Tunnels, NEW e \in Ends,
             Copy(t, e) \/ Send(t, e) \/ StopsReading(t, e) \/ Leave(t, e)
      PROVE  IInv'
  BY <1>4, CopyReadStep, CopyWriteStep, CopyFailsStep, SendStep, DeafStep, HandlerStep DEF Copy
<1> QED BY <1>1, <1>2, <1>3, <1>4 DEF Next

LEMMA AlwaysIInv == Spec => []IInv
<1>1. Init => IInv
  BY Initial
<1>2. IInv /\ [Next]_vars => IInv'
  BY Inductive
<1> QED BY <1>1, <1>2, PTL DEF Spec

(* The state keeps its types, and whenever the servers are stopped and ends*)
(* leave, no end has been given a byte that was not read from the other, nor*)
(* has net/http or a loop read one that was not sent.                      *)
THEOREM TypeCorrect == Spec => []TypeOK
<1>1. IInv => TypeOK
  <2> SUFFICES ASSUME IInv, NEW t \in Tunnels, NEW e \in Ends
               PROVE  got[<<t, e>>] <= taken[<<t, e>>] /\ taken[<<t, e>>] <= sent[<<t, e>>]
    BY DEF IInv, TypeOK
  <2>1. /\ got[<<t, e>>] + InFlight(t, e) <= taken[<<t, e>>]
        /\ taken[<<t, e>>] <= sent[<<t, e>>]
    BY DEF IInv, TunnelInv, LoopInv
  <2>2. /\ taken[<<t, e>>] \in Nat /\ got[<<t, e>>] \in Nat /\ InFlight(t, e) \in {0, 1}
    BY Counted DEF IInv
  <2> QED BY <2>1, <2>2
<1> QED BY <1>1, AlwaysIInv, PTL

(* With any number of tunnels and bytes, and whenever Stop is called: while*)
(* both ends of a tunnel stay, only what net/http's reader had when Hijack *)
(* was called does not reach the other end.                                *)
THEOREM OnlyAheadIsLostHolds == Spec => []OnlyAheadIsLost
<1>1. IInv => OnlyAheadIsLost
  <2> SUFFICES ASSUME IInv, NEW t \in Tunnels, NEW e \in Ends, pc[t] = "copy",
                      \A q \in Ends : conn[<<t, q>>] = "open"
               PROVE  taken[<<t, e>>] = got[<<t, e>>] + (IF loop[<<t, e>>] = "write" THEN 1 ELSE 0)
                                          + (IF e = "client" THEN ReadAheadOf(t) ELSE 0)
    BY DEF OnlyAheadIsLost
  <2>1. Kept(t, "server") = 0 /\ Kept(t, "client") = ReadAheadOf(t)
    BY DEF IInv, TunnelInv, AccountInv
  <2>2. /\ taken[<<t, e>>] \in Nat /\ got[<<t, e>>] \in Nat /\ ReadAheadOf(t) \in Nat
        /\ InFlight(t, e) \in {0, 1}
    BY Counted DEF IInv
  <2>3. taken[<<t, e>>] - got[<<t, e>>] - InFlight(t, e) = IF e = "client" THEN ReadAheadOf(t) ELSE 0
    BY <2>1 DEF Kept, Ends
  <2>4. taken[<<t, e>>] = got[<<t, e>>] + InFlight(t, e) + (IF e = "client" THEN ReadAheadOf(t) ELSE 0)
    BY <2>2, <2>3
  <2> QED BY <2>4 DEF InFlight
<1> QED BY <1>1, AlwaysIInv, PTL
=============================================================================
