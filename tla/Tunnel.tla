------------------------------- MODULE Tunnel -------------------------------
(***************************************************************************)
(* CONNECT tunnels, from the request to the end of their copy loops, and   *)
(* the start and stop of the two servers. handleHttps makes a net.Pipe and *)
(* hands one end of it, through the unbuffered channel connChan, to the    *)
(* accept loop of httpsSrv; forward (an excluded host) dials the host. Then*)
(* both take the client's connection over from net/http and copy bytes     *)
(* each way until both directions have ended.                              *)
(*                                                                         *)
(* The two ends of a tunnel are its "client" and its "server": httpsSrv at *)
(* the other end of the pipe, or the host. A direction is named by the end *)
(* it reads from. Bytes are counted: neither loop reorders or changes them.*)
(***************************************************************************)
EXTENDS Integers

CONSTANTS Tunnels,     \* one per CONNECT
          Excludable,  \* bound: the tunnels whose host may be excluded
          Talkers,     \* bound: the tunnels whose ends send bytes
          Bytes        \* bound on the bytes sent each way

ASSUME BoundsAssumption ==
  Excludable \subseteq Tunnels /\ Talkers \subseteq Tunnels /\ Bytes \in Nat

Ends == {"client", "server"}
Other(e) == IF e = "client" THEN "server" ELSE "client"

VARIABLES
  stop,    \* Stop: "running", "closing" httpsSrv, then "https" and "http" closed,
           \* then "stopped"
  open,    \* is connChan open
  serve,   \* the goroutine of httpsSrv: "start", "accept", "returned"
  listen,  \* the goroutine of httpSrv: "start", "listening", "returned"
  deaf,    \* <<t, e>>: ends that have stopped reading for good
  kind,    \* kind[t]: "pipe" (handleHttps) or "host" (forward)
  pc,      \* pc[t]: where its handler is
  conn,    \* conn[<<t, e>>]: the connection to end e
  early,   \* early[t]: bytes net/http has read together with the request
  ahead,   \* ahead[t]: has it read a byte more since
  sent,    \* sent[<<t, e>>]: bytes end e has written
  loop,    \* loop[<<t, e>>]: where the loop that reads from e is
  taken,   \* taken[<<t, e>>]: bytes read from e
  got      \* got[<<t, e>>]: bytes from e that the other end has

srvVars == <<stop, open, serve, listen>>
byteVars == <<sent, taken, got>>
vars == <<stop, open, serve, listen, deaf, kind, pc, conn, early, ahead,
          sent, loop, taken, got>>

Piped(t, e) == kind[t] = "pipe" /\ e = "server"

(* The request has been read and net/http still has the connection.        *)
Held(t) == pc[t] \in {"offer", "dial", "flush", "abort"}

Init ==
  /\ stop = "running" /\ open = TRUE /\ serve = "start" /\ listen = "start"
  /\ deaf = {}
  /\ kind \in [Tunnels -> {"pipe", "host"}]
  /\ \A t \in Tunnels \ Excludable : kind[t] = "pipe"
  /\ pc = [t \in Tunnels |-> "new"]
  /\ conn = [p \in Tunnels \X Ends |-> IF p[2] = "client" THEN "open" ELSE "none"]
  /\ early = [t \in Tunnels |-> 0]
  /\ ahead = [t \in Tunnels |-> FALSE]
  /\ sent = [p \in Tunnels \X Ends |-> 0]
  /\ loop = [p \in Tunnels \X Ends |-> "idle"]
  /\ taken = [p \in Tunnels \X Ends |-> 0]
  /\ got = [p \in Tunnels \X Ends |-> 0]

Alive == stop # "stopped"
Go(t, place) == pc' = [pc EXCEPT ![t] = place]
-----------------------------------------------------------------------------
(* Faulty variants, used only to confirm that the properties notice them.  *)

\* Listener.Close does not close connChan.
CloseHttpsOnly ==
  /\ stop = "running"
  /\ stop' = "closing"
  /\ UNCHANGED <<open, serve, listen, deaf, kind, pc, conn, early, ahead, loop, byteVars>>

\* Both loops write to the host.
CopyWriteUp(t, e) ==
  /\ Alive /\ loop[<<t, e>>] = "write" /\ conn[<<t, Other(e)>>] = "open"
  /\ got' = [got EXCEPT ![<<t, "client">>] = @ + 1]
  /\ loop' = [loop EXCEPT ![<<t, e>>] = "read"]
  /\ UNCHANGED <<srvVars, deaf, kind, pc, conn, early, ahead, sent, taken>>

\* A failed write is not noticed as long as the source has more.
WriteFailsOn(t, e) ==
  /\ Alive /\ loop[<<t, e>>] = "write" /\ conn[<<t, Other(e)>>] = "closed"
  /\ UNCHANGED vars

\* The reader does not look whether there is a byte.
ReadAheadBlind(t) ==
  /\ Alive /\ Held(t) /\ ~ahead[t] /\ sent[<<t, "client">>] > 0
  /\ ahead' = [ahead EXCEPT ![t] = TRUE]
  /\ taken' = [taken EXCEPT ![<<t, "client">>] = @ + 1]
  /\ UNCHANGED <<srvVars, deaf, kind, pc, conn, early, sent, loop, got>>

\* Bytes that came with the connection are passed on, the rest is not read.
CopyReadOnce(t, e) ==
  /\ Alive /\ loop[<<t, e>>] = "read" /\ taken[<<t, e>>] < sent[<<t, e>>]
  /\ taken' = [taken EXCEPT ![<<t, e>>] = @ + 1]
  /\ loop' = [loop EXCEPT ![<<t, e>>] = "ended"]
  /\ UNCHANGED <<srvVars, deaf, kind, pc, conn, early, ahead, sent, got>>
-----------------------------------------------------------------------------
(* Start: the goroutines of the two servers.                               *)

\* ServeTLS: a server that is shut down already closes its listener.
ServeStarts ==
  /\ Alive /\ serve = "start"
  /\ serve' = IF stop = "running" THEN "accept" ELSE "returned"
  /\ open' = (stop = "running")
  /\ UNCHANGED <<stop, listen, deaf, kind, pc, conn, early, ahead, loop, byteVars>>

\* connChan's sender and its receiver meet: the server notes the pipe, serves
\* it in a goroutine of its own, and accepts the next.
Accept(t) ==
  /\ Alive /\ serve = "accept" /\ pc[t] = "offer" /\ open
  /\ conn' = [conn EXCEPT ![<<t, "server">>] = "open"]
  /\ Go(t, "flush")
  /\ UNCHANGED <<srvVars, deaf, kind, early, ahead, loop, byteVars>>

\* Accept finds the channel closed.
AcceptFails ==
  /\ Alive /\ serve = "accept" /\ ~open
  /\ serve' = "returned"
  /\ UNCHANGED <<stop, open, listen, deaf, kind, pc, conn, early, ahead, loop, byteVars>>

\* ListenAndServe, whose error is dropped: the port may be taken.
ListenStarts ==
  /\ Alive /\ listen = "start"
  /\ \/ listen' = "listening" /\ stop # "http"
     \/ listen' = "returned"
  /\ UNCHANGED <<stop, open, serve, deaf, kind, pc, conn, early, ahead, loop, byteVars>>

-----------------------------------------------------------------------------
(* Stop.                                                                   *)

\* httpsSrv.Close, first half: no more is served, and the listener is closed
\* if it was being served.
CloseHttps ==
  /\ stop = "running"
  /\ stop' = "closing"
  /\ open' = (serve = "start")
  /\ UNCHANGED <<serve, listen, deaf, kind, pc, conn, early, ahead, loop, byteVars>>

\* Second half: it waits until no Serve is running, then closes the server's
\* connections, the other ends of the pipes.
CloseHttpsConns ==
  /\ stop = "closing" /\ serve \in {"start", "returned"}
  /\ stop' = "https"
  /\ conn' = [p \in Tunnels \X Ends |->
                IF Piped(p[1], p[2]) /\ conn[p] = "open" THEN "closed" ELSE conn[p]]
  /\ UNCHANGED <<open, serve, listen, deaf, kind, pc, early, ahead, loop, byteVars>>

\* httpSrv.Close: its listener, and the connections it still has, so none that
\* was taken over.
CloseHttp ==
  /\ stop = "https"
  /\ stop' = "http"
  /\ listen' = IF listen = "listening" THEN "returned" ELSE listen
  /\ conn' = [p \in Tunnels \X Ends |->
                IF p[2] = "client" /\ Held(p[1]) THEN "closed" ELSE conn[p]]
  /\ UNCHANGED <<open, serve, deaf, kind, pc, early, ahead, loop, byteVars>>

\* p.wg.Wait() returns, and main with it.
Stopped ==
  /\ stop = "http" /\ serve = "returned" /\ listen = "returned"
  /\ stop' = "stopped"
  /\ UNCHANGED <<open, serve, listen, deaf, kind, pc, conn, early, ahead, loop, byteVars>>
-----------------------------------------------------------------------------
(* A handler.                                                              *)

\* What the client sends right behind its request may be read with it.
Connect(t) ==
  /\ Alive /\ pc[t] = "new" /\ listen = "listening"
  /\ Go(t, IF kind[t] = "pipe" THEN "offer" ELSE "dial")
  /\ \E n \in IF t \in Talkers THEN 0..Bytes ELSE {0} :
       /\ early' = [early EXCEPT ![t] = n]
       /\ sent' = [sent EXCEPT ![<<t, "client">>] = n]
       /\ taken' = [taken EXCEPT ![<<t, "client">>] = n]
  /\ UNCHANGED <<srvVars, deaf, kind, conn, ahead, loop, got>>

\* A send on a closed channel panics; net/http closes the connection.
OfferFails(t) ==
  /\ Alive /\ pc[t] = "offer" /\ ~open
  /\ conn' = [conn EXCEPT ![<<t, "client">>] = "closed"]
  /\ Go(t, "ended")
  /\ UNCHANGED <<srvVars, deaf, kind, early, ahead, loop, byteVars>>

Dial(t) ==
  /\ Alive /\ pc[t] = "dial"
  /\ conn' = [conn EXCEPT ![<<t, "server">>] = "open"]
  /\ Go(t, "flush")
  /\ UNCHANGED <<srvVars, deaf, kind, early, ahead, loop, byteVars>>

\* An error, or 30 seconds: the client is answered 503.
DialFails(t) ==
  /\ Alive /\ pc[t] = "dial"
  /\ Go(t, "ended")
  /\ UNCHANGED <<srvVars, deaf, kind, conn, early, ahead, loop, byteVars>>

\* Hijack, first half: the answer is written out.
Flush(t) ==
  /\ Alive /\ pc[t] = "flush"
  /\ Go(t, "abort")
  /\ UNCHANGED <<srvVars, deaf, kind, conn, early, ahead, loop, byteVars>>

\* Second half: net/http stops reading. The reader it returns with what it
\* has read is dropped, and the loops start.
Hijack(t) ==
  /\ Alive /\ pc[t] = "abort"
  /\ loop' = [p \in Tunnels \X Ends |-> IF p[1] = t THEN "read" ELSE loop[p]]
  /\ Go(t, "copy")
  /\ UNCHANGED <<srvVars, deaf, kind, conn, early, ahead, byteVars>>

\* g.Wait() returns; the deferred calls close both connections.
Return(t) ==
  /\ Alive /\ pc[t] = "copy" /\ \A e \in Ends : loop[<<t, e>>] = "ended"
  /\ conn' = [p \in Tunnels \X Ends |-> IF p[1] = t THEN "closed" ELSE conn[p]]
  /\ Go(t, "ended")
  /\ UNCHANGED <<srvVars, deaf, kind, early, ahead, loop, byteVars>>

Handler(t) ==
  \/ OfferFails(t) \/ Dial(t) \/ DialFails(t) \/ Flush(t) \/ Hijack(t) \/ Return(t)
-----------------------------------------------------------------------------
(* io.Copy.                                                                *)

\* A pipe holds nothing: what its writer offers is gone when it closes.
CopyRead(t, e) ==
  /\ Alive /\ loop[<<t, e>>] = "read" /\ taken[<<t, e>>] < sent[<<t, e>>]
  /\ Piped(t, e) => conn[<<t, e>>] = "open"
  /\ taken' = [taken EXCEPT ![<<t, e>>] = @ + 1]
  /\ loop' = [loop EXCEPT ![<<t, e>>] = "write"]
  /\ UNCHANGED <<srvVars, deaf, kind, pc, conn, early, ahead, sent, got>>

\* The end of the stream, or a reset that loses what was on its way.
CopyEnds(t, e) ==
  /\ Alive /\ loop[<<t, e>>] = "read" /\ conn[<<t, e>>] = "closed"
  /\ loop' = [loop EXCEPT ![<<t, e>>] = "ended"]
  /\ UNCHANGED <<srvVars, deaf, kind, pc, conn, early, ahead, byteVars>>

\* Into a pipe when its reader takes it; a socket may have room for what
\* nobody will read.
CopyWrite(t, e) ==
  /\ Alive /\ loop[<<t, e>>] = "write" /\ conn[<<t, Other(e)>>] = "open"
  /\ Piped(t, Other(e)) => <<t, Other(e)>> \notin deaf
  /\ got' = [got EXCEPT ![<<t, e>>] = @ + 1]
  /\ loop' = [loop EXCEPT ![<<t, e>>] = "read"]
  /\ UNCHANGED <<srvVars, deaf, kind, pc, conn, early, ahead, sent, taken>>

\* A write to an end that has gone fails; a socket may take it and lose it.
WriteFails(t, e) ==
  /\ Alive /\ loop[<<t, e>>] = "write" /\ conn[<<t, Other(e)>>] = "closed"
  /\ \/ loop' = [loop EXCEPT ![<<t, e>>] = "ended"]
     \/ ~Piped(t, Other(e)) /\ loop' = [loop EXCEPT ![<<t, e>>] = "read"]
  /\ UNCHANGED <<srvVars, deaf, kind, pc, conn, early, ahead, byteVars>>

(* A write with nobody to read it waits for the connection to end.         *)
AwaitsReader(t, e) ==
  loop[<<t, e>>] = "write" /\ conn[<<t, Other(e)>>] = "open" /\ <<t, Other(e)>> \in deaf

Copy(t, e) == CopyRead(t, e) \/ CopyEnds(t, e) \/ CopyWrite(t, e) \/ WriteFails(t, e)
-----------------------------------------------------------------------------
(* The ends of a tunnel, and net/http's reader of the client's connection. *)

\* A client may send before it is answered. The writer of a pipe waits until
\* what it has written is read.
Send(t, e) ==
  /\ Alive /\ conn[<<t, e>>] = "open" /\ pc[t] \notin {"new", "ended"}
  /\ t \in Talkers /\ sent[<<t, e>>] < Bytes
  /\ Piped(t, e) => sent[<<t, e>>] = taken[<<t, e>>]
  /\ sent' = [sent EXCEPT ![<<t, e>>] = @ + 1]
  /\ UNCHANGED <<srvVars, deaf, kind, pc, conn, early, ahead, loop, taken, got>>

\* httpsSrv reads no more of a connection while its handler waits for room in
\* messageChan, which nobody need ever make; other ends have reasons of their own.
\* (When it stopped makes no difference before there is something to read.)
StopsReading(t, e) ==
  /\ Alive /\ conn[<<t, e>>] = "open" /\ loop[<<t, Other(e)>>] = "write"
  /\ deaf' = deaf \cup {<<t, e>>}
  /\ UNCHANGED <<srvVars, kind, pc, conn, early, ahead, loop, byteVars>>

Leave(t, e) ==
  /\ Alive /\ conn[<<t, e>>] = "open" /\ pc[t] \notin {"new", "ended"}
  /\ Piped(t, e) => sent[<<t, e>>] = taken[<<t, e>>]
  /\ conn' = [conn EXCEPT ![<<t, e>>] = "closed"]
  /\ UNCHANGED <<srvVars, deaf, kind, pc, early, ahead, loop, byteVars>>

\* While a handler runs, net/http waits for one byte to see a client leave.
ReadAhead(t) ==
  /\ Alive /\ Held(t) /\ ~ahead[t] /\ taken[<<t, "client">>] < sent[<<t, "client">>]
  /\ ahead' = [ahead EXCEPT ![t] = TRUE]
  /\ taken' = [taken EXCEPT ![<<t, "client">>] = @ + 1]
  /\ UNCHANGED <<srvVars, deaf, kind, pc, conn, early, sent, loop, got>>
-----------------------------------------------------------------------------
Serve == ServeStarts \/ AcceptFails \/ \E t \in Tunnels : Accept(t)
Stop == CloseHttps \/ CloseHttpsConns \/ CloseHttp \/ Stopped

Next ==
  \/ Serve \/ ListenStarts \/ Stop
  \/ \E t \in Tunnels : Connect(t) \/ Handler(t) \/ ReadAhead(t)
  \/ \E t \in Tunnels, e \in Ends :
       Copy(t, e) \/ Send(t, e) \/ StopsReading(t, e) \/ Leave(t, e)

Spec == Init /\ [][Next]_vars

(* Goroutines run when they can; a dial ends within 30 seconds. Nobody has *)
(* to connect, send, read, leave or stop the program.                      *)
FairSpec ==
  /\ Spec
  /\ WF_vars(Serve) /\ WF_vars(ListenStarts)
  /\ WF_vars(CloseHttpsConns \/ CloseHttp \/ Stopped)
  /\ \A t \in Tunnels : WF_vars(Handler(t))
  /\ \A t \in Tunnels, e \in Ends : WF_vars(Copy(t, e) /\ ~AwaitsReader(t, e))
-----------------------------------------------------------------------------
Types ==
  /\ stop \in {"running", "closing", "https", "http", "stopped"}
  /\ open \in BOOLEAN
  /\ serve \in {"start", "accept", "returned"}
  /\ listen \in {"start", "listening", "returned"}
  /\ deaf \in SUBSET (Tunnels \X Ends)
  /\ kind \in [Tunnels -> {"pipe", "host"}]
  /\ pc \in [Tunnels -> {"new", "offer", "dial", "flush", "abort", "copy", "ended"}]
  /\ conn \in [Tunnels \X Ends -> {"none", "open", "closed"}]
  /\ early \in [Tunnels -> 0..Bytes]
  /\ ahead \in [Tunnels -> BOOLEAN]
  /\ sent \in [Tunnels \X Ends -> 0..Bytes]
  /\ loop \in [Tunnels \X Ends -> {"idle", "read", "write", "ended"}]
  /\ taken \in [Tunnels \X Ends -> 0..Bytes]
  /\ got \in [Tunnels \X Ends -> 0..Bytes]

(* Types, and nothing is read that was not sent, nor passed on that was    *)
(* not read.                                                               *)
TypeOK ==
  /\ Types
  /\ \A p \in Tunnels \X Ends : got[p] <= taken[p] /\ taken[p] <= sent[p]

(* As long as both ends of a tunnel are there, every byte taken from one   *)
(* has reached the other or is about to, but for those that net/http had   *)
(* read before it gave the connection up: its reader is dropped.           *)
ReadAheadOf(t) == early[t] + (IF ahead[t] THEN 1 ELSE 0)

OnlyAheadIsLost ==
  \A t \in Tunnels, e \in Ends :
    pc[t] = "copy" /\ (\A q \in Ends : conn[<<t, q>>] = "open") =>
      taken[<<t, e>>] = got[<<t, e>>] + (IF loop[<<t, e>>] = "write" THEN 1 ELSE 0)
                              + (IF e = "client" THEN ReadAheadOf(t) ELSE 0)

(* Stop returns, whatever the state of the accept loop and the tunnels.    *)
StopReturns == stop = "closing" ~> stop = "stopped"

(* No handler waits for ever to hand its connection over, not even one that*)
(* came too late for the accept loop, and a tunnel both of whose ends have *)
(* gone comes to an end. (If only one has gone nobody tells the other: each*)
(* loop ends with its own source.)                                         *)
HandlersEnd ==
  \A t \in Tunnels :
    /\ pc[t] = "offer" ~> pc[t] # "offer" \/ ~Alive
    /\ pc[t] # "new" /\ (\A e \in Ends : conn[<<t, e>>] = "closed") ~> pc[t] = "ended" \/ ~Alive

(* What an end sends reaches the other, as long as both stay, the other    *)
(* reads, and nothing was read ahead.                                      *)
BytesArrive ==
  \A t \in Talkers, e \in Ends, n \in 1..Bytes :
    sent[<<t, e>>] >= n ~> \/ got[<<t, e>>] >= n \/ (e = "client" /\ ReadAheadOf(t) > 0)
                       \/ <<t, Other(e)>> \in deaf
                       \/ \E q \in Ends : conn[<<t, q>>] = "closed"
                       \/ pc[t] = "ended" \/ ~Alive
=============================================================================
