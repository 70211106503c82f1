------------------------------- MODULE Relay --------------------------------
(***************************************************************************)
(* One long-lived exchange, from the moment its record has been offered:   *)
(* handleSSE, whose loop passes lines from the server to the client, or    *)
(* handleWebSocket, where two goroutines in proxyWebSocket pass messages,  *)
(* one each way, until the handler has waited for both. A copy of all that *)
(* is passed goes into a channel of the record, with room for Cap, from    *)
(* which nothing in the program receives (Api.event drops the record). A   *)
(* line is written and then recorded, a message recorded and then written. *)
(*                                                                         *)
(* Lines and messages are counted: neither loop reorders or changes them.  *)
(***************************************************************************)
EXTENDS Integers

CONSTANTS Cap,      \* capacity of ReqBody and RespBody: 1024
          Messages  \* bound on the messages or lines a peer sends

ASSUME CapAssumption == Cap \in Nat \ {0}
ASSUME MessagesAssumption == Messages \in Nat

Peers == {"client", "server"}
Other(e) == IF e = "client" THEN "server" ELSE "client"

VARIABLES
  kind,      \* "sse" or "websocket"
  conn,      \* conn[e]: "open", "closed" by peer e in good order, "broken"
  sent,      \* sent[e]: messages peer e has sent
  long,      \* lines the server has sent that exceed the scanner's limit
  pc,        \* pc[e]: where the loop that reads from e is
  taken,     \* taken[e]: messages it has read
  recorded,  \* recorded[e]: messages it has put into the record
  passed,    \* passed[e]: messages the other peer has received
  told,      \* has an SSE client been sent "event: error"
  handler    \* "running", or "returned"

loopVars == <<taken, recorded, passed, told>>
vars == <<kind, conn, sent, long, pc, taken, recorded, passed, told, handler>>

(* The peers whose messages are passed on. *)
Sources == IF kind = "sse" THEN {"server"} ELSE Peers

AfterRead == IF kind = "sse" THEN "write" ELSE "record"
AfterRecord == IF kind = "sse" THEN "read" ELSE "write"
AfterWrite == IF kind = "sse" THEN "record" ELSE "read"

Init ==
  /\ kind \in {"sse", "websocket"}
  /\ conn = [e \in Peers |-> "open"]
  /\ sent = [e \in Peers |-> 0]
  /\ long = {}
  /\ pc = [e \in Peers |-> "read"]
  /\ taken = [e \in Peers |-> 0]
  /\ recorded = [e \in Peers |-> 0]
  /\ passed = [e \in Peers |-> 0]
  /\ told = FALSE
  /\ handler = "running"

Go(e, place) == pc' = [pc EXCEPT ![e] = place]

(* A websocket's close frame has been read, and so answered: nothing more  *)
(* can be written to that connection.                                      *)
CloseTaken(e) == kind = "websocket" /\ conn[e] = "closed" /\ pc[e] = "ended"

(* The loop waits for room in a record nobody reads.                       *)
Full(e) == e \in Sources /\ pc[e] = "record" /\ recorded[e] = Cap
-----------------------------------------------------------------------------
(* Faulty variants, used only to confirm that the properties notice them.  *)

\* The end of the stream is not noticed.
ReadOn(e) ==
  /\ pc[e] = "read" /\ conn[e] = "closed" /\ taken[e] = sent[e]
  /\ UNCHANGED vars

\* scanner.Err() is not looked at.
FailSilently(e) ==
  /\ pc[e] = "read"
  /\ conn[e] = "broken" \/ taken[e] + 1 \in long
  /\ Go(e, "ended")
  /\ UNCHANGED <<kind, conn, sent, long, loopVars, handler>>

\* What does not fit is left out of the record.
RecordIfRoom(e) ==
  /\ pc[e] = "record"
  /\ recorded' = [recorded EXCEPT ![e] = IF @ < Cap THEN @ + 1 ELSE @]
  /\ Go(e, AfterRecord)
  /\ UNCHANGED <<kind, conn, sent, long, taken, passed, told, handler>>

\* The record takes more than its capacity.
RecordBeyond(e) ==
  /\ pc[e] = "record"
  /\ recorded' = [recorded EXCEPT ![e] = @ + 1]
  /\ Go(e, AfterRecord)
  /\ UNCHANGED <<kind, conn, sent, long, taken, passed, told, handler>>

\* Some messages, say control messages, are not passed on.
WriteOrNot(e) ==
  /\ pc[e] = "write" /\ ~CloseTaken(Other(e))
  /\ \/ passed' = [passed EXCEPT ![e] = IF conn[Other(e)] = "open" THEN @ + 1 ELSE @]
     \/ passed' = passed
  /\ Go(e, AfterWrite)
  /\ UNCHANGED <<kind, conn, sent, long, taken, recorded, told, handler>>
-----------------------------------------------------------------------------
(* The peers. What they do after the handler has returned is nothing to it.*)

PeerSends(e, isLong) ==
  /\ e \in Sources /\ conn[e] = "open" /\ handler = "running" /\ sent[e] < Messages
  /\ isLong => kind = "sse"
  /\ sent' = [sent EXCEPT ![e] = @ + 1]
  /\ long' = IF isLong THEN long \cup {sent[e] + 1} ELSE long
  /\ UNCHANGED <<kind, conn, pc, loopVars, handler>>

\* A close frame, or the end of the body, after all that was sent; or the
\* connection is lost, which is the only way an SSE client leaves.
PeerLeaves(e, how) ==
  /\ conn[e] = "open" /\ handler = "running"
  /\ how = "broken" \/ e \in Sources
  /\ conn' = [conn EXCEPT ![e] = how]
  /\ UNCHANGED <<kind, sent, long, pc, loopVars, handler>>

\* scanner.Scan(), src.ReadMessage()
Read(e) ==
  /\ pc[e] = "read" /\ taken[e] < sent[e] /\ taken[e] + 1 \notin long
  /\ taken' = [taken EXCEPT ![e] = @ + 1]
  /\ Go(e, AfterRead)
  /\ UNCHANGED <<kind, conn, sent, long, recorded, passed, told, handler>>

\* The end of the body, the close frame.
ReadEnds(e) ==
  /\ pc[e] = "read" /\ conn[e] = "closed" /\ taken[e] = sent[e]
  /\ Go(e, "ended")
  /\ UNCHANGED <<kind, conn, sent, long, loopVars, handler>>

\* A connection lost, perhaps with messages in it, or a line too long. An
\* SSE client is told.
ReadFails(e) ==
  /\ pc[e] = "read"
  /\ conn[e] = "broken" \/ taken[e] + 1 \in long
  /\ told' = (kind = "sse")
  /\ Go(e, "ended")
  /\ UNCHANGED <<kind, conn, sent, long, taken, recorded, passed, handler>>

\* ch <- data, which waits for room.
Record(e) ==
  /\ pc[e] = "record" /\ recorded[e] < Cap
  /\ recorded' = [recorded EXCEPT ![e] = @ + 1]
  /\ Go(e, AfterRecord)
  /\ UNCHANGED <<kind, conn, sent, long, taken, passed, told, handler>>

\* w.Write and Flush, dst.WriteMessage. What is written to a peer that has
\* gone vanishes until the connection notices.
Write(e) ==
  /\ pc[e] = "write" /\ ~CloseTaken(Other(e))
  /\ passed' = [passed EXCEPT ![e] = IF conn[Other(e)] = "open" THEN @ + 1 ELSE @]
  /\ Go(e, AfterWrite)
  /\ UNCHANGED <<kind, conn, sent, long, taken, recorded, told, handler>>

WriteFails(e) ==
  /\ pc[e] = "write" /\ conn[Other(e)] # "open"
  /\ Go(e, "ended")
  /\ UNCHANGED <<kind, conn, sent, long, loopVars, handler>>

Loop(e) ==
  \/ Read(e) \/ ReadEnds(e) \/ ReadFails(e) \/ Record(e) \/ Write(e) \/ WriteFails(e)

\* The loop of handleSSE, or g.Wait(), is over; the deferred calls close the
\* record's channels and the connections.
Return ==
  /\ handler = "running" /\ \A e \in Sources : pc[e] = "ended"
  /\ handler' = "returned"
  /\ UNCHANGED <<kind, conn, sent, long, pc, loopVars>>

Next ==
  \/ \E e \in Peers, isLong \in BOOLEAN : PeerSends(e, isLong)
  \/ \E e \in Peers, how \in {"closed", "broken"} : PeerLeaves(e, how)
  \/ \E e \in Sources : Loop(e)
  \/ Return

Spec == Init /\ [][Next]_vars

(* Each goroutine runs when it can. Peers send and leave as they like, but *)
(* one that is there takes what is written to it.                          *)
FairSpec ==
  Spec /\ WF_vars(Return) /\ \A e \in Peers : WF_vars(e \in Sources /\ Loop(e))
-----------------------------------------------------------------------------
TypeOK ==
  /\ kind \in {"sse", "websocket"}
  /\ conn \in [Peers -> {"open", "closed", "broken"}]
  /\ sent \in [Peers -> 0..Messages]
  /\ long \subseteq 1..Messages
  /\ pc \in [Peers -> {"read", "record", "write", "ended"}]
  /\ taken \in [Peers -> 0..Messages]
  /\ recorded \in [Peers -> 0..Cap]
  /\ passed \in [Peers -> 0..Messages]
  /\ told \in BOOLEAN
  /\ handler \in {"running", "returned"}

(* When a loop has ended and its reader's peer is still there, that peer   *)
(* has all that was ever sent to it, or the sender's connection broke, or  *)
(* the peer has been told of an error: a good ending loses nothing, and an *)
(* SSE client is not left in the dark about a bad one.                     *)
LossIsTold ==
  \A e \in Sources :
    pc[e] = "ended" /\ conn[Other(e)] = "open" =>
      \/ passed[e] = sent[e]
      \/ told
      \/ kind = "websocket" /\ conn[e] = "broken"

(* When an exchange is over, its record holds what the peer that stayed    *)
(* has received, no more and no less.                                      *)
RecordIsComplete ==
  \A e \in Sources :
    handler = "returned" /\ conn[Other(e)] = "open" => recorded[e] = passed[e]

(* A message reaches a peer that stays, unless the sender's side or an     *)
(* overlong line ends the exchange, or the record is full.                 *)
MessagesArrive ==
  \A e \in Peers, n \in 1..Messages :
    sent[e] >= n ~> \/ passed[e] >= n \/ told
                    \/ \E q \in Peers : conn[q] = "broken"
                    \/ conn[Other(e)] # "open"
                    \/ Full(e)

(* When all whose messages are read have left, the handler returns, unless *)
(* a record is full. If only one websocket peer has closed, the other's    *)
(* loop learns of it no sooner than with the next message: that one ends   *)
(* the exchange.                                                           *)
HandlerReturns ==
  /\ (\A e \in Sources : conn[e] # "open")
        ~> handler = "returned" \/ \E e \in Sources : Full(e)
  /\ \A e \in Peers :
       CloseTaken(Other(e)) /\ taken[e] < sent[e] ~> handler = "returned" \/ Full(e)

(* proxy_websocket.go:162, "forward websocket messages", proxy_sse.go:114, *)
(* "read events from the server and forward them line by line to the       *)
(* client": what is sent reaches a peer that stays, errors aside.          *)
MessagesForwarded ==
  \A e \in Peers, n \in 1..Messages :
    sent[e] >= n ~> \/ passed[e] >= n \/ told
                    \/ \E q \in Peers : conn[q] = "broken"
                    \/ conn[Other(e)] # "open"
=============================================================================
