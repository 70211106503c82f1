------------------------------ MODULE Capture ------------------------------
(***************************************************************************)
(* The capture pipeline of go-mitm: handler goroutines (proxy/) that put   *)
(* one record per exchange into the bounded channel messageChan, and the   *)
(* goroutines that serve GET /event (web/api/api.go), which take records   *)
(* out, number them and write them to a page. The record switch and the    *)
(* counter that makes a new page supersede the old one are plain fields of *)
(* Api that every goroutine reads and writes.                              *)
(*                                                                         *)
(* A Go channel with capacity Cap and its queue of parked senders are one  *)
(* FIFO: log holds every record ever offered, in the order of the sends,   *)
(* and the first `head` of them have been received. A send has completed   *)
(* once its record is among the first head + Cap.                          *)
(***************************************************************************)
EXTENDS Integers, Sequences

CONSTANTS Requests,   \* one per request served; a replay is a request too
          Streams,    \* one per GET /event served
          Cap,        \* capacity of messageChan (10240 in cmd/mitm-web/main.go)
          Served      \* the kinds of request that arrive

(* How ServeHTTP and the page's replay button dispose of a request.        *)
(* "direct": forwarded or replaced, which records nothing.                 *)
Kinds == {"http", "sse", "websocket", "replay", "direct"}
Recording == Kinds \ {"direct"}

ASSUME CapAssumption == Cap \in Nat \ {0}
ASSUME ServedAssumption == Served \subseteq Kinds

(* Kinds whose record precedes the first byte of the answer to the client. *)
RecordFirst == {"http", "sse"}

(* MessageTypeHTTP: the only records the page can show.                    *)
Showable == {"http", "replay"}

VARIABLES
  record,   \* Api.record
  client,   \* Api.client: the ticket of the newest event stream
  id,       \* Api.id: the last number given to a record
  log,      \* records offered to messageChan, in order (each named by its request)
  head,     \* how many of them have been received
  kind,     \* kind[r], "none" before r arrives
  rpc,      \* where the goroutine serving r is
  replied,  \* requests whose client has been given the answer
  spc,      \* where the goroutine serving event stream s is
  ticket,   \* ticket[s]: its local variable `client`
  hand,     \* hand[s]: the record it has received and not yet written, 0 if none
  num,      \* num[s]: the Id it put into that record
  shown,    \* shown[s]: what reached its page
  alive     \* alive[s]: is its page still connected

chanVars == <<log, head>>
reqVars == <<kind, rpc, replied>>
apiVars == <<record, client, id>>
strVars == <<spc, ticket, hand, num, shown, alive>>
vars == <<record, client, id, log, head, kind, rpc, replied,
          spc, ticket, hand, num, shown, alive>>

Logged(r) == \E n \in 1..Len(log) : log[n] = r
Buffered(r) == \E n \in 1..Len(log) : log[n] = r /\ n <= head + Cap
Running(s) == spc[s] \notin {"new", "closing", "closed"}

Init ==
  /\ record = TRUE
  /\ client = 0
  /\ id = 0
  /\ log = <<>>
  /\ head = 0
  /\ kind = [r \in Requests |-> "none"]
  /\ rpc = [r \in Requests |-> "new"]
  /\ replied = {}
  /\ spc = [s \in Streams |-> "new"]
  /\ ticket = [s \in Streams |-> 0]
  /\ hand = [s \in Streams |-> 0]
  /\ num = [s \in Streams |-> 0]
  /\ shown = [s \in Streams |-> <<>>]
  /\ alive = [s \in Streams |-> TRUE]
-----------------------------------------------------------------------------
(* Faulty variants of the actions below, used only to confirm that each    *)
(* property notices the fault named in its comment.                        *)

\* The reply is released before the record is offered (as Replay does).
AnswersBeforeRecording(r) ==
  /\ rpc[r] = "roundtrip"
  /\ rpc' = [rpc EXCEPT ![r] = IF kind[r] \in Recording THEN "recording" ELSE "done"]
  /\ replied' = replied \cup {r}
  /\ UNCHANGED <<kind, chanVars, apiVars, strVars>>

\* The record is read but stays in the channel.
PeekRecord(s) ==
  /\ spc[s] = "select" /\ head < Len(log)
  /\ hand' = [hand EXCEPT ![s] = head + 1]
  /\ spc' = [spc EXCEPT ![s] = "add"]
  /\ UNCHANGED <<head, log, apiVars, reqVars, ticket, num, shown, alive>>

\* Only records the page understands are taken; others stay in the channel.
ReceiveShowable(s) ==
  /\ spc[s] = "select" /\ head < Len(log)
  /\ kind[log[head + 1]] \in Showable
  /\ head' = head + 1
  /\ hand' = [hand EXCEPT ![s] = head + 1]
  /\ spc' = [spc EXCEPT ![s] = "add"]
  /\ UNCHANGED <<log, apiVars, reqVars, ticket, num, shown, alive>>

\* Both branches of the select are taken without looking at the channel.
ReceiveBlindly(s) ==
  /\ spc[s] = "select"
  /\ head' = head + 1
  /\ spc' = [spc EXCEPT ![s] = "check"]
  /\ UNCHANGED <<log, apiVars, reqVars, ticket, hand, num, shown, alive>>

\* The number is read but not advanced.
ForgetToCount(s) ==
  /\ spc[s] = "add"
  /\ spc' = [spc EXCEPT ![s] = "load"]
  /\ UNCHANGED <<id, record, client, chanVars, reqVars, ticket, hand, num, shown, alive>>

\* A page that has been superseded is not told.
IgnoreTicket(s) ==
  /\ spc[s] = "default"
  /\ spc' = [spc EXCEPT ![s] = "check"]
  /\ UNCHANGED <<apiVars, chanVars, reqVars, ticket, hand, num, shown, alive>>

\* The loop goes back to the select without looking at the switch.
LoopWithoutCheck(s) ==
  /\ spc[s] = "default"
  /\ spc' = [spc EXCEPT ![s] = IF ticket[s] # client THEN "closing" ELSE "select"]
  /\ UNCHANGED <<apiVars, chanVars, reqVars, ticket, hand, num, shown, alive>>
-----------------------------------------------------------------------------
(* Requests: one goroutine each.                                           *)

\* ServeHTTP picks a handler; the page's replay button calls Replay.
Arrive(r, k) ==
  /\ rpc[r] = "new"
  /\ kind' = [kind EXCEPT ![r] = k]
  /\ rpc' = [rpc EXCEPT ![r] = "roundtrip"]
  /\ UNCHANGED <<replied, chanVars, apiVars, strVars>>

\* The upstream server answered. A websocket client is upgraded, a replay's
\* /action call returns and a direct request is answered at once; for the
\* other kinds the answer waits for the record.
UpstreamAnswers(r) ==
  /\ rpc[r] = "roundtrip"
  /\ rpc' = [rpc EXCEPT ![r] = IF kind[r] \in Recording THEN "recording" ELSE "done"]
  /\ replied' = IF kind[r] \in RecordFirst THEN replied ELSE replied \cup {r}
  /\ UNCHANGED <<kind, chanVars, apiVars, strVars>>

\* No connection, a broken body, a failed upgrade or decoding: nothing is recorded.
UpstreamFails(r) ==
  /\ rpc[r] = "roundtrip"
  /\ rpc' = [rpc EXCEPT ![r] = "failed"]
  /\ UNCHANGED <<kind, replied, chanVars, apiVars, strVars>>

\* p.messageChan <- &Message{...}: the record takes its place in the FIFO.
Send(r) ==
  /\ rpc[r] = "recording"
  /\ log' = Append(log, r)
  /\ rpc' = [rpc EXCEPT ![r] = "sending"]
  /\ UNCHANGED <<head, kind, replied, apiVars, strVars>>

\* The send completes; the handler returns and the answer goes out.
Sent(r) ==
  /\ rpc[r] = "sending"
  /\ Buffered(r)
  /\ rpc' = [rpc EXCEPT ![r] = "done"]
  /\ replied' = replied \cup {r}
  /\ UNCHANGED <<kind, chanVars, apiVars, strVars>>
-----------------------------------------------------------------------------
(* The page and its event streams.                                         *)

\* GET /action?record=...
SetRecord(b) ==
  /\ record' = b
  /\ UNCHANGED <<client, id, chanVars, reqVars, strVars>>

\* atomic.AddUint64(&a.client, 1): the newest page supersedes the others.
Open(s) ==
  /\ spc[s] = "new"
  /\ client' = client + 1
  /\ ticket' = [ticket EXCEPT ![s] = client + 1]
  /\ spc' = [spc EXCEPT ![s] = "check"]
  /\ UNCHANGED <<record, id, chanVars, reqVars, hand, num, shown, alive>>

\* Top of the loop: if !a.record { break }.
CheckRecord(s) ==
  /\ spc[s] = "check"
  /\ spc' = [spc EXCEPT ![s] = IF record THEN "select" ELSE "closing"]
  /\ UNCHANGED <<apiVars, chanVars, reqVars, ticket, hand, num, shown, alive>>

\* case msg := <-a.messageChan: a record that is not MessageTypeHTTP is dropped.
Receive(s) ==
  /\ spc[s] = "select"
  /\ head < Len(log)
  /\ head' = head + 1
  /\ IF kind[log[head + 1]] \in Showable
       THEN /\ hand' = [hand EXCEPT ![s] = head + 1]
            /\ spc' = [spc EXCEPT ![s] = "add"]
       ELSE /\ spc' = [spc EXCEPT ![s] = "check"]
            /\ UNCHANGED hand
  /\ UNCHANGED <<log, apiVars, reqVars, ticket, num, shown, alive>>

\* default: nothing to receive.
Empty(s) ==
  /\ spc[s] = "select"
  /\ head = Len(log)
  /\ spc' = [spc EXCEPT ![s] = "default"]
  /\ UNCHANGED <<apiVars, chanVars, reqVars, ticket, hand, num, shown, alive>>

\* if client != atomic.LoadUint64(&a.client) { break out }
CheckTicket(s) ==
  /\ spc[s] = "default"
  /\ spc' = [spc EXCEPT ![s] = IF ticket[s] # client THEN "closing" ELSE "check"]
  /\ UNCHANGED <<apiVars, chanVars, reqVars, ticket, hand, num, shown, alive>>

\* atomic.AddUint64(&a.id, 1) ...
AddId(s) ==
  /\ spc[s] = "add"
  /\ id' = id + 1
  /\ spc' = [spc EXCEPT ![s] = "load"]
  /\ UNCHANGED <<record, client, chanVars, reqVars, ticket, hand, num, shown, alive>>

\* ... message.Id = atomic.LoadUint64(&a.id): a second, separate access.
LoadId(s) ==
  /\ spc[s] = "load"
  /\ num' = [num EXCEPT ![s] = id]
  /\ spc' = [spc EXCEPT ![s] = "write"]
  /\ UNCHANGED <<apiVars, chanVars, reqVars, ticket, hand, shown, alive>>

\* fmt.Fprintf and Flush to a page that is there.
Deliver(s) ==
  /\ spc[s] = "write"
  /\ alive[s]
  /\ shown' = [shown EXCEPT ![s] = Append(@, [no |-> hand[s], id |-> num[s]])]
  /\ hand' = [hand EXCEPT ![s] = 0]
  /\ num' = [num EXCEPT ![s] = 0]
  /\ spc' = [spc EXCEPT ![s] = "check"]
  /\ UNCHANGED <<apiVars, chanVars, reqVars, ticket, alive>>

\* The page has gone. The write may fail, which ends the loop, or end up in
\* a buffer, in which case the loop goes on; the record is lost either way.
WriteLost(s) ==
  /\ spc[s] = "write"
  /\ ~alive[s]
  /\ hand' = [hand EXCEPT ![s] = 0]
  /\ num' = [num EXCEPT ![s] = 0]
  /\ \E next \in {"closing", "check"} : spc' = [spc EXCEPT ![s] = next]
  /\ UNCHANGED <<apiVars, chanVars, reqVars, ticket, shown, alive>>

\* event: close
Close(s) ==
  /\ spc[s] = "closing"
  /\ spc' = [spc EXCEPT ![s] = "closed"]
  /\ UNCHANGED <<apiVars, chanVars, reqVars, ticket, hand, num, shown, alive>>

\* The tab is closed or the connection to it breaks.
Disconnect(s) ==
  /\ spc[s] \notin {"new", "closed"}
  /\ alive[s]
  /\ alive' = [alive EXCEPT ![s] = FALSE]
  /\ UNCHANGED <<apiVars, chanVars, reqVars, spc, ticket, hand, num, shown>>

RequestStep(r) ==
  \/ \E k \in Served : Arrive(r, k)
  \/ UpstreamAnswers(r)
  \/ UpstreamFails(r)
  \/ Send(r)
  \/ Sent(r)

StreamStep(s) ==
  \/ CheckRecord(s)
  \/ Receive(s)
  \/ Empty(s)
  \/ CheckTicket(s)
  \/ AddId(s)
  \/ LoadId(s)
  \/ Deliver(s)
  \/ WriteLost(s)
  \/ Close(s)

Next ==
  \/ \E r \in Requests : RequestStep(r)
  \/ \E s \in Streams : Open(s) \/ StreamStep(s) \/ Disconnect(s)
  \/ \E b \in BOOLEAN : SetRecord(b)

(* A write waits until a page that is connected reads: the server has no   *)
(* write timeout, so a page that stops reading stops its stream.           *)
AwaitsPage(s) == spc[s] \in {"write", "closing"} /\ alive[s]

(* The Go scheduler runs every goroutine that is not blocked. Nothing says *)
(* that requests arrive, that upstream servers answer, that pages read, or *)
(* that anybody opens a page or touches the switch.                        *)
Fairness ==
  /\ \A r \in Requests : WF_vars(Send(r)) /\ WF_vars(Sent(r))
  /\ \A s \in Streams : WF_vars(StreamStep(s) /\ ~AwaitsPage(s))

Spec == Init /\ [][Next]_vars
FairSpec == Spec /\ Fairness
-----------------------------------------------------------------------------
(* Properties.                                                             *)

Positions == 1..Len(log)
ShownIn(s, n) == \E i \in DOMAIN shown[s] : shown[s][i].no = n

\* Every variable keeps the type its Go declaration gives it, and no more is
\* received than was ever sent.
TypeOK ==
  /\ record \in BOOLEAN
  /\ client \in Nat
  /\ id \in Nat
  /\ log \in Seq(Requests)
  /\ head \in 0..Len(log)
  /\ kind \in [Requests -> Kinds \cup {"none"}]
  /\ rpc \in [Requests -> {"new", "roundtrip", "recording", "sending", "done", "failed"}]
  /\ replied \in SUBSET Requests
  /\ spc \in [Streams -> {"new", "check", "select", "default", "add", "load",
                          "write", "closing", "closed"}]
  /\ ticket \in [Streams -> Nat]
  /\ hand \in [Streams -> Nat]
  /\ num \in [Streams -> Nat]
  /\ shown \in [Streams -> Seq([no : Nat, id : Nat])]
  /\ alive \in [Streams -> BOOLEAN]

\* A page shows records in the order in which they were sent to messageChan,
\* and under strictly increasing Ids, although several event streams may be
\* receiving and numbering records at the same time (Api.event).
ShownInOrder ==
  \A s \in Streams : \A i, j \in DOMAIN shown[s] :
    i < j => /\ shown[s][i].no < shown[s][j].no
             /\ shown[s][i].id < shown[s][j].id

\* An overlap of an old and a new page never makes one exchange appear on
\* both, or appear on one while the other still holds it (Api.event receives
\* from the same channel in every stream).
ShownOnce ==
  \A s, t \in Streams : \A n \in Positions :
    ShownIn(s, n) => /\ hand[t] # n
                     /\ ShownIn(t, n) => s = t

\* The page never shows an exchange that was forwarded or replaced, nor a
\* record whose type it would misread (README: excluded requests are not
\* visible on the page; the type test in Api.event).
ShowsOnlyCaptured ==
  \A s \in Streams : \A i \in DOMAIN shown[s] :
    /\ shown[s][i].no \in 1..head
    /\ kind[log[shown[s][i].no]] \in Showable

\* The client of an intercepted HTTP or SSE request sees no byte of the answer
\* before the record is in the channel, where a page can find it: a request
\* whose send is still blocked on a full channel is not answered.
RecordedBeforeReply ==
  \A r \in replied : kind[r] \in RecordFirst => Buffered(r)

\* What the liveness properties assume of a page: no record written to it
\* waits for it forever.
Reads(s) == []<>(spc[s] # "write")

\* The record switch cannot be lost: once it stays off, every event stream
\* whose page reads ends, whatever the traffic and whatever other pages do.
StopsWhenOff ==
  \A s \in Streams : Reads(s) => (<>[](~record) => <>[](~Running(s)))

\* A new page turns the old ones away: a stream whose ticket is no longer the
\* newest ends, provided its page reads and the channel stays empty from some
\* time on. (Api.event looks at the tickets only when it finds nothing to
\* receive, so it takes the end of the traffic for a stream to be sure to.)
SupersededEnds ==
  \A s \in Streams :
    Reads(s) /\ <>[](head = Len(log)) =>
      (Running(s) /\ ticket[s] # client ~> ~Running(s))

\* Back-pressure is not starvation: with one event stream that keeps running
\* and whose page reads, every goroutine blocked in messageChan <- is released,
\* also when the records in front of it are of a type the page drops and when
\* other pages have stopped reading.
SendersReleased ==
  (\E s \in Streams : Reads(s) /\ <>[]Running(s)) =>
    \A r \in Requests : rpc[r] = "sending" ~> rpc[r] = "done"

\* r's record is on some page.
OnPage(r) == \E s \in Streams : \E i \in DOMAIN shown[s] : log[shown[s][i].no] = r

\* Somebody keeps looking: no page goes away or stops reading, and from some
\* point on there is always an event stream that runs.
Watched ==
  /\ [](\A s \in Streams : alive[s])
  /\ \A s \in Streams : Reads(s)
  /\ <>[](\E s \in Streams : Running(s))

\* Nothing is forgotten: whatever overlap of superseded and current pages, an
\* exchange whose record is a MessageTypeHTTP ends up on a page that is watched.
CapturedIsShown ==
  Watched => \A r \in Requests :
    rpc[r] = "sending" /\ kind[r] \in Showable ~> OnPage(r)

(* The pipeline implements the feed: a record that was received and is not *)
(* in the hands of a stream is either shown or gone.                       *)
Held(n) == \E s \in Streams : hand[s] = n

Feed == INSTANCE CaptureFeed WITH
  intercepted <- {r \in Requests : kind[r] \in RecordFirst},
  answered    <- replied,
  recorded    <- log,
  shown       <- [s \in Streams |-> [i \in DOMAIN shown[s] |-> shown[s][i].no]],
  gone        <- {n \in 1..head : ~Held(n) /\ \A s \in Streams : ~ShownIn(s, n)}

\* Every step of handlers and event streams is a step of the feed or invisible
\* to it: no record is shown twice, out of order or after it was lost, and no
\* intercepted client is answered unrecorded.
FeedSpec == Feed!Spec
=============================================================================
