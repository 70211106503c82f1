--------------------------- MODULE CaptureProofs ---------------------------
(***************************************************************************)
(* Proofs about Capture, for every set of requests and event streams and   *)
(* every channel capacity.                                                 *)
(***************************************************************************)
EXTENDS Capture, SequenceTheorems, TLAPS

Entry == [no : Nat, id : Nat]

(***************************************************************************)
(* TypeOK is inductive.                                                    *)
(***************************************************************************)
LEMMA InitTypeOK == Init => TypeOK
  BY DEF Init, TypeOK, Kinds

\* Handler goroutines touch the channel and their own variables only.
LEMMA RequestTypeOK ==
  ASSUME TypeOK, NEW r \in Requests, RequestStep(r)
  PROVE  TypeOK'
<1> USE DEF TypeOK, chanVars, reqVars, apiVars, strVars
<1>1. ASSUME NEW k \in Served, Arrive(r, k)
      PROVE  TypeOK'
  BY <1>1, ServedAssumption DEF Arrive
<1>2. CASE UpstreamAnswers(r)
  BY <1>2 DEF UpstreamAnswers
<1>3. CASE UpstreamFails(r)
  BY <1>3 DEF UpstreamFails
<1>4. CASE Send(r)
  <2>1. log' \in Seq(Requests) /\ Len(log') = Len(log) + 1
    BY <1>4, AppendProperties DEF Send
  <2>2. QED
    BY <1>4, <2>1 DEF Send
<1>5. CASE Sent(r)
  BY <1>5 DEF Sent
<1>6. QED
  BY <1>1, <1>2, <1>3, <1>4, <1>5 DEF RequestStep

LEMMA StreamTypeOK ==
  ASSUME TypeOK, NEW s \in Streams, Open(s) \/ StreamStep(s) \/ Disconnect(s)
  PROVE  TypeOK'
<1> USE DEF TypeOK, chanVars, reqVars, apiVars, strVars
<1>1. CASE Open(s)
  BY <1>1 DEF Open
<1>2. CASE Disconnect(s)
  BY <1>2 DEF Disconnect
<1>3. CASE CheckRecord(s)
  BY <1>3 DEF CheckRecord
<1>4. CASE Receive(s)
  <2>1. head + 1 \in Nat /\ head' \in 0..Len(log)
    BY <1>4 DEF Receive
  <2>2. hand' \in [Streams -> Nat]
    BY <1>4, <2>1 DEF Receive
  <2>3. spc' \in [Streams -> {"new", "check", "select", "default", "add", "load",
                             "write", "closing", "closed"}]
    <3>1. \/ spc' = [spc EXCEPT ![s] = "add"]
          \/ spc' = [spc EXCEPT ![s] = "check"]
      BY <1>4 DEF Receive
    <3>2. spc \in [Streams -> {"new", "check", "select", "default", "add", "load",
                              "write", "closing", "closed"}]
      OBVIOUS
    <3> HIDE DEF TypeOK
    <3>3. QED
      BY <3>1, <3>2
  <2>4. QED
    BY <1>4, <2>1, <2>2, <2>3 DEF Receive
<1>5. CASE Empty(s)
  BY <1>5 DEF Empty
<1>6. CASE CheckTicket(s)
  BY <1>6 DEF CheckTicket
<1>7. CASE AddId(s)
  BY <1>7 DEF AddId
<1>8. CASE LoadId(s)
  BY <1>8 DEF LoadId
<1>9. CASE Deliver(s)
  <2> DEFINE e == [no |-> hand[s], id |-> num[s]]
  <2>1. Append(shown[s], e) \in Seq(Entry)
    BY AppendProperties DEF Entry
  <2>2. shown' \in [Streams -> Seq(Entry)]
    BY <1>9, <2>1 DEF Deliver, Entry
  <2>3. QED
    BY <1>9, <2>2 DEF Deliver, Entry
<1>10. CASE WriteLost(s)
  BY <1>10 DEF WriteLost
<1>11. CASE Close(s)
  BY <1>11 DEF Close
<1>12. QED
  BY <1>1, <1>2, <1>3, <1>4, <1>5, <1>6, <1>7, <1>8, <1>9, <1>10, <1>11 DEF StreamStep

\* Every reachable state is well typed, and no stream has received more than
\* handlers have sent.
THEOREM TypeCorrect == Spec => []TypeOK
<1>1. TypeOK /\ [Next]_vars => TypeOK'
  <2> SUFFICES ASSUME TypeOK, [Next]_vars
               PROVE  TypeOK'
    OBVIOUS
  <2>1. ASSUME NEW b \in BOOLEAN, SetRecord(b)
        PROVE  TypeOK'
    BY <2>1 DEF SetRecord, TypeOK, chanVars, reqVars, strVars
  <2>2. CASE UNCHANGED vars
    BY <2>2 DEF vars, TypeOK
  <2>3. QED
    BY <2>1, <2>2, RequestTypeOK, StreamTypeOK DEF Next
<1>2. QED
  BY <1>1, InitTypeOK, PTL DEF Spec
-----------------------------------------------------------------------------
(***************************************************************************)
(* The inductive invariant, one part per idea.                             *)
(***************************************************************************)

\* Each goroutine sends once, and what the handler does next is decided by the
\* place of its record in the FIFO.
QueueInv ==
  /\ \A m, n \in 1..Len(log) : log[m] = log[n] => m = n
  /\ \A n \in 1..Len(log) : rpc[log[n]] \in {"sending", "done"}
                           /\ kind[log[n]] \in Recording
  /\ \A r \in Requests : rpc[r] = "sending" => Logged(r)
  /\ \A r \in Requests : rpc[r] = "done" /\ kind[r] \in Recording => Buffered(r)

\* A client of a record-first kind is only answered by a finished handler.
ReplyInv ==
  /\ \A r \in replied : kind[r] \in RecordFirst => rpc[r] = "done"
  /\ \A r \in Requests : rpc[r] = "new" <=> kind[r] = "none"
  /\ \A r \in Requests : rpc[r] = "new" => r \notin replied
  /\ \A r \in Requests : rpc[r] = "recording" => kind[r] \in Recording

\* What stream s holds is newer than what its page has shown.
HandInv(s) ==
  /\ spc[s] \in {"add", "load", "write"} <=> hand[s] # 0
  /\ hand[s] \in 0..head
  /\ hand[s] # 0 => /\ kind[log[hand[s]]] \in Showable
                    /\ \A i \in DOMAIN shown[s] : shown[s][i].no < hand[s]

\* Only received, showable records are shown, in order.
ShownInv(s) ==
  /\ \A i \in DOMAIN shown[s] : /\ shown[s][i].no \in 1..head
                                /\ kind[log[shown[s][i].no]] \in Showable
  /\ \A i, j \in DOMAIN shown[s] :
       i < j => shown[s][i].no < shown[s][j].no /\ shown[s][i].id < shown[s][j].id

\* Once s has counted its record, the counter is ahead of everything shown.
IdInv(s) ==
  /\ \A i \in DOMAIN shown[s] : shown[s][i].id <= id
  /\ spc[s] = "load" => \A i \in DOMAIN shown[s] : shown[s][i].id < id
  /\ spc[s] = "write" => num[s] <= id /\ \A i \in DOMAIN shown[s] : shown[s][i].id < num[s]

\* Two streams never hold, or hold and show, or show the same record.
ApartInv ==
  \A s, t \in Streams : s # t =>
    /\ hand[s] # 0 => hand[s] # hand[t]
    /\ \A i \in DOMAIN shown[s] :
         /\ shown[s][i].no # hand[t]
         /\ \A j \in DOMAIN shown[t] : shown[s][i].no # shown[t][j].no

\* Tickets are unique and the newest is Api.client.
TicketInv ==
  /\ \A s \in Streams : ticket[s] <= client
  /\ \A s, t \in Streams :
       s # t /\ spc[s] # "new" /\ spc[t] # "new" => ticket[s] # ticket[t]

IInv ==
  /\ TypeOK
  /\ QueueInv
  /\ ReplyInv
  /\ \A s \in Streams : HandInv(s) /\ ShownInv(s) /\ IdInv(s)
  /\ ApartInv
  /\ TicketInv
-----------------------------------------------------------------------------
\* What an EXCEPT on a stream's variables needs to know of them.
LEMMA StreamShapes ==
  ASSUME TypeOK
  PROVE  /\ spc = [t \in Streams |-> spc[t]]
         /\ hand = [t \in Streams |-> hand[t]]
         /\ num = [t \in Streams |-> num[t]]
  BY DEF TypeOK

\* The parts and types used most.
LEMMA Parts ==
  ASSUME IInv
  PROVE  /\ TypeOK /\ TicketInv /\ ApartInv
         /\ head \in Nat /\ id \in Nat /\ Len(log) \in Nat
         /\ \A s \in Streams : hand[s] \in Nat /\ num[s] \in Nat
<1>1. TypeOK /\ TicketInv /\ ApartInv
  BY DEF IInv
<1>2. Len(log) \in Nat /\ head \in 0..Len(log)
  BY <1>1 DEF TypeOK
<1>3. id \in Nat /\ \A s \in Streams : hand[s] \in Nat /\ num[s] \in Nat
  BY <1>1 DEF TypeOK
<1>4. QED
  BY <1>1, <1>2, <1>3

LEMMA InitIInv == Init => IInv
<1> SUFFICES ASSUME Init
             PROVE  IInv
  OBVIOUS
<1>1. TypeOK
  BY InitTypeOK
<1>2. QueueInv /\ ReplyInv
  BY DEF Init, QueueInv, ReplyInv, Logged, Buffered, Recording, Kinds
<1>3. ASSUME NEW s \in Streams
      PROVE  HandInv(s) /\ ShownInv(s) /\ IdInv(s)
  BY DEF Init, HandInv, ShownInv, IdInv
<1>4. ApartInv /\ TicketInv
  BY DEF Init, ApartInv, TicketInv
<1>5. QED
  BY <1>1, <1>2, <1>3, <1>4 DEF IInv

\* What streams rely on survives any step of a handler: a handler never
\* changes the kind of a record that is already in the channel.
LEMMA StreamPartsStable ==
  ASSUME IInv, UNCHANGED <<strVars, client, id, head>>,
         Len(log') \in Nat, Len(log) <= Len(log'),
         \A n \in 1..Len(log) : kind'[log'[n]] = kind[log[n]]
  PROVE  /\ \A s \in Streams : HandInv(s)' /\ ShownInv(s)' /\ IdInv(s)'
         /\ ApartInv' /\ TicketInv'
<1> USE DEF IInv, TypeOK, strVars
<1>1. \A s \in Streams : shown[s] \in Seq(Entry) /\ DOMAIN shown[s] = 1..Len(shown[s])
  BY LenProperties DEF Entry
<1>2. ASSUME NEW s \in Streams
      PROVE  HandInv(s)'
  <2>1. hand[s] # 0 => kind'[log'[hand[s]]] = kind[log[hand[s]]]
    BY DEF HandInv
  <2>2. QED
    BY <2>1 DEF HandInv
<1>3. ASSUME NEW s \in Streams
      PROVE  ShownInv(s)'
  <2>1. \A i \in DOMAIN shown[s] : shown[s][i].no \in 1..Len(log)
    BY DEF ShownInv
  <2>2. \A i \in DOMAIN shown[s] : kind'[log'[shown[s][i].no]] = kind[log[shown[s][i].no]]
    BY <2>1
  <2>3. QED
    BY <2>2 DEF ShownInv
<1>4. \A s \in Streams : IdInv(s)'
  BY DEF IdInv
<1>5. ApartInv' /\ TicketInv'
  BY DEF ApartInv, TicketInv
<1>6. QED
  BY <1>2, <1>3, <1>4, <1>5

\* What handlers rely on survives any step of a stream: receiving only ever
\* moves a record forward.
LEMMA RequestPartsStable ==
  ASSUME IInv, UNCHANGED <<reqVars, log>>, NEW d \in Nat, head' = head + d
  PROVE  QueueInv' /\ ReplyInv'
<1>1. QueueInv'
  <2>1. QueueInv /\ head \in Nat /\ Len(log) \in Nat
    BY Parts DEF IInv
  <2>2. log' = log /\ rpc' = rpc /\ kind' = kind /\ Cap \in Nat
    BY CapAssumption DEF reqVars
  <2>3. \A q \in Requests : Logged(q) => Logged(q)'
    BY <2>2 DEF Logged
  <2>4. ASSUME NEW q \in Requests, Buffered(q)
        PROVE  Buffered(q)'
    <3>1. PICK n \in 1..Len(log) : log[n] = q /\ n <= head + Cap
      BY <2>4 DEF Buffered
    <3>3. n <= head + d + Cap
      BY <2>1, <2>2, <3>1
    <3>4. QED
      BY <2>2, <3>1, <3>3 DEF Buffered
  <2>5. QED
    BY <2>1, <2>2, <2>3, <2>4 DEF QueueInv
<1>2. ReplyInv'
  BY DEF IInv, ReplyInv, reqVars
<1>3. QED
  BY <1>1, <1>2
-----------------------------------------------------------------------------
(***************************************************************************)
(* Handler goroutines preserve the invariant.                              *)
(***************************************************************************)

\* A handler that has not offered its record is nowhere in the channel.
LEMMA NotLogged ==
  ASSUME IInv, NEW r \in Requests, rpc[r] \notin {"sending", "done"}
  PROVE  \A n \in 1..Len(log) : log[n] # r
  BY DEF IInv, QueueInv

\* As long as a handler has not offered its record, the channel does not care
\* where the handler is, unless it finishes without recording.
LEMMA QueueFrame ==
  ASSUME IInv, NEW r \in Requests, \A n \in 1..Len(log) : log[n] # r,
         UNCHANGED <<log, head>>,
         \A q \in Requests \ {r} : rpc'[q] = rpc[q] /\ kind'[q] = kind[q],
         rpc'[r] # "sending",
         rpc'[r] = "done" => kind'[r] \notin Recording
  PROVE  QueueInv'
<1>1. QueueInv /\ \A n \in 1..Len(log) : log[n] \in Requests \ {r}
  BY Parts DEF IInv, TypeOK
<1>2. \A q \in Requests : (Logged(q)' <=> Logged(q)) /\ (Buffered(q)' <=> Buffered(q))
  BY DEF Logged, Buffered
<1>3. \A n \in 1..Len(log) : /\ rpc'[log[n]] = rpc[log[n]]
                             /\ kind'[log[n]] = kind[log[n]]
  BY <1>1
<1>4. \A m, n \in 1..Len(log') : log'[m] = log'[n] => m = n
  BY <1>1 DEF QueueInv
<1>5. \A n \in 1..Len(log') : /\ rpc'[log'[n]] \in {"sending", "done"}
                              /\ kind'[log'[n]] \in Recording
  BY <1>1, <1>3 DEF QueueInv
<1>6. \A q \in Requests : rpc'[q] = "sending" => Logged(q)'
  BY <1>1, <1>2 DEF QueueInv
<1>7. \A q \in Requests : rpc'[q] = "done" /\ kind'[q] \in Recording => Buffered(q)'
  BY <1>1, <1>2 DEF QueueInv
<1>8. QED
  BY <1>4, <1>5, <1>6, <1>7 DEF QueueInv

LEMMA ArriveIInv ==
  ASSUME IInv, TypeOK', NEW r \in Requests, NEW k \in Served, Arrive(r, k)
  PROVE  IInv'
<1>1. TypeOK /\ ReplyInv
  BY DEF IInv
<1>2. /\ UNCHANGED <<strVars, client, id, head, log, replied>>
      /\ kind' = [kind EXCEPT ![r] = k] /\ rpc' = [rpc EXCEPT ![r] = "roundtrip"]
      /\ rpc[r] = "new"
  BY DEF Arrive, chanVars, apiVars
<1>3. \A n \in 1..Len(log) : log[n] # r
  BY <1>2, NotLogged
<1>4. \A q \in Requests \ {r} : rpc'[q] = rpc[q] /\ kind'[q] = kind[q]
  BY <1>1, <1>2 DEF TypeOK
<1>5. \A n \in 1..Len(log) : kind'[log'[n]] = kind[log[n]]
  BY <1>1, <1>2, <1>3, <1>4 DEF TypeOK
<1>6. /\ \A s \in Streams : HandInv(s)' /\ ShownInv(s)' /\ IdInv(s)'
      /\ ApartInv' /\ TicketInv'
  <2>1. Len(log') \in Nat /\ Len(log) <= Len(log')
    BY <1>1, <1>2 DEF TypeOK
  <2>2. QED
    BY <1>2, <1>5, <2>1, StreamPartsStable
<1>7. QueueInv'
  <2>1. rpc'[r] = "roundtrip"
    BY <1>1, <1>2 DEF TypeOK
  <2>2. QED
    BY <1>2, <1>3, <1>4, <2>1, QueueFrame
<1>8. ReplyInv'
  BY <1>1, <1>2, ServedAssumption DEF ReplyInv, TypeOK, Kinds
<1>9. QED
  BY <1>6, <1>7, <1>8 DEF IInv

\* UpstreamAnswers, UpstreamFails and Sent leave the channel and the kinds alone.
LEMMA QuietIInv ==
  ASSUME IInv, TypeOK', NEW r \in Requests,
         UpstreamAnswers(r) \/ UpstreamFails(r) \/ Sent(r)
  PROVE  IInv'
<1>1. TypeOK /\ ReplyInv /\ QueueInv
  BY DEF IInv
<1>2. UNCHANGED <<strVars, client, id, head, log, kind>>
  BY DEF UpstreamAnswers, UpstreamFails, Sent, chanVars, apiVars
<1>3. \A q \in Requests \ {r} : rpc'[q] = rpc[q] /\ kind'[q] = kind[q]
  BY <1>1, <1>2 DEF TypeOK, UpstreamAnswers, UpstreamFails, Sent
<1>4. /\ \A s \in Streams : HandInv(s)' /\ ShownInv(s)' /\ IdInv(s)'
      /\ ApartInv' /\ TicketInv'
  <2>1. Len(log') \in Nat /\ Len(log) <= Len(log')
    BY <1>1, <1>2 DEF TypeOK
  <2>2. QED
    BY <1>2, <2>1, StreamPartsStable
<1>5. CASE UpstreamAnswers(r)
  <2>1. \A n \in 1..Len(log) : log[n] # r
    BY <1>5, NotLogged DEF UpstreamAnswers
  <2>2. rpc'[r] = IF kind[r] \in Recording THEN "recording" ELSE "done"
    BY <1>1, <1>5 DEF UpstreamAnswers, TypeOK
  <2>3. QueueInv'
    BY <1>2, <1>3, <2>1, <2>2, QueueFrame
  <2>4. ReplyInv'
    BY <1>1, <1>5 DEF ReplyInv, TypeOK, UpstreamAnswers, Recording, RecordFirst, Kinds
  <2>5. QED
    BY <1>4, <2>3, <2>4 DEF IInv
<1>6. CASE UpstreamFails(r)
  <2>1. \A n \in 1..Len(log) : log[n] # r
    BY <1>6, NotLogged DEF UpstreamFails
  <2>2. rpc'[r] = "failed"
    BY <1>1, <1>6 DEF UpstreamFails, TypeOK
  <2>3. QueueInv'
    BY <1>2, <1>3, <2>1, <2>2, QueueFrame
  <2>4. ReplyInv'
    BY <1>1, <1>6 DEF ReplyInv, TypeOK, UpstreamFails
  <2>5. QED
    BY <1>4, <2>3, <2>4 DEF IInv
<1>7. CASE Sent(r)
  <2>1. rpc'[r] = "done" /\ Buffered(r)
    BY <1>1, <1>7 DEF Sent, TypeOK
  <2>2. \A q \in Requests : (Logged(q)' <=> Logged(q)) /\ (Buffered(q)' <=> Buffered(q))
    BY <1>2 DEF Logged, Buffered
  <2>3. \A n \in 1..Len(log) : log[n] \in Requests
    BY <1>1 DEF TypeOK
  <2>4. \A n \in 1..Len(log) : rpc'[log[n]] \in {"sending", "done"}
    BY <1>1, <1>3, <2>1, <2>3 DEF QueueInv
  <2>5. \A q \in Requests : rpc'[q] = "sending" => Logged(q)'
    BY <1>1, <1>3, <2>1, <2>2 DEF QueueInv
  <2>6. \A q \in Requests : rpc'[q] = "done" /\ kind'[q] \in Recording => Buffered(q)'
    BY <1>1, <1>3, <2>1, <2>2 DEF QueueInv
  <2>7. QueueInv'
    BY <1>1, <1>2, <2>4, <2>5, <2>6 DEF QueueInv
  <2>8. ReplyInv'
    BY <1>1, <1>7 DEF ReplyInv, TypeOK, Sent
  <2>9. QED
    BY <1>4, <2>7, <2>8 DEF IInv
<1>8. QED
  BY <1>5, <1>6, <1>7

LEMMA SendIInv ==
  ASSUME IInv, TypeOK', NEW r \in Requests, Send(r)
  PROVE  IInv'
<1>1. TypeOK /\ QueueInv /\ ReplyInv /\ Len(log) \in Nat
  BY Parts DEF IInv
<1>2. /\ UNCHANGED <<strVars, client, id, head, kind, replied>>
      /\ rpc' = [rpc EXCEPT ![r] = "sending"]
      /\ rpc[r] = "recording"
  BY DEF Send, apiVars
<1>3. /\ Len(log') = Len(log) + 1
      /\ log'[Len(log) + 1] = r
      /\ \A n \in 1..Len(log) : log'[n] = log[n] /\ log[n] \in Requests
  BY <1>1, AppendProperties DEF Send, TypeOK
<1>4. \A n \in 1..Len(log) : log[n] # r
  BY <1>2, NotLogged
<1>5. /\ \A s \in Streams : HandInv(s)' /\ ShownInv(s)' /\ IdInv(s)'
      /\ ApartInv' /\ TicketInv'
  <2>1. Len(log') \in Nat /\ Len(log) <= Len(log')
    BY <1>1, <1>3
  <2>2. \A n \in 1..Len(log) : kind'[log'[n]] = kind[log[n]]
    BY <1>2, <1>3
  <2>3. QED
    BY <1>2, <2>1, <2>2, StreamPartsStable
<1>6. QueueInv'
  <2>1. \A q \in Requests : /\ Logged(q) => Logged(q)'
                            /\ Buffered(q) => Buffered(q)'
                            /\ Logged(r)'
    BY <1>1, <1>2, <1>3 DEF Logged, Buffered
  <2>2. rpc'[r] = "sending" /\ \A q \in Requests : q # r => rpc'[q] = rpc[q]
    BY <1>1, <1>2 DEF TypeOK
  <2>3. \A m, n \in 1..Len(log') : log'[m] = log'[n] => m = n
    BY <1>1, <1>3, <1>4 DEF QueueInv
  <2>4. \A n \in 1..Len(log') : /\ rpc'[log'[n]] \in {"sending", "done"}
                                /\ kind'[log'[n]] \in Recording
    <3>1. kind[r] \in Recording
      BY <1>1, <1>2 DEF ReplyInv
    <3>2. QED
      BY <1>1, <1>2, <1>3, <1>4, <2>2, <3>1 DEF QueueInv
  <2>5. \A q \in Requests : rpc'[q] = "sending" => Logged(q)'
    BY <1>1, <2>1, <2>2 DEF QueueInv
  <2>6. \A q \in Requests : rpc'[q] = "done" /\ kind'[q] \in Recording => Buffered(q)'
    BY <1>1, <1>2, <2>1, <2>2 DEF QueueInv
  <2>7. QED
    BY <2>3, <2>4, <2>5, <2>6 DEF QueueInv
<1>7. ReplyInv'
  BY <1>1, <1>2 DEF ReplyInv, TypeOK
<1>8. QED
  BY <1>5, <1>6, <1>7 DEF IInv

LEMMA RequestIInv ==
  ASSUME IInv, NEW r \in Requests, RequestStep(r)
  PROVE  IInv'
<1>1. TypeOK'
  BY RequestTypeOK DEF IInv
<1>2. QED
  BY <1>1, ArriveIInv, QuietIInv, SendIInv DEF RequestStep
-----------------------------------------------------------------------------
(***************************************************************************)
(* Event streams preserve the invariant.                                   *)
(***************************************************************************)

\* Records shown are typed, wherever they are mentioned.
LEMMA ShownType ==
  ASSUME TypeOK, NEW s \in Streams
  PROVE  /\ shown[s] \in Seq(Entry)
         /\ Len(shown[s]) \in Nat /\ DOMAIN shown[s] = 1..Len(shown[s])
         /\ \A i \in DOMAIN shown[s] : shown[s][i].no \in Nat /\ shown[s][i].id \in Nat
<1>1. shown[s] \in Seq(Entry)
  BY DEF TypeOK, Entry
<1>2. Len(shown[s]) \in Nat /\ DOMAIN shown[s] = 1..Len(shown[s])
  BY <1>1, LenProperties
<1>3. \A i \in DOMAIN shown[s] : shown[s][i] \in Entry
  BY <1>1, <1>2
<1>4. QED
  BY <1>1, <1>2, <1>3 DEF Entry

\* A stream is not disturbed by the progress of another one: the channel only
\* moves forward and the counter only grows.
LEMMA StreamFrame ==
  ASSUME IInv, NEW t \in Streams,
         spc'[t] = spc[t], hand'[t] = hand[t], num'[t] = num[t], shown'[t] = shown[t],
         UNCHANGED <<log, kind>>, head' \in Nat, head <= head', id' \in Nat, id <= id'
  PROVE  HandInv(t)' /\ ShownInv(t)' /\ IdInv(t)'
<1>1. TypeOK /\ HandInv(t) /\ ShownInv(t) /\ IdInv(t)
  BY DEF IInv
<1>2. head \in Nat /\ id \in Nat /\ hand[t] \in Nat /\ num[t] \in Nat
  BY <1>1 DEF TypeOK
<1>3. \A i \in DOMAIN shown[t] : shown[t][i].no \in Nat /\ shown[t][i].id \in Nat
  BY <1>1, ShownType
<1>4. HandInv(t)'
  BY <1>1, <1>2 DEF HandInv
<1>5. ShownInv(t)'
  BY <1>1, <1>2, <1>3 DEF ShownInv
<1>6. IdInv(t)'
  BY <1>1, <1>2, <1>3 DEF IdInv
<1>7. QED
  BY <1>4, <1>5, <1>6

\* Steps that move no record: opening, testing the switch or the ticket, an
\* empty channel, closing, and the page going away.
LEMMA IdleParts ==
  ASSUME IInv, NEW s \in Streams, UNCHANGED <<hand, num, shown, log, kind, head, id>>,
         \A t \in Streams \ {s} : spc'[t] = spc[t],
         spc'[s] = spc[s] \/ {spc[s], spc'[s]} \cap {"add", "load", "write"} = {}
  PROVE  (\A t \in Streams : HandInv(t)' /\ ShownInv(t)' /\ IdInv(t)') /\ ApartInv'
<1>1. TypeOK /\ head \in Nat /\ id \in Nat
  BY Parts
<1>2. ASSUME NEW t \in Streams, spc'[t] = spc[t]
      PROVE  HandInv(t)' /\ ShownInv(t)' /\ IdInv(t)'
  BY <1>1, <1>2, StreamFrame
<1>3. ASSUME {spc[s], spc'[s]} \cap {"add", "load", "write"} = {}
      PROVE  HandInv(s)' /\ ShownInv(s)' /\ IdInv(s)'
  <2>1. HandInv(s) /\ ShownInv(s) /\ IdInv(s)
    BY DEF IInv
  <2>2. spc'[s] \notin {"add", "load", "write"} /\ spc[s] \notin {"add", "load", "write"}
    BY <1>3
  <2>3. HandInv(s)'
    BY <2>1, <2>2 DEF HandInv
  <2>4. ShownInv(s)' /\ IdInv(s)'
    BY <2>1, <2>2 DEF ShownInv, IdInv
  <2>5. QED
    BY <2>3, <2>4
<1>4. ApartInv'
  BY DEF IInv, ApartInv
<1>5. QED
  BY <1>2, <1>3, <1>4

\* Tickets are drawn by Open alone.
LEMMA TicketFrame ==
  ASSUME TicketInv, UNCHANGED <<ticket, client>>,
         \A t \in Streams : spc[t] = "new" <=> spc'[t] = "new"
  PROVE  TicketInv'
  BY DEF TicketInv

LEMMA OpenIInv ==
  ASSUME IInv, TypeOK', NEW s \in Streams, Open(s)
  PROVE  IInv'
<1>1. TypeOK /\ TicketInv /\ head \in Nat
  BY Parts
<1>2. /\ UNCHANGED <<reqVars, log, head, hand, num, shown, kind, id>>
      /\ client' = client + 1 /\ ticket' = [ticket EXCEPT ![s] = client + 1]
      /\ spc[s] = "new" /\ spc' = [spc EXCEPT ![s] = "check"]
  BY DEF Open, chanVars, reqVars
<1>3. spc'[s] = "check" /\ \A t \in Streams \ {s} : spc'[t] = spc[t]
  BY <1>1, <1>2 DEF TypeOK
<1>4. QueueInv' /\ ReplyInv'
  <2>1. head' = head + 0
    BY <1>1, <1>2
  <2>2. QED
    BY <1>2, <2>1, RequestPartsStable
<1>5. (\A t \in Streams : HandInv(t)' /\ ShownInv(t)' /\ IdInv(t)') /\ ApartInv'
  <2>1. {spc[s], spc'[s]} \cap {"add", "load", "write"} = {}
    BY <1>2, <1>3
  <2>2. QED
    BY <1>2, <1>3, <2>1, IdleParts
<1>6. TicketInv'
  <2>1. client \in Nat /\ \A t \in Streams : ticket[t] \in Nat
    BY <1>1 DEF TypeOK
  <2>2. ticket'[s] = client + 1 /\ \A t \in Streams \ {s} : ticket'[t] = ticket[t]
    BY <1>1, <1>2 DEF TypeOK
  <2>3. \A t \in Streams : ticket[t] <= client
    BY <1>1 DEF TicketInv
  <2>4. \A t \in Streams : ticket'[t] <= client'
    BY <1>2, <2>1, <2>2, <2>3
  <2>5. \A t \in Streams \ {s} : ticket'[s] # ticket'[t]
    BY <2>1, <2>2, <2>3
  <2>6. \A t, u \in Streams \ {s} :
          t # u /\ spc'[t] # "new" /\ spc'[u] # "new" => ticket'[t] # ticket'[u]
    BY <1>1, <1>3, <2>2 DEF TicketInv
  <2>7. QED
    BY <2>4, <2>5, <2>6 DEF TicketInv
<1>7. QED
  BY <1>4, <1>5, <1>6 DEF IInv

LEMMA IdleIInv ==
  ASSUME IInv, TypeOK', NEW s \in Streams,
         \/ CheckRecord(s) \/ Empty(s) \/ CheckTicket(s) \/ Close(s) \/ Disconnect(s)
  PROVE  IInv'
<1>1. TypeOK /\ TicketInv /\ head \in Nat
  BY Parts
<1>2. UNCHANGED <<reqVars, log, head, hand, num, shown, kind, id, ticket, client>>
  BY DEF CheckRecord, Empty, CheckTicket, Close, Disconnect, chanVars, reqVars, apiVars
<1>3. \A t \in Streams \ {s} : spc'[t] = spc[t]
  BY <1>1, StreamShapes DEF CheckRecord, Empty, CheckTicket, Close, Disconnect
<1>4. \/ spc'[s] = spc[s]
      \/ /\ spc[s] \in {"check", "select", "default", "closing"}
         /\ spc'[s] \in {"check", "select", "default", "closing", "closed"}
  BY <1>1, StreamShapes DEF CheckRecord, Empty, CheckTicket, Close, Disconnect
<1>5. QueueInv' /\ ReplyInv'
  <2>1. head' = head + 0
    BY <1>1, <1>2
  <2>2. QED
    BY <1>2, <2>1, RequestPartsStable
<1>6. (\A t \in Streams : HandInv(t)' /\ ShownInv(t)' /\ IdInv(t)') /\ ApartInv'
  <2>1. spc'[s] = spc[s] \/ {spc[s], spc'[s]} \cap {"add", "load", "write"} = {}
    BY <1>4
  <2>2. QED
    BY <1>2, <1>3, <2>1, IdleParts
<1>7. TicketInv'
  BY <1>1, <1>2, <1>3, <1>4, TicketFrame
<1>8. QED
  BY <1>5, <1>6, <1>7 DEF IInv

\* A received record is newer than anything held or shown anywhere.
LEMMA ReceiveIInv ==
  ASSUME IInv, TypeOK', NEW s \in Streams, Receive(s)
  PROVE  IInv'
<1>1. TypeOK /\ TicketInv /\ ApartInv /\ head \in Nat /\ id \in Nat
  BY Parts
<1>2. /\ UNCHANGED <<reqVars, log, num, shown, kind, id, ticket, client>>
      /\ head' = head + 1
      /\ spc[s] = "select"
  BY DEF Receive, reqVars, apiVars
<1>3. \/ /\ kind[log[head + 1]] \in Showable
         /\ hand' = [hand EXCEPT ![s] = head + 1]
         /\ spc' = [spc EXCEPT ![s] = "add"]
      \/ /\ UNCHANGED hand
         /\ spc' = [spc EXCEPT ![s] = "check"]
  BY DEF Receive
<1>4. \A t \in Streams \ {s} : spc'[t] = spc[t] /\ hand'[t] = hand[t]
  BY <1>1, <1>3, StreamShapes
<1>5. \/ spc'[s] = "add" /\ hand'[s] = head + 1 /\ kind[log[head + 1]] \in Showable
      \/ spc'[s] = "check" /\ hand'[s] = hand[s]
  BY <1>1, <1>3, StreamShapes
<1>6. QueueInv' /\ ReplyInv'
  BY <1>2, RequestPartsStable
<1>7. ASSUME NEW t \in Streams \ {s}
      PROVE  HandInv(t)' /\ ShownInv(t)' /\ IdInv(t)'
  BY <1>1, <1>2, <1>4, StreamFrame
<1>8. HandInv(s)' /\ ShownInv(s)' /\ IdInv(s)'
  <2>1. HandInv(s) /\ ShownInv(s) /\ IdInv(s) /\ hand[s] \in Nat
    BY Parts DEF IInv
  <2>2. \A i \in DOMAIN shown[s] : shown[s][i].no \in Nat
    BY <1>1, ShownType
  <2>3. HandInv(s)'
    <3>1. CASE spc'[s] = "add" /\ hand'[s] = head + 1 /\ kind[log[head + 1]] \in Showable
      BY <1>1, <1>2, <2>1, <2>2, <3>1 DEF HandInv, ShownInv
    <3>2. CASE spc'[s] = "check" /\ hand'[s] = hand[s]
      BY <1>1, <1>2, <2>1, <3>2 DEF HandInv
    <3>3. QED
      BY <1>5, <3>1, <3>2
  <2>4. ShownInv(s)'
    BY <1>1, <1>2, <2>1, <2>2 DEF ShownInv
  <2>5. IdInv(s)'
    BY <1>2, <1>5, <2>1 DEF IdInv
  <2>6. QED
    BY <2>3, <2>4, <2>5
<1>9. ApartInv'
  <2>1. \A t \in Streams : /\ hand[t] \in 0..head
                           /\ \A i \in DOMAIN shown[t] : shown[t][i].no \in 1..head
    BY DEF IInv, HandInv, ShownInv
  <2>2. \A t \in Streams : hand'[t] = hand[t] \/ (t = s /\ hand'[t] = head + 1)
    BY <1>4, <1>5
  <2>3. \A t, u \in Streams : t # u /\ hand'[t] # 0 => hand'[t] # hand'[u]
    BY <1>1, <2>1, <2>2 DEF ApartInv
  <2>4. \A t, u \in Streams : \A i \in DOMAIN shown[t] :
          t # u => shown[t][i].no # hand'[u]
    BY <1>1, <2>1, <2>2 DEF ApartInv
  <2>5. QED
    BY <1>1, <1>2, <2>3, <2>4 DEF ApartInv
<1>10. TicketInv'
  BY <1>1, <1>2, <1>4, <1>5, TicketFrame
<1>11. QED
  BY <1>6, <1>7, <1>8, <1>9, <1>10 DEF IInv

\* AddId moves the counter past every Id in use; LoadId takes a value that is
\* at least as new, whoever has counted in between.
LEMMA NumberIInv ==
  ASSUME IInv, TypeOK', NEW s \in Streams, AddId(s) \/ LoadId(s)
  PROVE  IInv'
<1>1. TypeOK /\ TicketInv /\ ApartInv /\ head \in Nat /\ id \in Nat
  BY Parts
<1>2. /\ UNCHANGED <<reqVars, log, head, hand, shown, kind, ticket, client>>
      /\ id' \in Nat /\ id <= id'
  BY <1>1 DEF AddId, LoadId, reqVars, chanVars, apiVars
<1>3. \A t \in Streams \ {s} : spc'[t] = spc[t] /\ num'[t] = num[t]
  BY <1>1, StreamShapes DEF AddId, LoadId
<1>4. \/ spc[s] = "add" /\ spc'[s] = "load" /\ id' = id + 1
      \/ spc[s] = "load" /\ spc'[s] = "write" /\ num'[s] = id /\ id' = id
  BY <1>1, StreamShapes DEF AddId, LoadId, apiVars
<1>5. QueueInv' /\ ReplyInv'
  <2>1. head' = head + 0
    BY <1>1, <1>2
  <2>2. QED
    BY <1>2, <2>1, RequestPartsStable
<1>6. ASSUME NEW t \in Streams \ {s}
      PROVE  HandInv(t)' /\ ShownInv(t)' /\ IdInv(t)'
  BY <1>1, <1>2, <1>3, StreamFrame
<1>7. HandInv(s)' /\ ShownInv(s)' /\ IdInv(s)'
  <2>1. HandInv(s) /\ ShownInv(s) /\ IdInv(s)
    BY DEF IInv
  <2>2. \A i \in DOMAIN shown[s] : shown[s][i].id \in Nat
    BY <1>1, ShownType
  <2>3. HandInv(s)'
    BY <1>2, <1>4, <2>1 DEF HandInv
  <2>4. ShownInv(s)'
    BY <1>2, <2>1 DEF ShownInv
  <2>5. IdInv(s)'
    BY <1>1, <1>2, <1>4, <2>1, <2>2 DEF IdInv
  <2>6. QED
    BY <2>3, <2>4, <2>5
<1>8. ApartInv'
  BY <1>1, <1>2 DEF ApartInv
<1>9. TicketInv'
  BY <1>1, <1>2, <1>3, <1>4, TicketFrame
<1>10. QED
  BY <1>5, <1>6, <1>7, <1>8, <1>9 DEF IInv

\* The record in hand moves to the end of the page, or is lost.
LEMMA WriteIInv ==
  ASSUME IInv, TypeOK', NEW s \in Streams, Deliver(s) \/ WriteLost(s)
  PROVE  IInv'
<1> DEFINE e == [no |-> hand[s], id |-> num[s]]
<1>1. TypeOK /\ TicketInv /\ ApartInv /\ head \in Nat /\ id \in Nat
      /\ hand[s] \in Nat /\ num[s] \in Nat
  BY Parts
<1>2. /\ UNCHANGED <<reqVars, log, head, kind, id, ticket, client>>
      /\ spc[s] = "write"
      /\ hand' = [hand EXCEPT ![s] = 0] /\ num' = [num EXCEPT ![s] = 0]
  BY DEF Deliver, WriteLost, reqVars, chanVars, apiVars
<1>3. /\ spc'[s] \in {"closing", "check"} /\ hand'[s] = 0
      /\ \A t \in Streams \ {s} : /\ spc'[t] = spc[t] /\ hand'[t] = hand[t]
                                  /\ num'[t] = num[t] /\ shown'[t] = shown[t]
  BY <1>1, <1>2 DEF TypeOK, Deliver, WriteLost
<1>4. \/ shown'[s] = shown[s]
      \/ shown'[s] = Append(shown[s], e)
  BY <1>1 DEF TypeOK, Deliver, WriteLost
<1>5. /\ Len(shown[s]) \in Nat /\ DOMAIN shown[s] = 1..Len(shown[s])
      /\ \A i \in DOMAIN shown[s] : shown[s][i].no \in Nat /\ shown[s][i].id \in Nat
  BY <1>1, ShownType
<1>6. \/ shown'[s] = shown[s]
      \/ /\ DOMAIN shown'[s] = 1..(Len(shown[s]) + 1)
         /\ shown'[s][Len(shown[s]) + 1] = e
         /\ \A i \in 1..Len(shown[s]) : shown'[s][i] = shown[s][i]
  <2>1. e \in Entry /\ shown[s] \in Seq(Entry)
    BY <1>1, ShownType DEF Entry
  <2>2. QED
    BY <1>4, <2>1, AppendProperties
<1>7. /\ hand[s] \in 1..head /\ kind[log[hand[s]]] \in Showable /\ num[s] <= id
      /\ \A i \in DOMAIN shown[s] : shown[s][i].no < hand[s] /\ shown[s][i].id < num[s]
  BY <1>1, <1>2 DEF IInv, HandInv, IdInv
<1>8. QueueInv' /\ ReplyInv'
  <2>1. head' = head + 0
    BY <1>1, <1>2
  <2>2. QED
    BY <1>2, <2>1, RequestPartsStable
<1>9. ASSUME NEW t \in Streams \ {s}
      PROVE  HandInv(t)' /\ ShownInv(t)' /\ IdInv(t)'
  BY <1>1, <1>2, <1>3, StreamFrame
<1>10. \A i \in DOMAIN shown'[s] : \/ i \in DOMAIN shown[s] /\ shown'[s][i] = shown[s][i]
                                   \/ i = Len(shown[s]) + 1 /\ shown'[s][i] = e
  BY <1>5, <1>6
<1>11. HandInv(s)' /\ ShownInv(s)' /\ IdInv(s)'
  <2>1. HandInv(s) /\ ShownInv(s) /\ IdInv(s)
    BY DEF IInv
  <2>2. HandInv(s)'
    BY <1>1, <1>2, <1>3 DEF HandInv
  <2>3. ShownInv(s)'
    <3>1. \A i \in DOMAIN shown'[s] : /\ shown'[s][i].no \in 1..head
                                      /\ kind[log[shown'[s][i].no]] \in Showable
      BY <1>7, <1>10, <2>1 DEF ShownInv
    <3>2. \A i, j \in DOMAIN shown'[s] :
            i < j => /\ shown'[s][i].no < shown'[s][j].no
                     /\ shown'[s][i].id < shown'[s][j].id
      <4> SUFFICES ASSUME NEW i \in DOMAIN shown'[s], NEW j \in DOMAIN shown'[s], i < j
                   PROVE  /\ shown'[s][i].no < shown'[s][j].no
                          /\ shown'[s][i].id < shown'[s][j].id
        OBVIOUS
      <4>1. i \in DOMAIN shown[s] /\ shown'[s][i] = shown[s][i]
        BY <1>5, <1>10
      <4>2. CASE j \in DOMAIN shown[s] /\ shown'[s][j] = shown[s][j]
        BY <4>1, <4>2, <2>1 DEF ShownInv
      <4>3. CASE shown'[s][j] = e
        BY <1>7, <4>1, <4>3
      <4>4. QED
        BY <1>10, <4>2, <4>3
    <3>3. QED
      BY <1>2, <3>1, <3>2 DEF ShownInv
  <2>4. IdInv(s)'
    BY <1>2, <1>3, <1>7, <1>10, <2>1 DEF IdInv
  <2>5. QED
    BY <2>2, <2>3, <2>4
<1>12. ApartInv'
  <2>1. \A t \in Streams : \A i \in DOMAIN shown'[t] :
          \/ i \in DOMAIN shown[t] /\ shown'[t][i] = shown[t][i]
          \/ t = s /\ shown'[t][i] = e
    BY <1>3, <1>10
  <2>2. \A t \in Streams : hand'[t] = hand[t] \/ hand'[t] = 0
    BY <1>3
  <2>3. \A t \in Streams : \A i \in DOMAIN shown[t] : shown[t][i].no \in 1..head
    BY DEF IInv, ShownInv
  <2>4. \A t, u \in Streams : t # u /\ hand'[t] # 0 => hand'[t] # hand'[u]
    BY <1>1, <2>2 DEF ApartInv
  <2>5. \A t, u \in Streams : \A i \in DOMAIN shown'[t] :
          t # u => shown'[t][i].no # hand'[u]
    BY <1>1, <1>7, <2>1, <2>2, <2>3 DEF ApartInv
  <2>6. \A t, u \in Streams : \A i \in DOMAIN shown'[t], j \in DOMAIN shown'[u] :
          t # u => shown'[t][i].no # shown'[u][j].no
    BY <1>1, <2>1 DEF ApartInv
  <2>7. QED
    BY <2>4, <2>5, <2>6 DEF ApartInv
<1>13. TicketInv'
  BY <1>1, <1>2, <1>3, TicketFrame
<1>14. QED
  BY <1>8, <1>9, <1>11, <1>12, <1>13 DEF IInv
-----------------------------------------------------------------------------
LEMMA InductiveInvariant == Spec => []IInv
<1>1. IInv /\ [Next]_vars => IInv'
  <2> SUFFICES ASSUME IInv, [Next]_vars
               PROVE  IInv'
    OBVIOUS
  <2>1. ASSUME NEW r \in Requests, RequestStep(r)
        PROVE  IInv'
    BY <2>1, RequestIInv
  <2>2. ASSUME NEW s \in Streams, Open(s) \/ StreamStep(s) \/ Disconnect(s)
        PROVE  IInv'
    <3>1. TypeOK'
      BY <2>2, StreamTypeOK DEF IInv
    <3>2. QED
      BY <2>2, <3>1, OpenIInv, IdleIInv, ReceiveIInv, NumberIInv, WriteIInv DEF StreamStep
  <2>3. ASSUME NEW b \in BOOLEAN, SetRecord(b)
        PROVE  IInv'
    <3>1. UNCHANGED <<client, id, log, head, kind, rpc, replied,
                      spc, ticket, hand, num, shown, alive>>
      BY <2>3 DEF SetRecord, chanVars, reqVars, strVars
    <3>2. TypeOK'
      BY <2>3, <3>1 DEF SetRecord, IInv, TypeOK
    <3>3. QED
      BY <3>1, <3>2 DEF IInv, QueueInv, Logged, Buffered, ReplyInv, HandInv, ShownInv,
                        IdInv, ApartInv, TicketInv
  <2>4. CASE UNCHANGED vars
    BY <2>4 DEF vars, IInv, TypeOK, QueueInv, Logged, Buffered, ReplyInv, HandInv,
                ShownInv, IdInv, ApartInv, TicketInv
  <2>5. QED
    BY <2>1, <2>2, <2>3, <2>4 DEF Next
<1>2. QED
  BY <1>1, InitIInv, PTL DEF Spec
-----------------------------------------------------------------------------
(***************************************************************************)
(* The safety properties follow from the invariant.                        *)
(***************************************************************************)

\* However many event streams receive and number records at once, every page
\* shows records in sending order and under strictly increasing Ids.
THEOREM ShownInOrderHolds == Spec => []ShownInOrder
<1>1. IInv => ShownInOrder
  BY DEF IInv, ShownInv, ShownInOrder
<1>2. QED
  BY <1>1, InductiveInvariant, PTL

\* No exchange is shown by two pages, or shown by one and still held by any.
THEOREM ShownOnceHolds == Spec => []ShownOnce
<1>1. IInv => ShownOnce
  <2> SUFFICES ASSUME IInv, NEW s \in Streams, NEW t \in Streams, NEW n \in Positions,
                      ShownIn(s, n)
               PROVE  hand[t] # n /\ (ShownIn(t, n) => s = t)
    BY DEF ShownOnce
  <2>1. PICK i \in DOMAIN shown[s] : shown[s][i].no = n
    BY DEF ShownIn
  <2>2. n \in 1..head /\ head \in Nat
    BY <2>1, Parts DEF IInv, ShownInv
  <2>3. CASE s = t
    BY <2>1, <2>2, <2>3 DEF IInv, HandInv
  <2>4. CASE s # t
    BY <2>1, <2>4 DEF IInv, ApartInv, ShownIn
  <2>5. QED
    BY <2>3, <2>4
<1>2. QED
  BY <1>1, InductiveInvariant, PTL

\* No page ever shows a forwarded or replaced exchange, or misreads a record.
THEOREM ShowsOnlyCapturedHolds == Spec => []ShowsOnlyCaptured
<1>1. IInv => ShowsOnlyCaptured
  BY DEF IInv, ShownInv, ShowsOnlyCaptured
<1>2. QED
  BY <1>1, InductiveInvariant, PTL

\* No client of an intercepted HTTP or SSE request is answered before the record
\* of its exchange is in the channel, whatever the capacity.
THEOREM RecordedBeforeReplyHolds == Spec => []RecordedBeforeReply
<1>1. IInv => RecordedBeforeReply
  <2> SUFFICES ASSUME IInv, NEW r \in replied, kind[r] \in RecordFirst
               PROVE  Buffered(r)
    BY DEF RecordedBeforeReply
  <2>1. r \in Requests /\ kind[r] \in Recording
    BY DEF IInv, TypeOK, RecordFirst, Recording, Kinds
  <2>2. QED
    BY <2>1 DEF IInv, ReplyInv, QueueInv
<1>2. QED
  BY <1>1, InductiveInvariant, PTL
-----------------------------------------------------------------------------
(***************************************************************************)
(* The capture pipeline implements the feed: every step of a handler or of *)
(* an event stream is a step of CaptureFeed or a stutter.                  *)
(***************************************************************************)

(* The feed's variables, as Capture's refinement mapping defines them.     *)
Intercepted == {r \in Requests : kind[r] \in RecordFirst}
ShownNos == [s \in Streams |-> [i \in DOMAIN shown[s] |-> shown[s][i].no]]
Gone == {n \in 1..head : ~Held(n) /\ \A s \in Streams : ~ShownIn(s, n)}

LEMMA FeedInit == Init => Feed!Init
<1> SUFFICES ASSUME Init
             PROVE  Feed!Init
  OBVIOUS
<1>1. {r \in Requests : kind[r] \in RecordFirst} = {}
  BY DEF Init, RecordFirst
<1>2. [s \in Streams |-> [i \in DOMAIN shown[s] |-> shown[s][i].no]]
        = [s \in Streams |-> <<>>]
  <2>1. \A s \in Streams : [i \in DOMAIN shown[s] |-> shown[s][i].no] = <<>>
    BY DEF Init
  <2>2. QED
    BY <2>1
<1>3. {n \in 1..head : ~Held(n) /\ \A s \in Streams : ~ShownIn(s, n)} = {}
  BY DEF Init
<1>4. QED
  BY <1>1, <1>2, <1>3 DEF Init, Feed!Init

\* Handlers never change what pages have shown or lost.
LEMMA PagesFrame ==
  ASSUME UNCHANGED <<hand, shown, head>>
  PROVE  UNCHANGED <<ShownNos, Gone>>
<1>1. \A n \in 1..head : /\ Held(n)' <=> Held(n)
                         /\ \A s \in Streams : ShownIn(s, n)' <=> ShownIn(s, n)
  BY DEF Held, ShownIn
<1>2. UNCHANGED ShownNos
  BY DEF ShownNos
<1>3. UNCHANGED Gone
  BY <1>1 DEF Gone
<1>4. QED
  BY <1>2, <1>3
-----------------------------------------------------------------------------
\* Handlers: a record-first arrival is an Intercept, a send is a Record, an
\* answer to the client is an Answer, everything else is invisible.
LEMMA RequestRefines ==
  ASSUME IInv, NEW r \in Requests, RequestStep(r)
  PROVE  [Feed!Next]_(Feed!feedVars)
<1>1. TypeOK /\ ReplyInv /\ QueueInv
  BY DEF IInv
<1>2. UNCHANGED <<hand, shown, head>>
  BY DEF RequestStep, Arrive, UpstreamAnswers, UpstreamFails, Send, Sent, chanVars, strVars
<1>3. UNCHANGED <<ShownNos, Gone>>
  BY <1>2, PagesFrame
<1>4. DOMAIN log = 1..Len(log)
  BY <1>1 DEF TypeOK
<1>5. ASSUME NEW k \in Served, Arrive(r, k)
      PROVE  [Feed!Next]_(Feed!feedVars)
  <2>1. UNCHANGED <<log, replied>> /\ kind' = [kind EXCEPT ![r] = k] /\ rpc[r] = "new"
    BY <1>5 DEF Arrive, chanVars
  <2>2. kind[r] = "none" /\ r \notin replied
    BY <1>1, <2>1 DEF ReplyInv
  <2>3. CASE k \in RecordFirst
    <3>1. Intercepted' = Intercepted \cup {r}
      BY <1>1, <2>1, <2>2, <2>3 DEF Intercepted, TypeOK
    <3>2. \A n \in DOMAIN log : log[n] # r
      BY <1>4, <2>1, NotLogged
    <3>3. Feed!Intercept(r)
      BY <1>3, <2>1, <2>2, <3>1, <3>2
         DEF Feed!Intercept, Feed!Recorded, Intercepted, ShownNos, Gone
    <3>4. QED
      BY <3>3 DEF Feed!Next
  <2>4. CASE k \notin RecordFirst
    <3>1. Intercepted' = Intercepted
      BY <1>1, <2>1, <2>2, <2>4 DEF Intercepted, TypeOK, RecordFirst
    <3>2. QED
      BY <1>3, <2>1, <3>1 DEF Feed!feedVars, Intercepted, ShownNos, Gone
  <2>5. QED
    BY <2>3, <2>4
<1>6. CASE UpstreamAnswers(r)
  <2>1. UNCHANGED <<log, kind>> /\ rpc[r] = "roundtrip"
    BY <1>6 DEF UpstreamAnswers, chanVars
  <2>2. UNCHANGED Intercepted
    BY <2>1 DEF Intercepted
  <2>3. CASE kind[r] \in RecordFirst
    <3>1. replied' = replied
      BY <1>6, <2>3 DEF UpstreamAnswers
    <3>2. QED
      BY <1>3, <2>1, <2>2, <3>1 DEF Feed!feedVars, Intercepted, ShownNos, Gone
  <2>4. CASE kind[r] \notin RecordFirst
    <3>1. replied' = replied \cup {r} /\ r \notin Intercepted
      BY <1>6, <2>4 DEF UpstreamAnswers, Intercepted
    <3>2. Feed!Answer(r)
      BY <1>3, <2>1, <2>2, <3>1 DEF Feed!Answer, Intercepted, ShownNos, Gone
    <3>3. QED
      BY <3>2 DEF Feed!Next
  <2>5. QED
    BY <2>3, <2>4
<1>7. CASE UpstreamFails(r)
  <2>1. UNCHANGED <<log, kind, replied>>
    BY <1>7 DEF UpstreamFails, chanVars
  <2>2. UNCHANGED Intercepted
    BY <2>1 DEF Intercepted
  <2>3. QED
    BY <1>3, <2>1, <2>2 DEF Feed!feedVars, Intercepted, ShownNos, Gone
<1>8. CASE Send(r)
  <2>1. UNCHANGED <<kind, replied>> /\ log' = Append(log, r) /\ rpc[r] = "recording"
    BY <1>8 DEF Send
  <2>2. UNCHANGED Intercepted
    BY <2>1 DEF Intercepted
  <2>3. \A n \in DOMAIN log : log[n] # r
    BY <1>4, <2>1, NotLogged
  <2>4. Feed!Record(r)
    BY <1>3, <2>1, <2>2, <2>3
       DEF Feed!Record, Feed!Recorded, Intercepted, ShownNos, Gone
  <2>5. QED
    BY <2>4 DEF Feed!Next
<1>9. CASE Sent(r)
  <2>1. UNCHANGED <<kind, log>> /\ replied' = replied \cup {r} /\ Buffered(r)
    BY <1>9 DEF Sent, chanVars
  <2>2. UNCHANGED Intercepted
    BY <2>1 DEF Intercepted
  <2>3. \E n \in DOMAIN log : log[n] = r
    BY <1>4, <2>1 DEF Buffered
  <2>4. Feed!Answer(r)
    BY <1>3, <2>1, <2>2, <2>3
       DEF Feed!Answer, Feed!Recorded, Intercepted, ShownNos, Gone
  <2>5. QED
    BY <2>4 DEF Feed!Next
<1>10. QED
  BY <1>5, <1>6, <1>7, <1>8, <1>9 DEF RequestStep
-----------------------------------------------------------------------------
\* The record numbers of a page that has been given one more record.
LEMMA NosAppend ==
  ASSUME NEW q \in Seq(Entry), NEW e \in Entry
  PROVE  [i \in DOMAIN Append(q, e) |-> Append(q, e)[i].no]
           = Append([i \in DOMAIN q |-> q[i].no], e.no)
<1> DEFINE a == [i \in 1..Len(q) |-> q[i].no]
           b == [i \in 1..(Len(q) + 1) |-> Append(q, e)[i].no]
<1>1. /\ Len(q) \in Nat /\ DOMAIN q = 1..Len(q)
      /\ \A i \in 1..Len(q) : q[i].no \in Nat
  <2>1. Len(q) \in Nat /\ DOMAIN q = 1..Len(q)
    BY LenProperties
  <2>2. \A i \in 1..Len(q) : q[i] \in Entry
    BY ElementOfSeq
  <2>3. QED
    BY <2>1, <2>2 DEF Entry
<1>2. /\ Append(q, e) \in Seq(Entry) /\ Len(Append(q, e)) = Len(q) + 1
      /\ DOMAIN Append(q, e) = 1..(Len(q) + 1)
      /\ \A i \in 1..Len(q) : Append(q, e)[i] = q[i]
      /\ Append(q, e)[Len(q) + 1] = e
  BY AppendProperties, LenProperties
<1>3. a \in Seq(Nat) /\ Len(a) = Len(q)
  <2>1. a \in [1..Len(q) -> Nat]
    BY <1>1
  <2>2. QED
    BY <1>1, <2>1
<1>4. b \in Seq(Nat) /\ Len(b) = Len(q) + 1
  <2>1. e.no \in Nat
    BY DEF Entry
  <2>2. \A i \in 1..(Len(q) + 1) : Append(q, e)[i].no \in Nat
    <3>1. \A i \in 1..(Len(q) + 1) : i \in 1..Len(q) \/ i = Len(q) + 1
      BY <1>1
    <3>2. QED
      BY <1>1, <1>2, <2>1, <3>1
  <2>3. b \in [1..(Len(q) + 1) -> Nat]
    BY <2>2
  <2>4. QED
    BY <1>1, <2>3
<1>5. e.no \in Nat
  BY DEF Entry
<1>6. /\ Append(a, e.no) \in Seq(Nat) /\ Len(Append(a, e.no)) = Len(q) + 1
      /\ \A i \in 1..Len(q) : Append(a, e.no)[i] = a[i]
      /\ Append(a, e.no)[Len(q) + 1] = e.no
  BY <1>3, <1>5, AppendProperties
<1>7. \A i \in 1..(Len(q) + 1) : b[i] = Append(a, e.no)[i]
  <2>1. \A i \in 1..(Len(q) + 1) : i \in 1..Len(q) \/ i = Len(q) + 1
    BY <1>1
  <2>2. QED
    BY <1>1, <1>2, <1>6, <2>1
<1>8. b = Append(a, e.no)
  BY <1>4, <1>6, <1>7, SeqEqual
<1>9. QED
  BY <1>1, <1>2, <1>8
-----------------------------------------------------------------------------
\* Event streams: dropping a record and writing to a page that has gone lose it,
\* a delivery shows it, everything else is invisible.
LEMMA ReceiveRefines ==
  ASSUME IInv, NEW s \in Streams, Receive(s)
  PROVE  [Feed!Next]_(Feed!feedVars)
<1>1. TypeOK /\ head \in Nat /\ DOMAIN log = 1..Len(log)
  BY Parts DEF TypeOK
<1>2. /\ UNCHANGED <<kind, replied, log, shown>>
      /\ head < Len(log) /\ head' = head + 1 /\ spc[s] = "select"
  BY DEF Receive, reqVars
<1>3. UNCHANGED <<Intercepted, ShownNos>>
  BY <1>2 DEF Intercepted, ShownNos
<1>4. /\ \A t \in Streams : hand[t] \in 0..head
      /\ \A t \in Streams : \A n \in 1..(head + 1) : ShownIn(t, n) => n # head + 1
      /\ hand[s] = 0
  BY <1>1, <1>2 DEF IInv, HandInv, ShownInv, ShownIn
<1>5. \A t \in Streams : \A n \in 1..(head + 1) : ShownIn(t, n)' <=> ShownIn(t, n)
  BY <1>2 DEF ShownIn
<1>6. \A n \in 1..(head + 1) : n \in 1..head \/ n = head + 1
  BY <1>1
<1>7. CASE hand' = [hand EXCEPT ![s] = head + 1]
  <2>1. hand'[s] = head + 1 /\ \A t \in Streams \ {s} : hand'[t] = hand[t]
    BY <1>1, <1>7 DEF TypeOK
  <2>2. \A n \in 1..head : Held(n)' <=> Held(n)
    BY <1>1, <1>4, <2>1 DEF Held
  <2>3. \A n \in 1..(head + 1) : n = head + 1 => Held(n)'
    BY <2>1 DEF Held
  <2>4. Gone' = Gone
    BY <1>1, <1>2, <1>5, <1>6, <2>2, <2>3 DEF Gone
  <2>5. QED
    BY <1>2, <1>3, <2>4 DEF Feed!feedVars, Intercepted, ShownNos, Gone
<1>8. CASE hand' = hand
  <2>1. \A n \in 1..(head + 1) : Held(n)' <=> Held(n)
    BY <1>8 DEF Held
  <2>2. ~Held(head + 1) /\ \A t \in Streams : ~ShownIn(t, head + 1)
    BY <1>1, <1>4 DEF Held
  <2>3. Gone' = Gone \cup {head + 1}
    BY <1>1, <1>2, <1>5, <1>6, <2>1, <2>2 DEF Gone
  <2>4. head + 1 \in DOMAIN log /\ head + 1 \notin Gone
    BY <1>1, <1>2 DEF Gone, TypeOK
  <2>5. \A t \in Streams : ~\E i \in DOMAIN ShownNos[t] : ShownNos[t][i] = head + 1
    BY <2>2 DEF ShownNos, ShownIn
  <2>6. Feed!Lose(head + 1)
    BY <1>2, <1>3, <2>3, <2>4, <2>5
       DEF Feed!Lose, Feed!Pending, Feed!ShownBy, Intercepted, ShownNos, Gone
  <2>7. QED
    BY <2>4, <2>6 DEF Feed!Next
<1>9. QED
  BY <1>7, <1>8 DEF Receive

\* What is in the hand of a writing stream is pending, and nobody else holds it.
LEMMA WritingIsPending ==
  ASSUME IInv, NEW s \in Streams, spc[s] = "write"
  PROVE  /\ hand[s] \in 1..head /\ hand[s] \in DOMAIN log /\ hand[s] \notin Gone
         /\ \A t \in Streams : /\ ~ShownIn(t, hand[s])
                               /\ t # s => hand[t] # hand[s]
         /\ \A i \in DOMAIN shown[s] : shown[s][i].no < hand[s]
<1>1. TypeOK /\ head \in Nat /\ head <= Len(log) /\ DOMAIN log = 1..Len(log)
  BY Parts DEF TypeOK
<1>2. /\ hand[s] \in 1..head /\ hand[s] # 0
      /\ \A i \in DOMAIN shown[s] : shown[s][i].no < hand[s]
  BY <1>1 DEF IInv, HandInv
<1>3. \A t \in Streams : t # s => hand[t] # hand[s] /\ ~ShownIn(t, hand[s])
  BY <1>2 DEF IInv, ApartInv, ShownIn
<1>4. ~ShownIn(s, hand[s])
  BY <1>1, <1>2 DEF ShownIn
<1>5. hand[s] \notin Gone
  BY DEF Gone, Held
<1>6. QED
  BY <1>1, <1>2, <1>3, <1>4, <1>5

LEMMA DeliverRefines ==
  ASSUME IInv, NEW s \in Streams, Deliver(s)
  PROVE  [Feed!Next]_(Feed!feedVars)
<1> DEFINE e == [no |-> hand[s], id |-> num[s]]
<1>1. TypeOK /\ head \in Nat /\ hand[s] \in Nat /\ num[s] \in Nat
  BY Parts
<1>2. /\ UNCHANGED <<kind, replied, log, head>> /\ spc[s] = "write"
      /\ shown' = [shown EXCEPT ![s] = Append(shown[s], e)]
      /\ hand' = [hand EXCEPT ![s] = 0]
  BY DEF Deliver, reqVars, chanVars
<1>3. UNCHANGED Intercepted
  BY <1>2 DEF Intercepted
<1>4. /\ hand[s] \in 1..head /\ hand[s] \in DOMAIN log /\ hand[s] \notin Gone
      /\ \A t \in Streams : ~ShownIn(t, hand[s])
      /\ \A i \in DOMAIN shown[s] : shown[s][i].no < hand[s]
  BY <1>2, WritingIsPending
<1>5. hand'[s] = 0 /\ \A t \in Streams \ {s} : hand'[t] = hand[t] /\ shown'[t] = shown[t]
  BY <1>1, <1>2 DEF TypeOK
<1>6. shown'[s] = Append(shown[s], e)
  BY <1>1, <1>2 DEF TypeOK
<1>7. e \in Entry /\ shown[s] \in Seq(Entry)
  BY <1>1, ShownType DEF Entry
<1>8. ShownNos' = [ShownNos EXCEPT ![s] = Append(@, hand[s])]
  <2>1. \A t \in Streams \ {s} : ShownNos'[t] = ShownNos[t]
    BY <1>5 DEF ShownNos
  <2>2. ShownNos'[s] = Append(ShownNos[s], hand[s])
    <3>1. [i \in DOMAIN Append(shown[s], e) |-> Append(shown[s], e)[i].no]
            = Append([i \in DOMAIN shown[s] |-> shown[s][i].no], e.no)
      BY <1>7, NosAppend
    <3>2. QED
      BY <1>6, <3>1 DEF ShownNos
  <2>3. QED
    BY <2>1, <2>2 DEF ShownNos
<1>9. Gone' = Gone
  <2>1. \A t \in Streams : \A n \in 1..head :
          ShownIn(t, n)' <=> ShownIn(t, n) \/ (t = s /\ n = hand[s])
    <3>1. \A t \in Streams \ {s} : \A n \in 1..head : ShownIn(t, n)' <=> ShownIn(t, n)
      BY <1>5 DEF ShownIn
    <3>2. /\ DOMAIN shown[s] = 1..Len(shown[s]) /\ Len(shown[s]) \in Nat
          /\ DOMAIN shown'[s] = 1..(Len(shown[s]) + 1)
          /\ shown'[s][Len(shown[s]) + 1] = e
          /\ \A i \in 1..Len(shown[s]) : shown'[s][i] = shown[s][i]
      BY <1>6, <1>7, AppendProperties, LenProperties
    <3>3. ASSUME NEW n \in 1..head, ShownIn(s, n)
          PROVE  ShownIn(s, n)'
      BY <3>2, <3>3 DEF ShownIn
    <3>4. ASSUME NEW n \in 1..head, ShownIn(s, n)'
          PROVE  ShownIn(s, n) \/ n = hand[s]
      <4>1. PICK i \in 1..(Len(shown[s]) + 1) : shown'[s][i].no = n
        BY <3>2, <3>4 DEF ShownIn
      <4>2. CASE i = Len(shown[s]) + 1
        BY <3>2, <4>1, <4>2
      <4>3. CASE i \in 1..Len(shown[s])
        BY <3>2, <4>1, <4>3 DEF ShownIn
      <4>4. QED
        BY <3>2, <4>2, <4>3
    <3>5. ASSUME NEW n \in 1..head, n = hand[s]
          PROVE  ShownIn(s, n)'
      <4>1. Len(shown[s]) + 1 \in DOMAIN shown'[s]
        BY <3>2
      <4>2. shown'[s][Len(shown[s]) + 1].no = n
        BY <3>2, <3>5
      <4>3. QED
        BY <4>1, <4>2 DEF ShownIn
    <3>6. QED
      BY <3>1, <3>3, <3>4, <3>5
  <2>2. \A n \in 1..head : Held(n) <=> Held(n)' \/ n = hand[s]
    BY <1>5 DEF Held
  <2>3. QED
    BY <1>2, <1>4, <2>1, <2>2 DEF Gone
<1>10. \A t \in Streams : ~\E i \in DOMAIN ShownNos[t] : ShownNos[t][i] = hand[s]
  BY <1>4 DEF ShownNos, ShownIn
<1>11. \A i \in DOMAIN ShownNos[s] : ShownNos[s][i] < hand[s]
  BY <1>4 DEF ShownNos
<1>12. PICK n \in DOMAIN log : n = hand[s]
  BY <1>4
<1>13. Feed!Show(s, n)
  BY <1>2, <1>3, <1>4, <1>8, <1>9, <1>10, <1>11, <1>12
     DEF Feed!Show, Feed!Pending, Feed!ShownBy, Intercepted, ShownNos, Gone
<1>14. QED
  BY <1>13 DEF Feed!Next

LEMMA WriteLostRefines ==
  ASSUME IInv, NEW s \in Streams, WriteLost(s)
  PROVE  [Feed!Next]_(Feed!feedVars)
<1>1. TypeOK /\ head \in Nat
  BY Parts
<1>2. /\ UNCHANGED <<kind, replied, log, head, shown>> /\ spc[s] = "write"
      /\ hand' = [hand EXCEPT ![s] = 0]
  BY DEF WriteLost, reqVars, chanVars
<1>3. UNCHANGED <<Intercepted, ShownNos>>
  BY <1>2 DEF Intercepted, ShownNos
<1>4. /\ hand[s] \in 1..head /\ hand[s] \in DOMAIN log /\ hand[s] \notin Gone
      /\ \A t \in Streams : ~ShownIn(t, hand[s]) /\ (t # s => hand[t] # hand[s])
  BY <1>2, WritingIsPending
<1>5. hand'[s] = 0 /\ \A t \in Streams \ {s} : hand'[t] = hand[t]
  BY <1>1, <1>2 DEF TypeOK
<1>6. Gone' = Gone \cup {hand[s]}
  <2>1. \A t \in Streams : \A n \in 1..head : ShownIn(t, n)' <=> ShownIn(t, n)
    BY <1>2 DEF ShownIn
  <2>2. \A n \in 1..head : Held(n)' <=> Held(n) /\ n # hand[s]
    BY <1>4, <1>5 DEF Held
  <2>3. QED
    BY <1>2, <1>4, <2>1, <2>2 DEF Gone
<1>7. \A t \in Streams : ~\E i \in DOMAIN ShownNos[t] : ShownNos[t][i] = hand[s]
  BY <1>4 DEF ShownNos, ShownIn
<1>8. Feed!Lose(hand[s])
  BY <1>2, <1>3, <1>4, <1>6, <1>7
     DEF Feed!Lose, Feed!Pending, Feed!ShownBy, Intercepted, ShownNos, Gone
<1>9. QED
  BY <1>4, <1>8 DEF Feed!Next

\* The detailed pipeline implements the abstract feed, for any number of
\* requests and pages and any channel capacity.
THEOREM CaptureImplementsFeed == Spec => FeedSpec
<1>1. IInv /\ [Next]_vars => [Feed!Next]_(Feed!feedVars)
  <2> SUFFICES ASSUME IInv, [Next]_vars
               PROVE  [Feed!Next]_(Feed!feedVars)
    OBVIOUS
  <2>1. ASSUME NEW r \in Requests, RequestStep(r)
        PROVE  [Feed!Next]_(Feed!feedVars)
    BY <2>1, RequestRefines
  <2>2. ASSUME UNCHANGED <<kind, replied, log, head, hand, shown>>
        PROVE  [Feed!Next]_(Feed!feedVars)
    <3>1. UNCHANGED <<ShownNos, Gone>>
      BY <2>2, PagesFrame
    <3>2. QED
      BY <2>2, <3>1 DEF Feed!feedVars, Intercepted, ShownNos, Gone
  <2>3. ASSUME NEW s \in Streams, Open(s) \/ StreamStep(s) \/ Disconnect(s)
        PROVE  [Feed!Next]_(Feed!feedVars)
    <3>1. CASE Receive(s)
      BY <3>1, ReceiveRefines
    <3>2. CASE Deliver(s)
      BY <3>2, DeliverRefines
    <3>3. CASE WriteLost(s)
      BY <3>3, WriteLostRefines
    <3>4. CASE \/ Open(s) \/ Disconnect(s) \/ CheckRecord(s) \/ Empty(s)
               \/ CheckTicket(s) \/ AddId(s) \/ LoadId(s) \/ Close(s)
      <4>1. UNCHANGED <<kind, replied, log, head, hand, shown>>
        BY <3>4 DEF Open, Disconnect, CheckRecord, Empty, CheckTicket, AddId, LoadId,
                    Close, reqVars, chanVars
      <4>2. QED
        BY <2>2, <4>1
    <3>5. QED
      BY <2>3, <3>1, <3>2, <3>3, <3>4 DEF StreamStep
  <2>4. ASSUME NEW b \in BOOLEAN, SetRecord(b)
        PROVE  [Feed!Next]_(Feed!feedVars)
    <3>1. UNCHANGED <<kind, replied, log, head, hand, shown>>
      BY <2>4 DEF SetRecord, reqVars, chanVars, strVars
    <3>2. QED
      BY <2>2, <3>1
  <2>5. CASE UNCHANGED vars
    <3>1. UNCHANGED <<kind, replied, log, head, hand, shown>>
      BY <2>5 DEF vars
    <3>2. QED
      BY <2>2, <3>1
  <2>6. QED
    BY <2>1, <2>3, <2>4, <2>5 DEF Next
<1>2. QED
  BY <1>1, FeedInit, InductiveInvariant, PTL DEF Spec, FeedSpec, Feed!Spec
=============================================================================
