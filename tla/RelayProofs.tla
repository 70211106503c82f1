---------------------------- MODULE RelayProofs -----------------------------
(***************************************************************************)
(* What an exchange never loses in silence and what its record holds, for  *)
(* every capacity of the record and every number of messages.              *)
(***************************************************************************)
EXTENDS Relay, TLAPS

(* Only lines can be too long, and only an SSE client is told of an error. *)
KindInv == kind = "websocket" => long = {} /\ ~told

(* What a loop has in hand is still to be written, to be recorded, or both.*)
Unwritten(e) == pc[e] = "write" \/ (pc[e] = "record" /\ kind = "websocket")
Unrecorded(e) == pc[e] = "record" \/ (pc[e] = "write" /\ kind = "sse")

(* A loop reads no more than was sent and passes on no more than it has.   *)
OrderInv ==
  \A e \in Peers :
    /\ taken[e] <= sent[e] /\ passed[e] <= taken[e]
    /\ Unwritten(e) => passed[e] < taken[e]

(* As long as a peer is there, nothing else on its way to it has been read *)
(* and not been both written to it and recorded.                           *)
InHand(e) ==
  /\ taken[e] = passed[e] + (IF Unwritten(e) THEN 1 ELSE 0)
  /\ taken[e] = recorded[e] + (IF Unrecorded(e) THEN 1 ELSE 0)

CountInv == \A e \in Peers : conn[Other(e)] = "open" => InHand(e)

(* Why a loop whose reader's peer is still there has ended.                *)
EndInv ==
  \A e \in Sources :
    pc[e] = "ended" /\ conn[Other(e)] = "open" =>
      \/ conn[e] = "closed" /\ taken[e] = sent[e]
      \/ told
      \/ kind = "websocket" /\ conn[e] = "broken"

(* The handler has waited for its loops: none is left when it closes the   *)
(* record's channels.                                                      *)
WaitInv == handler = "returned" => \A e \in Sources : pc[e] = "ended"

IInv == TypeOK /\ OrderInv /\ KindInv /\ CountInv /\ EndInv /\ WaitInv
-----------------------------------------------------------------------------
LEMMA SourcesFact ==
  /\ Sources \subseteq Peers
  /\ \A e \in Peers : Other(e) \in Peers /\ Other(e) # e /\ Other(Other(e)) = e
  BY DEF Sources, Peers, Other

LEMMA Initial == Init => IInv
<1> SUFFICES ASSUME Init PROVE IInv
  OBVIOUS
<1> USE DEF Init
<1>1. TypeOK
  <2>1. 0 \in 0..Messages /\ 0 \in 0..Cap
    BY CapAssumption, MessagesAssumption
  <2> QED BY <2>1 DEF TypeOK
<1>2. OrderInv /\ KindInv
  BY DEF OrderInv, KindInv, Unwritten
<1>3. CountInv
  BY DEF CountInv, InHand, Unwritten, Unrecorded
<1>4. EndInv /\ WaitInv
  BY SourcesFact DEF EndInv, WaitInv
<1> QED BY <1>1, <1>2, <1>3, <1>4 DEF IInv

(* Peers that send or leave move none of the loops' counters. What is sent *)
(* comes from a peer that is there, so its loop has not ended well.        *)
LEMMA PeerSendsStep ==
  ASSUME IInv, NEW e \in Peers, NEW isLong \in BOOLEAN, PeerSends(e, isLong)
  PROVE  IInv'
<1> USE MessagesAssumption DEF PeerSends, loopVars
<1>1. TypeOK'
  <2>1. sent[e] + 1 \in 1..Messages
    BY DEF IInv, TypeOK
  <2>2. sent' \in [Peers -> 0..Messages]
    BY <2>1 DEF IInv, TypeOK
  <2>3. long' \in {long, long \cup {sent[e] + 1}}
    BY Zenon
  <2>4. long' \subseteq 1..Messages
    BY <2>1, <2>3 DEF IInv, TypeOK
  <2> QED BY <2>2, <2>4 DEF IInv, TypeOK
<1>2. OrderInv'
  BY DEF IInv, TypeOK, OrderInv, Unwritten
<1>3. KindInv'
  BY DEF IInv, KindInv
<1>4. CountInv'
  BY DEF IInv, CountInv, InHand, Unwritten, Unrecorded
<1>5. EndInv'
  BY SourcesFact DEF IInv, TypeOK, EndInv, Sources
<1>6. WaitInv'
  BY DEF IInv, WaitInv, Sources
<1> QED BY <1>1, <1>2, <1>3, <1>4, <1>5, <1>6 DEF IInv

LEMMA PeerLeavesStep ==
  ASSUME IInv, NEW e \in Peers, NEW how \in {"closed", "broken"}, PeerLeaves(e, how)
  PROVE  IInv'
<1> USE DEF PeerLeaves, loopVars
<1>1. TypeOK'
  BY DEF IInv, TypeOK
<1>2. OrderInv'
  BY DEF IInv, OrderInv, Unwritten
<1>3. KindInv'
  BY DEF IInv, KindInv
<1>4. CountInv'
  BY SourcesFact DEF IInv, TypeOK, CountInv, InHand, Unwritten, Unrecorded
<1>5. EndInv'
  BY SourcesFact DEF IInv, TypeOK, EndInv, Sources
<1>6. WaitInv'
  BY DEF IInv, WaitInv, Sources
<1> QED BY <1>1, <1>2, <1>3, <1>4, <1>5, <1>6 DEF IInv

(* A step of a loop: one case per action, under it one step per conjunct.  *)
(* A loop that moves has not ended, so the handler has not returned.       *)
LEMMA LoopFrame ==
  ASSUME IInv, NEW e \in Sources, Loop(e)
  PROVE  /\ pc[e] # "ended" /\ handler = "running"
         /\ UNCHANGED <<kind, conn, sent, long, handler>>
         /\ WaitInv'
  BY SourcesFact
     DEF IInv, TypeOK, WaitInv, Loop, Read, ReadEnds, ReadFails, Record, Write,
         WriteFails, loopVars

LEMMA ReadStep ==
  ASSUME IInv, NEW e \in Sources, Read(e)
  PROVE  IInv'
<1>1. e \in Peers /\ UNCHANGED <<kind, conn, sent, long, recorded, passed, told, handler>>
  BY SourcesFact DEF Read
<1>2. /\ pc[e] = "read" /\ taken[e] < sent[e]
      /\ taken' = [taken EXCEPT ![e] = @ + 1] /\ pc' = [pc EXCEPT ![e] = AfterRead]
  BY DEF Read, Go
<1>3. TypeOK'
  BY <1>1, <1>2, MessagesAssumption DEF IInv, TypeOK, AfterRead, OrderInv, Unwritten
<1>4. OrderInv'
  BY <1>1, <1>2 DEF IInv, TypeOK, OrderInv, Unwritten
<1>5. KindInv'
  BY <1>1 DEF IInv, KindInv
<1>6. CountInv'
  BY <1>1, <1>2 DEF IInv, TypeOK, CountInv, InHand, Unwritten, Unrecorded, AfterRead
<1>7. EndInv'
  BY <1>1, <1>2, SourcesFact DEF IInv, TypeOK, EndInv, AfterRead, Sources
<1> QED BY <1>3, <1>4, <1>5, <1>6, <1>7, LoopFrame DEF IInv, Loop

LEMMA ReadEndsStep ==
  ASSUME IInv, NEW e \in Sources, ReadEnds(e)
  PROVE  IInv'
<1>1. /\ e \in Peers
      /\ UNCHANGED <<kind, conn, sent, long, taken, recorded, passed, told, handler>>
  BY SourcesFact DEF ReadEnds, loopVars
<1>2. /\ pc[e] = "read" /\ conn[e] = "closed" /\ taken[e] = sent[e]
      /\ pc' = [pc EXCEPT ![e] = "ended"]
  BY DEF ReadEnds, Go
<1>3. TypeOK' /\ OrderInv' /\ KindInv'
  BY <1>1, <1>2 DEF IInv, TypeOK, OrderInv, Unwritten, KindInv
<1>4. CountInv'
  BY <1>1, <1>2 DEF IInv, TypeOK, CountInv, InHand, Unwritten, Unrecorded
<1>5. EndInv'
  BY <1>1, <1>2, SourcesFact DEF IInv, TypeOK, EndInv, Sources
<1> QED BY <1>3, <1>4, <1>5, LoopFrame DEF IInv, Loop

LEMMA ReadFailsStep ==
  ASSUME IInv, NEW e \in Sources, ReadFails(e)
  PROVE  IInv'
<1>1. /\ e \in Peers
      /\ UNCHANGED <<kind, conn, sent, long, taken, recorded, passed, handler>>
  BY SourcesFact DEF ReadFails
<1>2. /\ pc[e] = "read" /\ (conn[e] = "broken" \/ taken[e] + 1 \in long)
      /\ told' = (kind = "sse") /\ pc' = [pc EXCEPT ![e] = "ended"]
  BY DEF ReadFails, Go
<1>3. TypeOK' /\ OrderInv' /\ KindInv'
  BY <1>1, <1>2 DEF IInv, TypeOK, OrderInv, Unwritten, KindInv
<1>4. CountInv'
  BY <1>1, <1>2 DEF IInv, TypeOK, CountInv, InHand, Unwritten, Unrecorded
<1>5. EndInv'
  BY <1>1, <1>2, SourcesFact DEF IInv, TypeOK, KindInv, EndInv, Sources
<1> QED BY <1>3, <1>4, <1>5, LoopFrame DEF IInv, Loop

LEMMA RecordStep ==
  ASSUME IInv, NEW e \in Sources, Record(e)
  PROVE  IInv'
<1>1. e \in Peers /\ UNCHANGED <<kind, conn, sent, long, taken, passed, told, handler>>
  BY SourcesFact DEF Record
<1>2. /\ pc[e] = "record" /\ recorded[e] < Cap
      /\ recorded' = [recorded EXCEPT ![e] = @ + 1] /\ pc' = [pc EXCEPT ![e] = AfterRecord]
  BY DEF Record, Go
<1>3. TypeOK'
  BY <1>1, <1>2, CapAssumption DEF IInv, TypeOK, AfterRecord
<1>4. KindInv'
  BY <1>1 DEF IInv, KindInv
<1>5. CountInv'
  BY <1>1, <1>2 DEF IInv, TypeOK, CountInv, InHand, Unwritten, Unrecorded, AfterRecord
<1>6. OrderInv'
  BY <1>1, <1>2 DEF IInv, TypeOK, OrderInv, Unwritten, AfterRecord
<1>7. EndInv'
  BY <1>1, <1>2, SourcesFact DEF IInv, TypeOK, EndInv, AfterRecord, Sources
<1> QED BY <1>3, <1>4, <1>5, <1>6, <1>7, LoopFrame DEF IInv, Loop

LEMMA WriteStep ==
  ASSUME IInv, NEW e \in Sources, Write(e)
  PROVE  IInv'
<1>1. e \in Peers /\ UNCHANGED <<kind, conn, sent, long, taken, recorded, told, handler>>
  BY SourcesFact DEF Write
<1>2. /\ pc[e] = "write" /\ pc' = [pc EXCEPT ![e] = AfterWrite]
      /\ passed' = [passed EXCEPT ![e] = IF conn[Other(e)] = "open" THEN @ + 1 ELSE @]
  BY DEF Write, Go
<1>3. TypeOK'
  BY <1>1, <1>2, MessagesAssumption DEF IInv, TypeOK, OrderInv, Unwritten, AfterWrite
<1>4. OrderInv'
  BY <1>1, <1>2 DEF IInv, TypeOK, OrderInv, Unwritten, AfterWrite
<1>5. KindInv'
  BY <1>1 DEF IInv, KindInv
<1>6. CountInv'
  BY <1>1, <1>2 DEF IInv, TypeOK, CountInv, InHand, Unwritten, Unrecorded, AfterWrite
<1>7. EndInv'
  BY <1>1, <1>2, SourcesFact DEF IInv, TypeOK, EndInv, AfterWrite, Sources
<1> QED BY <1>3, <1>4, <1>5, <1>6, <1>7, LoopFrame DEF IInv, Loop

\* The peer that was written to has gone: of its messages nothing is claimed.
LEMMA WriteFailsStep ==
  ASSUME IInv, NEW e \in Sources, WriteFails(e)
  PROVE  IInv'
<1>1. /\ e \in Peers
      /\ UNCHANGED <<kind, conn, sent, long, taken, recorded, passed, told, handler>>
  BY SourcesFact DEF WriteFails, loopVars
<1>2. pc[e] = "write" /\ conn[Other(e)] # "open" /\ pc' = [pc EXCEPT ![e] = "ended"]
  BY DEF WriteFails, Go
<1>3. TypeOK' /\ OrderInv' /\ KindInv'
  BY <1>1, <1>2 DEF IInv, TypeOK, OrderInv, Unwritten, KindInv
<1>4. CountInv'
  BY <1>1, <1>2 DEF IInv, TypeOK, CountInv, InHand, Unwritten, Unrecorded
<1>5. EndInv'
  BY <1>1, <1>2, SourcesFact DEF IInv, TypeOK, EndInv, Sources
<1> QED BY <1>3, <1>4, <1>5, LoopFrame DEF IInv, Loop

LEMMA ReturnStep == IInv /\ Return => IInv'
  BY DEF IInv, Return, loopVars, TypeOK, OrderInv, KindInv, CountInv, InHand, Unwritten, Unrecorded, EndInv,
         WaitInv, Sources

LEMMA Inductive == IInv /\ [Next]_vars => IInv'
<1> SUFFICES ASSUME IInv, [Next]_vars PROVE IInv'
  OBVIOUS
<1>1. CASE UNCHANGED vars
  BY <1>1 DEF vars, IInv, TypeOK, OrderInv, KindInv, CountInv, InHand, Unwritten, Unrecorded, EndInv,
              WaitInv, Sources
<1>2. ASSUME NEW e \in Sources, Loop(e)
      PROVE  IInv'
  BY <1>2, ReadStep, ReadEndsStep, ReadFailsStep, RecordStep, WriteStep, WriteFailsStep
     DEF Loop
<1> QED BY <1>1, <1>2, PeerSendsStep, PeerLeavesStep, ReturnStep DEF Next

LEMMA AlwaysIInv == Spec => []IInv
  BY Initial, Inductive, PTL DEF Spec
-----------------------------------------------------------------------------
(* The state is of its type in every exchange; a record never holds more   *)
(* than its channel has room for.                                          *)
THEOREM TypeCorrect == Spec => []TypeOK
<1>1. IInv => TypeOK
  BY DEF IInv
<1> QED BY <1>1, AlwaysIInv, PTL

(* A loop that ends while its reader's peer is there has passed on all that*)
(* was sent, or the sender's connection broke, or the client was told.     *)
THEOREM LossIsToldHolds == Spec => []LossIsTold
<1>1. IInv => LossIsTold
  BY SourcesFact DEF IInv, TypeOK, CountInv, InHand, Unwritten, Unrecorded, EndInv, LossIsTold
<1> QED BY <1>1, AlwaysIInv, PTL

(* The record of a finished exchange holds what the peer that stayed has   *)
(* received: it lacks nothing, whichever end of the loop came first.       *)
THEOREM RecordIsCompleteHolds == Spec => []RecordIsComplete
<1>1. IInv => RecordIsComplete
  BY SourcesFact DEF IInv, TypeOK, WaitInv, CountInv, InHand, Unwritten, Unrecorded, RecordIsComplete
<1> QED BY <1>1, AlwaysIInv, PTL
=============================================================================
