--------------------------- MODULE HandlersProofs ---------------------------
(***************************************************************************)
(* What pooled objects and buffers may carry from one request to another,  *)
(* for any number of requests.                                             *)
(***************************************************************************)
EXTENDS Handlers, TLAPS

(* The object named by a request that has not begun has not been made.     *)
FreshInv ==
  \A r \in Requests : pc[r] = "new" =>
    /\ r \notin idle /\ \A s \in Using : object[s] # r
    /\ \A c \in Callbacks : set[r][c] = None
    /\ answer[r] = "none"

(* The object in use holds its user's callbacks, the pooled ones neither of*)
(* the two that are cleared. The third is there only if handleHttp set it. *)
HoldInv ==
  /\ \A r \in Using :
       /\ Holds(r).rewrite = r
       /\ kind[r] = "http" => Holds(r).modify = r /\ Holds(r).onError = r
       /\ kind[r] = "forward" => Holds(r).modify = None
  /\ \A o \in idle : set[o].rewrite = None /\ set[o].modify = None
  /\ \A o \in Requests : set[o].onError # None => "http" \in served[o]

(* Only an intercepted request gets into its own ModifyResponse, and so    *)
(* only its response is compressed and recorded.                           *)
ModifyInv ==
  /\ \A r \in Requests :
       pc[r] \in {"modify", "put", "record"} => kind[r] = "http" /\ ran[r].modify = r
  /\ \A r \in records : kind[r] = "http"
  /\ \A r \in Requests :
       pc[r] \in {"new", "sent", "modify"} \/ kind[r] = "forward" => slice[r] = None

(* Until its body is out, what is in the array behind it is its own, or of *)
(* a request that compressed since.                                        *)
SliceInv == \A r \in Pending : bytes[slice[r]] \in {r} \cup overlap[r]

(* The deferred pool.Put has a buffer to put back.                         *)
BufferInv == \A r \in Requests : pc[r] = "put" => buffer[r] \in Requests

IInv == TypeOK /\ FreshInv /\ HoldInv /\ ModifyInv /\ SliceInv /\ BufferInv
          /\ OwnCallbacks /\ FailuresAreTold /\ ForeignBytesOverlap
-----------------------------------------------------------------------------
LEMMA Initial == Init => IInv
<1> SUFFICES ASSUME Init PROVE IInv
  OBVIOUS
<1> USE DEF Init, Using
<1>1. TypeOK
  BY DEF TypeOK
<1>2. FreshInv /\ ModifyInv /\ SliceInv /\ BufferInv
  BY DEF FreshInv, ModifyInv, SliceInv, BufferInv, Pending
<1>3. HoldInv
  <2>1. \A o \in Requests : \A c \in Callbacks : set[o][c] = None
    OBVIOUS
  <2>2. \A o \in Requests : set[o].onError = None
    BY <2>1 DEF Callbacks
  <2> QED BY <2>2 DEF HoldInv
<1>4. OwnCallbacks /\ FailuresAreTold /\ ForeignBytesOverlap
  BY DEF OwnCallbacks, FailuresAreTold, ForeignBytesOverlap, Callbacks
<1> QED BY <1>1, <1>2, <1>3, <1>4 DEF IInv

(* A request takes an object nobody else has, whose callbacks are cleared. *)
LEMMA TakenIsClean ==
  ASSUME IInv, NEW r \in Requests, pc[r] = "new", NEW o \in Get(idle, r)
  PROVE  /\ o \in Requests /\ set[o].rewrite = None /\ set[o].modify = None
         /\ \A s \in Using : object[s] # o
         /\ \A s \in Requests : pc[s] = "new" /\ s # r => s # o
  BY DEF IInv, TypeOK, FreshInv, HoldInv, Get, Callbacks

(* A step of a request between taking its object and giving it back leaves *)
(* what is said of objects as it is.                                       *)
LEMMA BetweenStep ==
  ASSUME IInv, NEW r \in Using,
         NEW p \in {"sent", "modify", "put", "record", "copy", "more", "return"}, Go(r, p),
         UNCHANGED <<kind, proxyVars>>, \A s \in Requests \ {r} : answer'[s] = answer[s]
  PROVE  /\ Using' = Using /\ FreshInv' /\ HoldInv'
         /\ \A s \in Using' : object'[s] \in Requests \ idle'
         /\ \A s, t \in Using' : object'[s] = object'[t] => s = t
         /\ pc' \in [Requests -> {"new", "sent", "modify", "put", "record", "copy", "more",
                                  "return", "done"}]
<1> USE DEF IInv, TypeOK, Go, proxyVars
<1>1. pc' = [pc EXCEPT ![r] = p] /\ r \in Requests
  BY DEF Using
<1>2. Using' = Using
  BY <1>1 DEF Using
<1>3. FreshInv'
  BY <1>1, <1>2 DEF FreshInv
<1>4. HoldInv'
  BY <1>2 DEF HoldInv, Holds
<1> QED BY <1>1, <1>2, <1>3, <1>4

(* Taking an object: the caller fills in its callbacks.                    *)
LEMMA TakeStep ==
  ASSUME IInv, NEW r \in Requests, handleHttp(r) \/ forward(r)
  PROVE  IInv'
<1> USE DEF IInv, TypeOK
<1>1. /\ pc[r] = "new" /\ pc' = [pc EXCEPT ![r] = "sent"]
      /\ UNCHANGED <<kind, spare, buffer, array, bytes, slice, overlap, ran, records, answer,
                     body>>
  BY DEF handleHttp, forward, Go, gzipVars, seenVars
<1>2. PICK o \in Get(idle, r) :
        /\ Took(r, o)
        /\ \/ kind[r] = "http" /\ set' = [set EXCEPT ![o] = [c \in Callbacks |-> r]]
           \/ kind[r] = "forward" /\ set' = [set EXCEPT ![o].rewrite = r]
  BY DEF handleHttp, forward
<1>3. /\ object' = [object EXCEPT ![r] = o] /\ idle' = idle \ {o}
      /\ served' = [served EXCEPT ![o] = @ \cup {kind[r]}]
  BY <1>2 DEF Took
<1>4. /\ o \in Requests /\ set[o].rewrite = None /\ set[o].modify = None
      /\ \A s \in Using : object[s] # o
      /\ \A s \in Requests : pc[s] = "new" /\ s # r => s # o
  BY <1>1, TakenIsClean
<1>5. Using' = Using \cup {r} /\ r \notin Using
  BY <1>1 DEF Using
<1>6. /\ set' \in [Requests -> [Callbacks -> Requests \cup {None}]]
      /\ \A s \in Requests \ {o} : set'[s] = set[s]
      /\ set'[o].rewrite = r
      /\ kind[r] = "http" => set'[o].modify = r /\ set'[o].onError = r
      /\ kind[r] = "forward" => set'[o].modify = None /\ set'[o].onError = set[o].onError
  <2>1. CASE kind[r] = "http" /\ set' = [set EXCEPT ![o] = [c \in Callbacks |-> r]]
    <3>1. set'[o] = [c \in Callbacks |-> r] /\ \A s \in Requests \ {o} : set'[s] = set[s]
      BY <2>1, <1>4
    <3>2. [c \in Callbacks |-> r] \in [Callbacks -> Requests \cup {None}]
      OBVIOUS
    <3>3. set' \in [Requests -> [Callbacks -> Requests \cup {None}]]
      BY <2>1, <3>2
    <3>4. set'[o].rewrite = r /\ set'[o].modify = r /\ set'[o].onError = r
      BY <3>1 DEF Callbacks
    <3> QED BY <2>1, <3>1, <3>3, <3>4
  <2>2. CASE kind[r] = "forward" /\ set' = [set EXCEPT ![o].rewrite = r]
    <3> DEFINE new == [set[o] EXCEPT !["rewrite"] = r]
    <3>1. set' = [set EXCEPT ![o] = new]
      BY <2>2
    <3>2. set[o] \in [Callbacks -> Requests \cup {None}]
      BY <1>4
    <3>3. /\ new \in [Callbacks -> Requests \cup {None}] /\ new["rewrite"] = r
          /\ new["modify"] = set[o]["modify"] /\ new["onError"] = set[o]["onError"]
      BY <3>2 DEF Callbacks
    <3> HIDE DEF new
    <3>4. set' \in [Requests -> [Callbacks -> Requests \cup {None}]]
      BY <3>1, <3>3
    <3>5. set'[o] = new /\ \A s \in Requests \ {o} : set'[s] = set[s]
      BY <3>1, <1>4
    <3> QED BY <2>2, <3>3, <3>4, <3>5, <1>4
  <2> QED BY <1>2, <2>1, <2>2
<1>7. TypeOK'
  <2>1. /\ pc' \in [Requests -> {"new", "sent", "modify", "put", "record", "copy", "more",
                                 "return", "done"}]
        /\ idle' \in SUBSET Requests /\ object' \in [Requests -> Requests \cup {None}]
    BY <1>1, <1>3, <1>4
  <2>2. served' \in [Requests -> SUBSET {"http", "forward"}]
    BY <1>3, <1>4
  <2>3. \A s \in Using' : object'[s] \in Requests \ idle'
    BY <1>3, <1>4, <1>5 DEF Using
  <2>4. \A s, t \in Using' : object'[s] = object'[t] => s = t
    BY <1>3, <1>4, <1>5 DEF Using
  <2> HIDE DEF TypeOK, IInv
  <2>5. /\ kind' = kind /\ spare' = spare /\ buffer' = buffer /\ array' = array
        /\ bytes' = bytes /\ slice' = slice /\ overlap' = overlap /\ ran' = ran
        /\ records' = records /\ answer' = answer /\ body' = body
    BY <1>1
  <2> QED BY <1>6, <2>1, <2>2, <2>3, <2>4, <2>5 DEF TypeOK, IInv
<1>8. FreshInv'
  BY <1>1, <1>3, <1>4, <1>5, <1>6 DEF FreshInv
<1>9. HoldInv'
  <2>1. ASSUME NEW s \in Using'
        PROVE  /\ Holds(s)'.rewrite = s
               /\ kind'[s] = "http" => Holds(s)'.modify = s /\ Holds(s)'.onError = s
               /\ kind'[s] = "forward" => Holds(s)'.modify = None
    BY <1>1, <1>3, <1>4, <1>5, <1>6, <2>1 DEF HoldInv, Holds, Using
  <2>2. \A q \in idle' : set'[q].rewrite = None /\ set'[q].modify = None
    BY <1>3, <1>6 DEF HoldInv
  <2>3. \A q \in Requests : set'[q].onError # None => "http" \in served'[q]
    BY <1>3, <1>4, <1>6 DEF HoldInv
  <2> QED BY <2>1, <2>2, <2>3 DEF HoldInv, Holds
<1>10. ModifyInv' /\ SliceInv' /\ BufferInv'
  BY <1>1 DEF ModifyInv, SliceInv, BufferInv, Pending
<1>11. OwnCallbacks' /\ ForeignBytesOverlap'
  BY <1>1 DEF OwnCallbacks, ForeignBytesOverlap
<1>12. FailuresAreTold'
  BY <1>1, <1>3, <1>4 DEF FreshInv, FailuresAreTold
<1> QED BY <1>7, <1>8, <1>9, <1>10, <1>11, <1>12

(* The bytes of a body that is still to be sent stay what they were.       *)
LEMMA PendingStep ==
  ASSUME IInv, NEW r \in Requests, NEW p, Go(r, p), UNCHANGED <<slice, bytes, overlap>>,
         r \in Pending \/ slice[r] = None \/ p \notin {"put", "record", "copy", "more"}
  PROVE  SliceInv'
<1>1. pc \in [Requests -> {"new", "sent", "modify", "put", "record", "copy", "more", "return",
                           "done"}]
  BY DEF IInv, TypeOK
<1>2. Pending' \subseteq Pending
  BY <1>1 DEF Pending, Go
<1> QED BY <1>2 DEF IInv, SliceInv

LEMMA Updated ==
  ASSUME NEW A, NEW B, NEW f \in [A -> B], NEW a \in A, NEW b \in B
  PROVE  /\ [f EXCEPT ![a] = b] \in [A -> B]
         /\ [f EXCEPT ![a] = b][a] = b
         /\ \A x \in A \ {a} : [f EXCEPT ![a] = b][x] = f[x]
  OBVIOUS

(* The callbacks that are run are the object's.                            *)
LEMMA RunStep ==
  ASSUME IInv, NEW r \in Using, NEW c \in {"modify", "onError"},
         ran' = [ran EXCEPT ![r].rewrite = Holds(r).rewrite, ![r][c] = Holds(r)[c]]
  PROVE  /\ ran' \in [Requests -> [Callbacks -> Requests \cup {None}]]
         /\ \A s \in Requests \ {r} : ran'[s] = ran[s]
         /\ ran'[r][c] = Holds(r)[c]
         /\ c = "onError" => ran'[r].modify = ran[r].modify
         /\ kind[r] = "http" => \A d \in Callbacks : ran'[r][d] \in {None, r}
         /\ kind[r] = "forward" => ran'[r].rewrite = r /\ ran'[r].modify = None
<1> DEFINE new == [[ran[r] EXCEPT !["rewrite"] = Holds(r)["rewrite"]] EXCEPT ![c] = Holds(r)[c]]
<1>1. r \in Requests /\ ran[r] \in [Callbacks -> Requests \cup {None}] /\ object[r] \in Requests
  BY DEF IInv, TypeOK, Using
<1>2. Holds(r) \in [Callbacks -> Requests \cup {None}]
  BY <1>1 DEF IInv, TypeOK, Holds
<1>3. /\ new \in [Callbacks -> Requests \cup {None}] /\ new["rewrite"] = Holds(r)["rewrite"]
      /\ new[c] = Holds(r)[c]
      /\ c = "onError" => new["modify"] = ran[r]["modify"]
      /\ c = "modify" => new["onError"] = ran[r]["onError"]
  BY <1>1, <1>2 DEF Callbacks
<1>4. ran' = [ran EXCEPT ![r] = new]
  BY <1>1 DEF IInv, TypeOK
<1>5. /\ ran' \in [Requests -> [Callbacks -> Requests \cup {None}]]
      /\ ran'[r] = new /\ \A s \in Requests \ {r} : ran'[s] = ran[s]
  <2> HIDE DEF new
  <2>1. ran \in [Requests -> [Callbacks -> Requests \cup {None}]]
    BY DEF IInv, TypeOK
  <2>2. new \in [Callbacks -> Requests \cup {None}]
    BY <1>3
  <2>3. /\ [ran EXCEPT ![r] = new] \in [Requests -> [Callbacks -> Requests \cup {None}]]
        /\ [ran EXCEPT ![r] = new][r] = new
        /\ \A s \in Requests \ {r} : [ran EXCEPT ![r] = new][s] = ran[s]
    BY <1>1, <2>1, <2>2, Updated, Zenon
  <2> QED BY <1>4, <2>3, Zenon
<1>6. /\ Holds(r).rewrite = r
      /\ kind[r] = "http" => Holds(r).modify = r /\ Holds(r).onError = r
      /\ kind[r] = "forward" => Holds(r).modify = None
  BY DEF IInv, HoldInv
<1>7. /\ kind[r] = "http" => \A d \in Callbacks : ran[r][d] \in {None, r}
      /\ kind[r] = "forward" => ran[r].modify = None
  BY <1>1 DEF IInv, OwnCallbacks
<1> HIDE DEF new
<1>8. kind[r] = "http" => \A d \in Callbacks : new[d] \in {None, r}
  BY <1>3, <1>6, <1>7 DEF Callbacks
<1>9. kind[r] = "forward" => new["rewrite"] = r /\ new["modify"] = None
  BY <1>3, <1>6, <1>7
<1> QED BY <1>3, <1>5, <1>8, <1>9

(* The answer arrives, and ModifyResponse may be run.                      *)
LEMMA RespondStep ==
  ASSUME IInv, NEW r \in Requests, Respond(r)
  PROVE  IInv'
<1>1. PICK p \in {"copy", "modify"} :
        Go(r, p) /\ (Holds(r).modify = None => p = "copy") /\ (p = "copy" => Holds(r).modify = None)
  BY DEF Respond
<1>2. /\ pc[r] = "sent" /\ r \in Using
      /\ ran' = [ran EXCEPT ![r].rewrite = Holds(r).rewrite, ![r]["modify"] = Holds(r)["modify"]]
      /\ UNCHANGED <<kind, proxyVars, gzipVars, records, answer, body>>
  BY DEF Respond, Using
<1>3. /\ ran' \in [Requests -> [Callbacks -> Requests \cup {None}]]
      /\ \A s \in Requests \ {r} : ran'[s] = ran[s]
      /\ ran'[r].modify = Holds(r).modify
      /\ kind[r] = "http" => \A d \in Callbacks : ran'[r][d] \in {None, r}
      /\ kind[r] = "forward" => ran'[r].rewrite = r /\ ran'[r].modify = None
  BY <1>2, RunStep
<1>4. /\ Using' = Using /\ FreshInv' /\ HoldInv'
      /\ \A s \in Using' : object'[s] \in Requests \ idle'
      /\ \A s, t \in Using' : object'[s] = object'[t] => s = t
      /\ pc' \in [Requests -> {"new", "sent", "modify", "put", "record", "copy", "more",
                               "return", "done"}]
  BY <1>1, <1>2, BetweenStep
<1>5. TypeOK'
  BY <1>2, <1>3, <1>4 DEF IInv, TypeOK, proxyVars, gzipVars
<1>6. ModifyInv'
  <2>1. p = "modify" => kind[r] = "http" /\ ran'[r].modify = r
    BY <1>1, <1>2, <1>3 DEF IInv, TypeOK, HoldInv
  <2> QED BY <2>1, <1>1, <1>2, <1>3 DEF IInv, TypeOK, ModifyInv, Go, gzipVars
<1>7. SliceInv' /\ BufferInv'
  <2>1. BufferInv'
    BY <1>1, <1>2 DEF IInv, TypeOK, BufferInv, Go, gzipVars
  <2> QED BY <1>1, <1>2, <2>1, PendingStep DEF IInv, ModifyInv, gzipVars
<1>8. OwnCallbacks'
  BY <1>2, <1>3 DEF IInv, OwnCallbacks
<1>9. FailuresAreTold' /\ ForeignBytesOverlap'
  BY <1>2 DEF IInv, FailuresAreTold, ForeignBytesOverlap, proxyVars, gzipVars
<1> QED BY <1>4, <1>5, <1>6, <1>7, <1>8, <1>9 DEF IInv

(* No answer: the ErrorHandler of the object decides what the client sees. *)
LEMMA FailStep ==
  ASSUME IInv, NEW r \in Requests, Fail(r)
  PROVE  IInv'
<1>1. /\ pc[r] \in {"sent", "modify"} /\ Go(r, "return") /\ r \in Using
      /\ ran' = [ran EXCEPT ![r].rewrite = Holds(r).rewrite, ![r]["onError"] = Holds(r)["onError"]]
      /\ UNCHANGED <<kind, proxyVars, gzipVars, records, body>>
  BY DEF Fail, Using
<1>2. PICK a \in {"502", "empty"} :
        /\ answer' = [answer EXCEPT ![r] = a]
        /\ a = "empty" => Holds(r).onError # None
  BY DEF Fail
<1>3. /\ ran' \in [Requests -> [Callbacks -> Requests \cup {None}]]
      /\ \A s \in Requests \ {r} : ran'[s] = ran[s]
      /\ kind[r] = "http" => \A d \in Callbacks : ran'[r][d] \in {None, r}
      /\ kind[r] = "forward" => ran'[r].rewrite = r /\ ran'[r].modify = None
  BY <1>1, RunStep
<1>4. \A s \in Requests \ {r} : answer'[s] = answer[s]
  BY <1>2 DEF IInv, TypeOK
<1>5. /\ Using' = Using /\ FreshInv' /\ HoldInv'
      /\ \A s \in Using' : object'[s] \in Requests \ idle'
      /\ \A s, t \in Using' : object'[s] = object'[t] => s = t
      /\ pc' \in [Requests -> {"new", "sent", "modify", "put", "record", "copy", "more",
                               "return", "done"}]
  BY <1>1, <1>4, BetweenStep
<1>6. TypeOK'
  BY <1>1, <1>2, <1>3, <1>5 DEF IInv, TypeOK, proxyVars, gzipVars
<1>7. ModifyInv'
  BY <1>1, <1>3 DEF IInv, TypeOK, ModifyInv, Go, gzipVars
<1>8. SliceInv' /\ BufferInv'
  <2>1. BufferInv'
    BY <1>1 DEF IInv, TypeOK, BufferInv, Go, gzipVars
  <2> QED BY <1>1, <2>1, PendingStep DEF gzipVars
<1>9. OwnCallbacks' /\ ForeignBytesOverlap'
  BY <1>1, <1>3 DEF IInv, OwnCallbacks, ForeignBytesOverlap, gzipVars
<1>10. FailuresAreTold'
  <2>1. object[r] \in Requests
    BY <1>1 DEF IInv, TypeOK
  <2>2. a = "empty" => "http" \in served[object[r]]
    BY <1>2, <2>1 DEF IInv, HoldInv, Holds
  <2> QED BY <1>1, <1>2, <1>4, <2>2 DEF IInv, TypeOK, FailuresAreTold, proxyVars
<1> QED BY <1>5, <1>6, <1>7, <1>8, <1>9, <1>10 DEF IInv

(* The steps that leave the callbacks, and what was run of them, alone.    *)
LEMMA QuietStep ==
  ASSUME IInv, NEW r \in Requests, KeepBody(r) \/ Record(r) \/ Abort(r) \/ PutBuffer(r)
  PROVE  IInv'
<1>1. PICK p \in {"record", "copy", "return"} :
        /\ Go(r, p) /\ r \in Using
        /\ pc[r] = "modify" => p = "record"
        /\ p = "record" => pc[r] \in {"modify", "put"}
        /\ pc[r] \in {"modify", "put", "record", "copy", "more"}
  BY DEF KeepBody, Record, Abort, PutBuffer, Using
<1>2. UNCHANGED <<kind, proxyVars, buffer, array, bytes, slice, overlap, ran, answer, body>>
  BY DEF KeepBody, Record, Abort, PutBuffer, gzipVars, seenVars
<1>3. records' = records \/ (records' = records \cup {r} /\ kind[r] = "http")
  <2>1. pc[r] = "record" => ran[r].modify = r /\ kind[r] = "http"
    BY DEF IInv, ModifyInv
  <2> QED BY <2>1 DEF KeepBody, Record, Abort, PutBuffer, seenVars
<1>4. spare' \in SUBSET Requests
  <2>1. CASE PutBuffer(r)
    <3>1. buffer[r] \in Requests
      BY <2>1 DEF IInv, BufferInv, PutBuffer
    <3> QED BY <2>1, <3>1 DEF IInv, TypeOK, PutBuffer
  <2>2. CASE KeepBody(r) \/ Record(r) \/ Abort(r)
    BY <2>2 DEF IInv, TypeOK, KeepBody, Record, Abort, gzipVars
  <2> QED BY <2>1, <2>2
<1>5. /\ Using' = Using /\ FreshInv' /\ HoldInv'
      /\ \A s \in Using' : object'[s] \in Requests \ idle'
      /\ \A s, t \in Using' : object'[s] = object'[t] => s = t
      /\ pc' \in [Requests -> {"new", "sent", "modify", "put", "record", "copy", "more",
                               "return", "done"}]
  BY <1>1, <1>2, BetweenStep
<1>6. TypeOK'
  BY <1>2, <1>3, <1>4, <1>5 DEF IInv, TypeOK, proxyVars
<1>7. BufferInv' /\ ModifyInv'
  BY <1>1, <1>2, <1>3 DEF IInv, TypeOK, BufferInv, ModifyInv, Go
<1>8. SliceInv'
  <2>1. r \in Pending \/ slice[r] = None
    BY <1>1 DEF IInv, ModifyInv, Pending
  <2> QED BY <1>1, <1>2, <2>1, PendingStep
<1>9. OwnCallbacks'
  BY <1>2, <1>3 DEF IInv, OwnCallbacks
<1>10. FailuresAreTold' /\ ForeignBytesOverlap'
  BY <1>2 DEF IInv, FailuresAreTold, ForeignBytesOverlap, proxyVars
<1> QED BY <1>5, <1>6, <1>7, <1>8, <1>9, <1>10 DEF IInv

(* What the client gets is what is behind the slice, or an untouched body. *)
LEMMA CopyStep ==
  ASSUME IInv, NEW r \in Requests, Copy(r)
  PROVE  IInv'
<1>1. PICK p \in {"more", "return"} : Go(r, p)
  BY DEF Copy
<1>2. PICK b : /\ body' = [body EXCEPT ![r] = @ \cup {b}]
               /\ b = IF slice[r] = None THEN r ELSE bytes[slice[r]]
  BY DEF Copy
<1>3. /\ pc[r] \in {"copy", "more"} /\ r \in Using /\ answer' = [answer EXCEPT ![r] = "body"]
      /\ UNCHANGED <<kind, proxyVars, gzipVars, ran, records>>
  BY DEF Copy, Using
<1>4. b \in {r} \cup overlap[r] /\ (kind[r] = "forward" => b = r) /\ b \in Requests
  <2>1. slice[r] # None => r \in Pending /\ kind[r] # "forward"
    BY <1>3 DEF IInv, ModifyInv, Pending
  <2>2. b \in {r} \cup overlap[r] /\ (kind[r] = "forward" => b = r)
    BY <1>2, <2>1 DEF IInv, SliceInv
  <2> QED BY <2>2 DEF IInv, TypeOK
<1>5. \A s \in Requests \ {r} : answer'[s] = answer[s] /\ body'[s] = body[s]
  BY <1>2, <1>3 DEF IInv, TypeOK
<1>6. /\ Using' = Using /\ FreshInv' /\ HoldInv'
      /\ \A s \in Using' : object'[s] \in Requests \ idle'
      /\ \A s, t \in Using' : object'[s] = object'[t] => s = t
      /\ pc' \in [Requests -> {"new", "sent", "modify", "put", "record", "copy", "more",
                               "return", "done"}]
  BY <1>1, <1>3, <1>5, BetweenStep
<1>7. TypeOK'
  <2>1. body' \in [Requests -> SUBSET Requests]
    BY <1>2, <1>4 DEF IInv, TypeOK
  <2>2. answer' \in [Requests -> {"none", "body", "502", "empty"}]
    BY <1>3 DEF IInv, TypeOK
  <2> QED BY <1>3, <1>6, <2>1, <2>2 DEF IInv, TypeOK, proxyVars, gzipVars
<1>8. BufferInv' /\ ModifyInv'
  BY <1>1, <1>3 DEF IInv, TypeOK, BufferInv, ModifyInv, Go, gzipVars
<1>9. SliceInv'
  <2>1. r \in Pending \/ slice[r] = None
    BY <1>3 DEF Pending
  <2> QED BY <1>1, <1>3, <2>1, PendingStep DEF gzipVars
<1>10. body'[r] = body[r] \cup {b} /\ body[r] \subseteq {r} \cup overlap[r]
  BY <1>2 DEF IInv, TypeOK, ForeignBytesOverlap
<1>11. OwnCallbacks'
  BY <1>3, <1>4, <1>5, <1>10 DEF IInv, OwnCallbacks
<1>12. ForeignBytesOverlap'
  BY <1>3, <1>4, <1>5, <1>10 DEF IInv, ForeignBytesOverlap, gzipVars
<1>13. FailuresAreTold'
  BY <1>3, <1>5 DEF IInv, TypeOK, FailuresAreTold, proxyVars
<1> QED BY <1>6, <1>7, <1>8, <1>9, <1>11, <1>12, <1>13 DEF IInv

(* The object goes back without the callbacks, but for the ErrorHandler.   *)
LEMMA ReturnStep ==
  ASSUME IInv, NEW r \in Requests, Return(r)
  PROVE  IInv'
<1> DEFINE o == object[r]
           new == [[set[o] EXCEPT !["rewrite"] = None] EXCEPT !["modify"] = None]
<1>1. /\ pc[r] = "return" /\ pc' = [pc EXCEPT ![r] = "done"] /\ idle' = idle \cup {o}
      /\ UNCHANGED <<kind, object, served, gzipVars, seenVars>>
  BY DEF Return, Go
<1>2. r \in Using /\ o \in Requests /\ o \notin idle /\ Using' = Using \ {r}
  BY <1>1 DEF IInv, TypeOK, Using
<1>3. set[o] \in [Callbacks -> Requests \cup {None}] /\ set' = [set EXCEPT ![o] = new]
  BY <1>2 DEF IInv, TypeOK, Return
<1>4. /\ new \in [Callbacks -> Requests \cup {None}] /\ new["rewrite"] = None
      /\ new["modify"] = None /\ new["onError"] = set[o]["onError"]
  BY <1>3 DEF Callbacks
<1>5. \A s \in Using' : object[s] # o
  BY <1>2 DEF IInv, TypeOK
<1> HIDE DEF new, o
<1>6. /\ set'[o] = new /\ \A s \in Requests \ {o} : set'[s] = set[s]
      /\ set' \in [Requests -> [Callbacks -> Requests \cup {None}]]
  BY <1>2, <1>3, <1>4 DEF IInv, TypeOK
<1>7. TypeOK'
  <2>1. \A s \in Using' : object'[s] \in Requests \ idle'
    BY <1>1, <1>2, <1>5 DEF IInv, TypeOK
  <2>2. \A s, t \in Using' : object'[s] = object'[t] => s = t
    BY <1>1, <1>2 DEF IInv, TypeOK
  <2>3. pc' \in [Requests -> {"new", "sent", "modify", "put", "record", "copy", "more",
                             "return", "done"}]
    BY <1>1 DEF IInv, TypeOK
  <2> QED BY <1>1, <1>2, <1>6, <2>1, <2>2, <2>3 DEF IInv, TypeOK, gzipVars, seenVars
<1>8. FreshInv'
  <2>1. \A s \in Requests : pc'[s] = "new" => pc[s] = "new" /\ s # o
    BY <1>1, <1>2 DEF IInv, TypeOK, FreshInv, o
  <2> QED BY <1>1, <1>2, <1>6, <2>1 DEF IInv, FreshInv, seenVars
<1>9. HoldInv'
  <2>1. \A s \in Using' : set'[object'[s]] = set[object[s]] /\ s \in Using
    BY <1>1, <1>2, <1>5, <1>6 DEF IInv, TypeOK
  <2>2. \A q \in idle' : set'[q].rewrite = None /\ set'[q].modify = None
    BY <1>1, <1>4, <1>6 DEF IInv, TypeOK, HoldInv
  <2>3. \A q \in Requests : set'[q].onError # None => "http" \in served'[q]
    BY <1>1, <1>4, <1>6 DEF IInv, HoldInv
  <2> QED BY <1>1, <2>1, <2>2, <2>3 DEF IInv, HoldInv, Holds
<1>10. BufferInv' /\ ModifyInv'
  BY <1>1 DEF IInv, TypeOK, BufferInv, ModifyInv, gzipVars, seenVars
<1>11. SliceInv'
  BY <1>1, PendingStep DEF Go, gzipVars
<1>12. OwnCallbacks' /\ FailuresAreTold' /\ ForeignBytesOverlap'
  BY <1>1 DEF IInv, OwnCallbacks, FailuresAreTold, ForeignBytesOverlap, gzipVars, seenVars
<1> QED BY <1>7, <1>8, <1>9, <1>10, <1>11, <1>12 DEF IInv

(* withGZIP writes to an array others' bodies may be slices of: those who  *)
(* are waiting to be copied count it.                                      *)
LEMMA CompressStep ==
  ASSUME IInv, NEW r \in Requests, Compress(r)
  PROVE  IInv'
<1>1. /\ pc[r] = "modify" /\ Go(r, "put") /\ r \in Using /\ kind[r] = "http"
      /\ UNCHANGED <<kind, proxyVars, seenVars>>
      /\ overlap' = [s \in Requests |-> IF s \in Pending THEN overlap[s] \cup {r} ELSE overlap[s]]
  BY DEF Compress, Using, IInv, ModifyInv
<1>2. PICK b \in Get(spare, r), last \in Requests :
        /\ array' = [array EXCEPT ![b] = last] /\ slice' = [slice EXCEPT ![r] = last]
        /\ spare' = spare \ {b} /\ buffer' = [buffer EXCEPT ![r] = b]
        /\ bytes'[last] = r /\ bytes' \in [Requests -> Requests \cup {None}]
        /\ \A a \in Requests : bytes'[a] \in {r, bytes[a]}
  <2>1. PICK b \in Get(spare, r), fits \in BOOLEAN, wrote \in BOOLEAN :
          /\ array[b] = None => ~fits /\ ~wrote
          /\ LET last == IF fits THEN array[b] ELSE r
             IN /\ array' = [array EXCEPT ![b] = last]
                /\ slice' = [slice EXCEPT ![r] = last]
                /\ bytes' = [a \in Requests |->
                               IF a = last \/ (wrote /\ a = array[b]) THEN r ELSE bytes[a]]
          /\ buffer' = [buffer EXCEPT ![r] = b]
          /\ spare' = spare \ {b}
    BY DEF Compress
  <2> DEFINE last == IF fits THEN array[b] ELSE r
  <2>2. b \in Requests
    BY <2>1 DEF Get, IInv, TypeOK
  <2>3. last \in Requests
    BY <2>1, <2>2 DEF IInv, TypeOK
  <2>4. bytes' = [a \in Requests |-> IF a = last \/ (wrote /\ a = array[b]) THEN r ELSE bytes[a]]
    BY <2>1
  <2> HIDE DEF last
  <2>5. bytes'[last] = r /\ \A a \in Requests : bytes'[a] \in {r, bytes[a]}
    BY <2>3, <2>4
  <2>6. bytes' \in [Requests -> Requests \cup {None}]
    BY <2>4 DEF IInv, TypeOK
  <2>7. array' = [array EXCEPT ![b] = last] /\ slice' = [slice EXCEPT ![r] = last]
    BY <2>1 DEF last
  <2> QED BY <2>1, <2>3, <2>5, <2>6, <2>7
<1>3. b \in Requests
  BY <1>2 DEF Get, IInv, TypeOK
<1>4. /\ Using' = Using /\ FreshInv' /\ HoldInv'
      /\ \A s \in Using' : object'[s] \in Requests \ idle'
      /\ \A s, t \in Using' : object'[s] = object'[t] => s = t
      /\ pc' \in [Requests -> {"new", "sent", "modify", "put", "record", "copy", "more",
                               "return", "done"}]
  BY <1>1, BetweenStep DEF seenVars
<1>5. TypeOK'
  <2>1. overlap' \in [Requests -> SUBSET Requests]
    BY <1>1 DEF IInv, TypeOK
  <2>2. /\ array' \in [Requests -> Requests \cup {None}]
        /\ slice' \in [Requests -> Requests \cup {None}]
        /\ buffer' \in [Requests -> Requests \cup {None}]
        /\ spare' \in SUBSET Requests
    BY <1>2, <1>3 DEF IInv, TypeOK
  <2> QED BY <1>1, <1>2, <1>4, <2>1, <2>2 DEF IInv, TypeOK, proxyVars, seenVars
<1>6. BufferInv' /\ ModifyInv'
  BY <1>1, <1>2, <1>3 DEF IInv, TypeOK, BufferInv, ModifyInv, Go, seenVars
<1>7. SliceInv'
  <2> SUFFICES ASSUME NEW s \in Pending' PROVE bytes'[slice'[s]] \in {s} \cup overlap'[s]
    BY DEF SliceInv
  <2>1. CASE s = r
    <3>1. slice'[s] = last
      BY <2>1, <1>2 DEF IInv, TypeOK
    <3> QED BY <2>1, <3>1, <1>2
  <2>2. CASE s # r
    <3>1. s \in Requests /\ s \in Pending /\ slice'[s] = slice[s] /\ slice[s] \in Requests
      BY <2>2, <1>1, <1>2 DEF IInv, TypeOK, Pending, Go
    <3>2. overlap'[s] = overlap[s] \cup {r}
      BY <3>1, <1>1
    <3>3. bytes'[slice[s]] \in {r, bytes[slice[s]]} /\ bytes[slice[s]] \in {s} \cup overlap[s]
      BY <3>1, <1>2 DEF IInv, SliceInv
    <3> QED BY <3>1, <3>2, <3>3
  <2> QED BY <2>1, <2>2
<1>8. OwnCallbacks' /\ FailuresAreTold'
  BY <1>1 DEF IInv, OwnCallbacks, FailuresAreTold, proxyVars, seenVars
<1>9. ForeignBytesOverlap'
  <2>1. \A s \in Requests : overlap[s] \subseteq overlap'[s]
    BY <1>1
  <2> QED BY <1>1, <2>1 DEF IInv, ForeignBytesOverlap, seenVars
<1> QED BY <1>4, <1>5, <1>6, <1>7, <1>8, <1>9 DEF IInv
-----------------------------------------------------------------------------
LEMMA Inductive == IInv /\ [Next]_vars => IInv'
<1> SUFFICES ASSUME IInv, [Next]_vars PROVE IInv'
  OBVIOUS
<1>1. CASE UNCHANGED vars
  <2>1. /\ UNCHANGED <<pc, kind, idle, object, set, served, spare, buffer, array, bytes, slice>>
        /\ UNCHANGED <<overlap, ran, records, answer, body>>
    BY <1>1 DEF vars, proxyVars, gzipVars, seenVars
  <2>2. TypeOK' /\ FreshInv' /\ HoldInv'
    BY <2>1 DEF IInv, TypeOK, FreshInv, HoldInv, Holds, Using
  <2>3. BufferInv' /\ ModifyInv' /\ SliceInv'
    BY <2>1 DEF IInv, BufferInv, ModifyInv, SliceInv, Pending
  <2>4. OwnCallbacks' /\ FailuresAreTold' /\ ForeignBytesOverlap'
    BY <2>1 DEF IInv, OwnCallbacks, FailuresAreTold, ForeignBytesOverlap
  <2> QED BY <2>2, <2>3, <2>4 DEF IInv
<1>2. ASSUME NEW r \in Requests, Serve(r) PROVE IInv'
  BY <1>2, TakeStep, RespondStep, FailStep, QuietStep, CopyStep, ReturnStep, CompressStep DEF Serve
<1> QED BY <1>1, <1>2 DEF Next

LEMMA AlwaysIInv == Spec => []IInv
<1>1. Init => IInv
  BY Initial
<1>2. IInv /\ [Next]_vars => IInv'
  BY Inductive
<1> QED BY <1>1, <1>2, PTL DEF Spec

(* The pool hands an object to one request at a time: two handlers never   *)
(* set the callbacks of the same httputil.ReverseProxy.                    *)
THEOREM TypeCorrect == Spec => []TypeOK
<1>1. IInv => TypeOK
  BY DEF IInv
<1> QED BY <1>1, AlwaysIInv, PTL

(* However many requests are served and whatever their objects were used   *)
(* for before, an intercepted request runs its own callbacks only, and one *)
(* that is forwarded is neither seen nor recorded by another's.            *)
THEOREM OwnCallbacksHolds == Spec => []OwnCallbacks
<1>1. IInv => OwnCallbacks
  BY DEF IInv
<1> QED BY <1>1, AlwaysIInv, PTL

(* A forwarded request whose upstream fails gets a 502, unless its object  *)
(* kept the ErrorHandler that handleHttp never clears.                     *)
THEOREM FailuresAreToldHolds == Spec => []FailuresAreTold
<1>1. IInv => FailuresAreTold
  BY DEF IInv
<1> QED BY <1>1, AlwaysIInv, PTL

(* The bytes of withGZIP's buffer that reach another client are those of a *)
(* response compressed between its own compressing and its last read.      *)
THEOREM ForeignBytesOverlapHolds == Spec => []ForeignBytesOverlap
<1>1. IInv => ForeignBytesOverlap
  BY DEF IInv
<1> QED BY <1>1, AlwaysIInv, PTL
=============================================================================
