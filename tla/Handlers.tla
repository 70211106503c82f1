------------------------------ MODULE Handlers ------------------------------
(***************************************************************************)
(* What concurrent requests share while they are served: the pool of       *)
(* httputil.ReverseProxy objects that handleHttp (intercepted requests) and*)
(* forward (the others) draw from, and the pool of buffers that withGZIP   *)
(* compresses into. A handler fills in the callbacks of the object it got  *)
(* and clears some of them when it returns; withGZIP returns the bytes of a*)
(* buffer it has put back.                                                 *)
(*                                                                         *)
(* An object, a buffer or an array of bytes is named by the request that   *)
(* made it, and bytes by the request whose response they are part of.      *)
(***************************************************************************)
EXTENDS FiniteSets

CONSTANTS Requests,  \* one per request served
          None       \* nil: no callback, no array

ASSUME NoneAssumption == None \notin Requests

Callbacks == {"rewrite", "modify", "onError"}

VARIABLES
  pc,       \* pc[r]: where request r is
  kind,     \* kind[r]: "http" (handleHttp) or "forward"
  idle,     \* the ReverseProxy objects in reverseProxyPool
  object,   \* object[r]: the one r uses
  set,      \* set[o]: whose callbacks object o holds
  spare,    \* the buffers in pool
  buffer,   \* buffer[r]: the one r compresses into
  array,    \* array[b]: the array behind buffer b
  bytes,    \* bytes[a]: whose bytes are in array a
  slice,    \* slice[r]: the array r's new body is a slice of
  ran,      \* ran[r]: whose callbacks were run for r
  records,  \* the requests with a record in messageChan
  answer,   \* answer[r]: "none", "body", "502" or "empty"
  body,     \* body[r]: whose bytes r's client was sent
  served,   \* served[o]: the kinds of requests o was used for     (history)
  overlap   \* overlap[r]: who compressed between r's compressing
            \* and the end of r's answer                           (history)

proxyVars == <<idle, object, set, served>>
gzipVars == <<spare, buffer, array, bytes, slice, overlap>>
seenVars == <<ran, records, answer, body>>
vars == <<pc, kind, proxyVars, gzipVars, seenVars>>

Init ==
  /\ pc = [r \in Requests |-> "new"]
  /\ kind \in [Requests -> {"http", "forward"}]
  /\ idle = {} /\ spare = {}
  /\ object = [r \in Requests |-> None] /\ buffer = [r \in Requests |-> None]
  /\ set = [o \in Requests |-> [c \in Callbacks |-> None]]
  /\ array = [b \in Requests |-> None]
  /\ bytes = [a \in Requests |-> None]
  /\ slice = [r \in Requests |-> None]
  /\ ran = [r \in Requests |-> [c \in Callbacks |-> None]]
  /\ records = {}
  /\ answer = [r \in Requests |-> "none"]
  /\ body = [r \in Requests |-> {}]
  /\ served = [o \in Requests |-> {}]
  /\ overlap = [r \in Requests |-> {}]

Go(r, place) == pc' = [pc EXCEPT ![r] = place]

(* sync.Pool: something that was put back and is still there, or a new one.*)
Get(free, r) == free \cup {r}

Took(r, o) ==
  /\ object' = [object EXCEPT ![r] = o]
  /\ idle' = idle \ {o}
  /\ served' = [served EXCEPT ![o] = @ \cup {kind[r]}]

Holds(r) == set[object[r]]
(* r's compressed body has been made and not yet been copied.              *)
Pending == {r \in Requests : pc[r] \in {"put", "record", "copy", "more"} /\ slice[r] # None}
-----------------------------------------------------------------------------
(* Faulty variants, used only to confirm that the properties notice them.  *)

\* The object is used without being taken out of the pool.
HandleShared(r) ==
  /\ pc[r] = "new" /\ kind[r] = "http"
  /\ \E o \in Get(idle, r) :
       /\ object' = [object EXCEPT ![r] = o]
       /\ idle' = idle \cup {o}
       /\ served' = [served EXCEPT ![o] = @ \cup {kind[r]}]
       /\ set' = [set EXCEPT ![o] = [c \in Callbacks |-> r]]
  /\ Go(r, "sent")
  /\ UNCHANGED <<kind, gzipVars, seenVars>>

\* forward logs its errors the way handleHttp does.
ForwardHandling(r) ==
  /\ pc[r] = "new" /\ kind[r] = "forward"
  /\ \E o \in Get(idle, r) :
       Took(r, o) /\ set' = [set EXCEPT ![o].rewrite = r, ![o].onError = r]
  /\ Go(r, "sent")
  /\ UNCHANGED <<kind, gzipVars, seenVars>>

\* Only the rewriting callback is cleared.
ReturnHalfReset(r) ==
  /\ pc[r] = "return"
  /\ set' = [set EXCEPT ![object[r]].rewrite = None]
  /\ idle' = idle \cup {object[r]}
  /\ Go(r, "done")
  /\ UNCHANGED <<kind, object, served, gzipVars, seenVars>>

\* b.Bytes() is called before the writes that make the buffer grow.
CompressStale(r) ==
  /\ pc[r] = "modify"
  /\ \E b \in Get(spare, r) :
       /\ buffer' = [buffer EXCEPT ![r] = b]
       /\ spare' = spare \ {b}
       /\ array' = [array EXCEPT ![b] = r]
       /\ bytes' = [bytes EXCEPT ![r] = r]
       /\ slice' = [slice EXCEPT ![r] = IF array[b] = None THEN r ELSE array[b]]
  /\ overlap' = [s \in Requests |-> IF s \in Pending THEN overlap[s] \cup {r} ELSE overlap[s]]
  /\ Go(r, "put")
  /\ UNCHANGED <<kind, proxyVars, seenVars>>
-----------------------------------------------------------------------------
(* The reverse proxies.                                                    *)

handleHttp(r) ==
  /\ pc[r] = "new" /\ kind[r] = "http"
  /\ \E o \in Get(idle, r) :
       Took(r, o) /\ set' = [set EXCEPT ![o] = [c \in Callbacks |-> r]]
  /\ Go(r, "sent")
  /\ UNCHANGED <<kind, gzipVars, seenVars>>

\* Its ModifyResponse and ErrorHandler are whatever the object holds.
forward(r) ==
  /\ pc[r] = "new" /\ kind[r] = "forward"
  /\ \E o \in Get(idle, r) : Took(r, o) /\ set' = [set EXCEPT ![o].rewrite = r]
  /\ Go(r, "sent")
  /\ UNCHANGED <<kind, gzipVars, seenVars>>

\* The upstream answers; Rewrite ran before, ModifyResponse is run if set.
Respond(r) ==
  /\ pc[r] = "sent"
  /\ ran' = [ran EXCEPT ![r].rewrite = Holds(r).rewrite, ![r].modify = Holds(r).modify]
  /\ Go(r, IF Holds(r).modify = None THEN "copy" ELSE "modify")
  /\ UNCHANGED <<kind, proxyVars, gzipVars, records, answer, body>>

\* No answer, or one whose body cannot be read: handleHttp's ErrorHandler
\* writes nothing, so net/http sends an empty 200; without one it is a 502.
Fail(r) ==
  /\ pc[r] \in {"sent", "modify"}
  /\ ran' = [ran EXCEPT ![r].rewrite = Holds(r).rewrite, ![r].onError = Holds(r).onError]
  /\ answer' = [answer EXCEPT ![r] = IF Holds(r).onError = None THEN "502" ELSE "empty"]
  /\ Go(r, "return")
  /\ UNCHANGED <<kind, proxyVars, gzipVars, records, body>>

\* The client takes no gzip, gzip is turned off, or there is nothing to send.
KeepBody(r) ==
  /\ pc[r] = "modify"
  /\ Go(r, "record")
  /\ UNCHANGED <<kind, proxyVars, gzipVars, seenVars>>

Record(r) ==
  /\ pc[r] = "record"
  /\ records' = records \cup {ran[r].modify}
  /\ Go(r, "copy")
  /\ UNCHANGED <<kind, proxyVars, gzipVars, ran, answer, body>>

\* The body is copied to the client read by read: here, in two.
Copy(r) ==
  /\ pc[r] \in {"copy", "more"}
  /\ body' = [body EXCEPT ![r] = @ \cup {IF slice[r] = None THEN r ELSE bytes[slice[r]]}]
  /\ answer' = [answer EXCEPT ![r] = "body"]
  /\ Go(r, IF pc[r] = "copy" THEN "more" ELSE "return")
  /\ UNCHANGED <<kind, proxyVars, gzipVars, ran, records>>

\* The client has gone: the copy panics, and the deferred calls are made.
Abort(r) ==
  /\ pc[r] \in {"copy", "more"}
  /\ Go(r, "return")
  /\ UNCHANGED <<kind, proxyVars, gzipVars, seenVars>>

Return(r) ==
  /\ pc[r] = "return"
  /\ set' = [set EXCEPT ![object[r]].rewrite = None, ![object[r]].modify = None]
  /\ idle' = idle \cup {object[r]}
  /\ Go(r, "done")
  /\ UNCHANGED <<kind, object, served, gzipVars, seenVars>>
-----------------------------------------------------------------------------
(* withGZIP.                                                               *)

\* The writes go to the buffer's array while they fit; then the buffer moves
\* to a larger one. The slice is of the last.
Compress(r) ==
  /\ pc[r] = "modify"
  /\ \E b \in Get(spare, r), fits \in BOOLEAN, wrote \in BOOLEAN :
       /\ array[b] = None => ~fits /\ ~wrote
       /\ fits => wrote
       /\ LET last == IF fits THEN array[b] ELSE r
          IN /\ array' = [array EXCEPT ![b] = last]
             /\ slice' = [slice EXCEPT ![r] = last]
             /\ bytes' = [a \in Requests |->
                            IF a = last \/ (wrote /\ a = array[b]) THEN r ELSE bytes[a]]
       /\ buffer' = [buffer EXCEPT ![r] = b]
       /\ spare' = spare \ {b}
  /\ overlap' = [s \in Requests |-> IF s \in Pending THEN overlap[s] \cup {r} ELSE overlap[s]]
  /\ Go(r, "put")
  /\ UNCHANGED <<kind, proxyVars, seenVars>>

\* Deferred: Reset keeps the array, and the buffer can be had by others.
PutBuffer(r) ==
  /\ pc[r] = "put"
  /\ spare' = spare \cup {buffer[r]}
  /\ Go(r, "record")
  /\ UNCHANGED <<kind, proxyVars, buffer, array, bytes, slice, overlap, seenVars>>
-----------------------------------------------------------------------------
Serve(r) ==
  \/ handleHttp(r) \/ forward(r) \/ Respond(r) \/ Fail(r) \/ KeepBody(r)
  \/ Compress(r) \/ PutBuffer(r) \/ Record(r) \/ Copy(r) \/ Abort(r) \/ Return(r)

Next == \E r \in Requests : Serve(r)

Spec == Init /\ [][Next]_vars
-----------------------------------------------------------------------------
Using == {r \in Requests : pc[r] \notin {"new", "done"}}

(* Types, and: what a request uses is not in the pool, and nobody else's.  *)
TypeOK ==
  /\ pc \in [Requests -> {"new", "sent", "modify", "put", "record", "copy", "more",
                          "return", "done"}]
  /\ kind \in [Requests -> {"http", "forward"}]
  /\ idle \in SUBSET Requests /\ spare \in SUBSET Requests
  /\ object \in [Requests -> Requests \cup {None}]
  /\ set \in [Requests -> [Callbacks -> Requests \cup {None}]]
  /\ buffer \in [Requests -> Requests \cup {None}]
  /\ array \in [Requests -> Requests \cup {None}]
  /\ bytes \in [Requests -> Requests \cup {None}]
  /\ slice \in [Requests -> Requests \cup {None}]
  /\ ran \in [Requests -> [Callbacks -> Requests \cup {None}]]
  /\ records \in SUBSET Requests
  /\ answer \in [Requests -> {"none", "body", "502", "empty"}]
  /\ body \in [Requests -> SUBSET Requests]
  /\ served \in [Requests -> SUBSET {"http", "forward"}]
  /\ overlap \in [Requests -> SUBSET Requests]
  /\ \A r \in Using : object[r] \in Requests \ idle
  /\ \A r, s \in Using : object[r] = object[s] => r = s

(* Whatever its object was used for before, an intercepted request runs no *)
(* callbacks but its own, so that its record is its own; and one that the  *)
(* rules leave alone is rewritten by its own, and not seen, changed or     *)
(* recorded by an intercepted one's.                                       *)
OwnCallbacks ==
  \A r \in Requests :
    /\ kind[r] = "http" => \A c \in Callbacks : ran[r][c] \in {None, r}
    /\ kind[r] = "forward" =>
         /\ ran[r].rewrite \in {None, r} /\ ran[r].modify = None
         /\ r \notin records /\ body[r] \subseteq {r}

(* A forwarded request that fails is told so by a 502, unless its object   *)
(* has served an intercepted request: that one's ErrorHandler stays in it. *)
FailuresAreTold ==
  \A r \in Requests :
    kind[r] = "forward" /\ answer[r] = "empty" => "http" \in served[object[r]]

(* A client is sent another response's bytes only if that one was          *)
(* compressed after its own and before its answer was out: nothing is left *)
(* in a buffer for a later response, and no request alone is harmed.       *)
ForeignBytesOverlap == \A r \in Requests : body[r] \subseteq {r} \cup overlap[r]
=============================================================================
