----------------------------- MODULE CertCache ------------------------------
(***************************************************************************)
(* The certificates go-mitm forges for the hosts it intercepts             *)
(* (proxy/proxy_certificate.go). getCertificate runs in the goroutine of   *)
(* each TLS handshake; certCache is a sync.Map, serialNumber a counter     *)
(* that is advanced atomically and read in a separate, plain access.       *)
(* A certificate is named by the handshake that made it.                   *)
(***************************************************************************)
EXTENDS Integers

CONSTANTS Handshakes, Names, NoCert

ASSUME NoCertAssumption == NoCert \notin Handshakes

VARIABLES
  serialNumber,  \* Proxy.serialNumber
  certCache,     \* certCache[n]: the certificate stored for name n
  pc,            \* pc[h]: where getCertificate is in handshake h
  domain,        \* domain[h]: its argument, the name the client asked for
  serial,        \* serial[h]: the SerialNumber of h's template, 0 if none yet
  got,           \* got[h]: the certificate returned
  earlier        \* earlier[h]: handshakes that had ended when h began (history)

vars == <<serialNumber, certCache, pc, domain, serial, got, earlier>>

Ended(h) == pc[h] \in {"done", "failed"}

Init ==
  /\ serialNumber = 0
  /\ certCache = [n \in Names |-> NoCert]
  /\ pc = [h \in Handshakes |-> "new"]
  /\ domain \in [Handshakes -> Names]
  /\ serial = [h \in Handshakes |-> 0]
  /\ got = [h \in Handshakes |-> NoCert]
  /\ earlier = [h \in Handshakes |-> {}]

Go(h, place) == pc' = [pc EXCEPT ![h] = place]
-----------------------------------------------------------------------------
(* Faulty variants, used only to confirm that the properties notice them.  *)

\* A failure gives the serial number back.
FailGivingBack(h) ==
  /\ pc[h] = "create"
  /\ serialNumber' = serialNumber - 1
  /\ Go(h, "failed")
  /\ UNCHANGED <<certCache, domain, serial, got, earlier>>

\* The counter runs down.
CountDown(h) ==
  /\ pc[h] = "add"
  /\ serialNumber' = serialNumber - 1
  /\ Go(h, "read")
  /\ UNCHANGED <<certCache, domain, serial, got, earlier>>

\* The new certificate is returned without being stored.
ReturnUnstored(h) ==
  /\ pc[h] = "store"
  /\ got' = [got EXCEPT ![h] = h]
  /\ Go(h, "done")
  /\ UNCHANGED <<serialNumber, certCache, domain, serial, earlier>>

\* Any entry will do.
LoadAny(h) ==
  /\ pc[h] = "load"
  /\ \E n \in Names : certCache[n] # NoCert /\ got' = [got EXCEPT ![h] = certCache[n]]
  /\ Go(h, "done")
  /\ UNCHANGED <<serialNumber, certCache, domain, serial, earlier>>
-----------------------------------------------------------------------------
\* GetCertificate, called with the handshake's ServerName.
Begin(h) ==
  /\ pc[h] = "new"
  /\ earlier' = [earlier EXCEPT ![h] = {g \in Handshakes : Ended(g)}]
  /\ Go(h, "load")
  /\ UNCHANGED <<serialNumber, certCache, domain, serial, got>>

\* certCache.Load finds a certificate: it is the result.
LoadHit(h) ==
  /\ pc[h] = "load" /\ certCache[domain[h]] # NoCert
  /\ got' = [got EXCEPT ![h] = certCache[domain[h]]]
  /\ Go(h, "done")
  /\ UNCHANGED <<serialNumber, certCache, domain, serial, earlier>>

LoadMiss(h) ==
  /\ pc[h] = "load" /\ certCache[domain[h]] = NoCert
  /\ Go(h, "add")
  /\ UNCHANGED <<serialNumber, certCache, domain, serial, got, earlier>>

\* atomic.AddInt64(&p.serialNumber, 1)
AddSerial(h) ==
  /\ pc[h] = "add"
  /\ serialNumber' = serialNumber + 1
  /\ Go(h, "read")
  /\ UNCHANGED <<certCache, domain, serial, got, earlier>>

\* SerialNumber: big.NewInt(p.serialNumber)
ReadSerial(h) ==
  /\ pc[h] = "read"
  /\ serial' = [serial EXCEPT ![h] = serialNumber]
  /\ Go(h, "create")
  /\ UNCHANGED <<serialNumber, certCache, domain, got, earlier>>

\* GenerateKey and CreateCertificate both succeed.
Create(h) ==
  /\ pc[h] = "create"
  /\ Go(h, "store")
  /\ UNCHANGED <<serialNumber, certCache, domain, serial, got, earlier>>

\* One of them fails: the handshake fails, its serial number is used up.
CreateFails(h) ==
  /\ pc[h] = "create"
  /\ Go(h, "failed")
  /\ UNCHANGED <<serialNumber, certCache, domain, serial, got, earlier>>

\* certCache.Store, over whatever another handshake has stored meanwhile.
Store(h) ==
  /\ pc[h] = "store"
  /\ certCache' = [certCache EXCEPT ![domain[h]] = h]
  /\ got' = [got EXCEPT ![h] = h]
  /\ Go(h, "done")
  /\ UNCHANGED <<serialNumber, domain, serial, earlier>>

getCertificate(h) ==
  \/ Begin(h) \/ LoadHit(h) \/ LoadMiss(h) \/ AddSerial(h) \/ ReadSerial(h)
  \/ Create(h) \/ CreateFails(h) \/ Store(h)

Next == \E h \in Handshakes : getCertificate(h)

Spec == Init /\ [][Next]_vars
-----------------------------------------------------------------------------
Places == {"new", "load", "add", "read", "create", "store", "done", "failed"}

TypeOK ==
  /\ serialNumber \in Nat
  /\ certCache \in [Names -> Handshakes \cup {NoCert}]
  /\ pc \in [Handshakes -> Places]
  /\ domain \in [Handshakes -> Names]
  /\ serial \in [Handshakes -> Nat]
  /\ got \in [Handshakes -> Handshakes \cup {NoCert}]
  /\ earlier \in [Handshakes -> SUBSET Handshakes]

(* A certificate's serial number is above that of every certificate made   *)
(* for a handshake that had ended before its own began, although other     *)
(* handshakes move the counter between the addition and the read. So two   *)
(* certificates share a serial number only if their handshakes overlapped. *)
SerialsGrow ==
  \A h \in Handshakes : \A g \in earlier[h] :
    serial[g] # 0 /\ serial[h] # 0 => serial[g] < serial[h]

(* Once a handshake for a name has succeeded, a later handshake for that   *)
(* name makes no certificate, whichever of the certificates made by        *)
(* overlapping handshakes ended up in the cache.                           *)
MadeOnce ==
  \A h \in Handshakes : \A g \in earlier[h] :
    pc[g] = "done" /\ domain[g] = domain[h] => serial[h] = 0 /\ got[h] # h

(* A successful handshake gets a finished certificate for the name it      *)
(* asked for, its own or another's.                                        *)
GetsItsName ==
  \A h \in Handshakes : pc[h] = "done" =>
    /\ got[h] # NoCert
    /\ domain[got[h]] = domain[h]
    /\ pc[got[h]] = "done" /\ serial[got[h]] # 0
=============================================================================
