-------------------------- MODULE CertCacheProofs ---------------------------
(***************************************************************************)
(* Serial numbers and cached certificates, for any handshakes and names.   *)
(***************************************************************************)
EXTENDS CertCache, TLAPS

(* Nobody has read more than the counter, and a handshake that has made    *)
(* its addition has moved it past all that earlier handshakes read.        *)
CounterInv ==
  \A h \in Handshakes :
    /\ serial[h] <= serialNumber
    /\ pc[h] \in {"new", "load", "add", "read"} => serial[h] = 0
    /\ pc[h] = "read" =>
         serialNumber # 0 /\ \A g \in earlier[h] : serial[g] < serialNumber
    /\ pc[h] \in {"create", "store"} => serial[h] # 0

(* Earlier handshakes have ended; a handshake that has not begun has none. *)
EarlierInv == \A h \in Handshakes : \A g \in earlier[h] : Ended(g)

(* What the cache holds was made for that name by a handshake that ended   *)
(* with it; once a handshake for a name is done, its entry is not empty.   *)
CacheInv ==
  /\ \A n \in Names : certCache[n] # NoCert =>
       LET g == certCache[n] IN
         pc[g] = "done" /\ got[g] = g /\ domain[g] = n /\ serial[g] # 0
  /\ \A h \in Handshakes : pc[h] = "done" => certCache[domain[h]] # NoCert
  /\ \A h \in Handshakes : pc[h] # "done" => got[h] = NoCert

(* A handshake with a successful earlier one for its name does not make a  *)
(* certificate.                                                            *)
OnceInv ==
  \A h \in Handshakes : \A g \in earlier[h] :
    pc[g] = "done" /\ domain[g] = domain[h] =>
      /\ pc[h] \in {"load", "done"}
      /\ serial[h] = 0 /\ got[h] # h

IInv == TypeOK /\ CounterInv /\ EarlierInv /\ CacheInv /\ OnceInv
          /\ SerialsGrow /\ GetsItsName
-----------------------------------------------------------------------------
(* Every variable keeps its type.                                          *)
LEMMA TypeInductive == TypeOK /\ [Next]_vars => TypeOK'
<1> SUFFICES ASSUME TypeOK, [Next]_vars PROVE TypeOK'
  OBVIOUS
<1> USE DEF Places, Go, TypeOK
<1>1. CASE UNCHANGED vars
  BY <1>1 DEF vars
<1>2. ASSUME NEW h \in Handshakes, getCertificate(h) PROVE TypeOK'
  <2>1. CASE Begin(h)
    BY <2>1 DEF Begin
  <2>2. CASE LoadHit(h)
    BY <2>2 DEF LoadHit
  <2>3. CASE LoadMiss(h)
    BY <2>3 DEF LoadMiss
  <2>4. CASE AddSerial(h)
    BY <2>4 DEF AddSerial
  <2>5. CASE ReadSerial(h)
    BY <2>5 DEF ReadSerial
  <2>6. CASE Create(h) \/ CreateFails(h)
    BY <2>6 DEF Create, CreateFails
  <2>7. CASE Store(h)
    BY <2>7 DEF Store
  <2> QED BY <1>2, <2>1, <2>2, <2>3, <2>4, <2>5, <2>6, <2>7 DEF getCertificate
<1> QED BY <1>1, <1>2 DEF Next

LEMMA TypeInitial == Init => TypeOK
  BY DEF Init, TypeOK, Places

THEOREM TypeCorrect == Spec => []TypeOK
  BY TypeInitial, TypeInductive, PTL DEF Spec

LEMMA Initial == Init => IInv
  BY TypeInitial, NoCertAssumption
     DEF Init, IInv, CounterInv, EarlierInv, CacheInv, OnceInv, SerialsGrow, GetsItsName

(* A step moves one handshake that has not ended, and nothing of another's. *)
LEMMA Frame ==
  ASSUME TypeOK, NEW h \in Handshakes, getCertificate(h)
  PROVE  /\ ~Ended(h) /\ domain' = domain
         /\ \A g \in Handshakes \ {h} :
              /\ pc'[g] = pc[g] /\ got'[g] = got[g]
              /\ serial'[g] = serial[g] /\ earlier'[g] = earlier[g]
         /\ pc[h] # "new" => earlier' = earlier
  BY DEF TypeOK, getCertificate, Begin, LoadHit, LoadMiss, AddSerial, ReadSerial,
         Create, CreateFails, Store, Go, Ended

(* A handshake's beginning: all that have ended are earlier.               *)
LEMMA BeginStep ==
  ASSUME IInv, TypeOK', NEW h \in Handshakes, Begin(h)
  PROVE  IInv'
<1>1. /\ earlier'[h] = {g \in Handshakes : Ended(g)}
      /\ \A g \in Handshakes \ {h} : earlier'[g] = earlier[g] /\ pc'[g] = pc[g]
      /\ pc[h] = "new" /\ pc'[h] = "load"
      /\ UNCHANGED <<serialNumber, certCache, domain, serial, got>>
  BY DEF IInv, TypeOK, Begin, Go
<1>2. h \notin earlier'[h] /\ \A g \in Handshakes : h \notin earlier[g]
  BY <1>1 DEF IInv, EarlierInv, Ended
<1>3. CounterInv'
  BY <1>1 DEF IInv, CounterInv
<1>4. EarlierInv'
  BY <1>1, <1>2 DEF IInv, TypeOK, EarlierInv, Ended
<1>5. CacheInv'
  BY <1>1 DEF IInv, TypeOK, CacheInv
<1>6. OnceInv'
  <2>1. serial[h] = 0 /\ got[h] = NoCert
    BY <1>1 DEF IInv, CounterInv, CacheInv
  <2>2. \A g \in earlier'[h] : pc'[g] = "done" /\ domain[g] = domain[h] =>
          pc'[h] \in {"load", "done"} /\ serial'[h] = 0 /\ got'[h] # h
    BY <1>1, <2>1, NoCertAssumption
  <2>3. \A k \in Handshakes \ {h} : \A g \in earlier'[k] :
          pc'[g] = "done" /\ domain'[g] = domain'[k] =>
            pc'[k] \in {"load", "done"} /\ serial'[k] = 0 /\ got'[k] # k
    BY <1>1, <1>2 DEF IInv, TypeOK, OnceInv
  <2> QED BY <1>1, <2>2, <2>3 DEF OnceInv
<1>7. SerialsGrow'
  <2>1. serial'[h] = 0
    BY <1>1 DEF IInv, CounterInv
  <2> QED BY <1>1, <2>1 DEF IInv, SerialsGrow
<1>8. GetsItsName'
  BY <1>1 DEF IInv, TypeOK, GetsItsName
<1> QED BY <1>3, <1>4, <1>5, <1>6, <1>7, <1>8 DEF IInv

(* The numbers: only the addition and the read concern them.               *)
LEMMA NumberStep ==
  ASSUME IInv, TypeOK', NEW h \in Handshakes, getCertificate(h), pc[h] # "new"
  PROVE  CounterInv' /\ EarlierInv' /\ SerialsGrow'
<1>1. earlier' = earlier /\ \A g \in Handshakes : h \notin earlier[g]
  BY Frame DEF IInv, EarlierInv
<1>2. \A k \in Handshakes : \A g \in earlier[k] :
        g \in Handshakes /\ pc'[g] = pc[g] /\ serial'[g] = serial[g]
  BY <1>1, Frame DEF IInv, TypeOK
<1>3. EarlierInv'
  BY <1>1, <1>2 DEF IInv, EarlierInv, Ended
<1>4. CASE AddSerial(h)
  <2>1. /\ serialNumber' = serialNumber + 1 /\ serial' = serial
        /\ pc' = [pc EXCEPT ![h] = "read"] /\ pc[h] = "add"
    BY <1>4 DEF AddSerial, Go
  <2>2. \A g \in earlier[h] : serial[g] <= serialNumber
    BY <1>2 DEF IInv, CounterInv
  <2>3. CounterInv'
    BY <1>1, <2>1, <2>2 DEF IInv, TypeOK, CounterInv
  <2> QED BY <1>1, <1>3, <2>1, <2>3 DEF IInv, SerialsGrow
<1>5. CASE ReadSerial(h)
  <2>1. /\ serialNumber' = serialNumber /\ serial'[h] = serialNumber
        /\ pc[h] = "read" /\ pc'[h] = "create"
    BY <1>5 DEF ReadSerial, Go, IInv, TypeOK
  <2>2. serialNumber # 0 /\ \A g \in earlier[h] : serial[g] < serialNumber
    BY <2>1 DEF IInv, CounterInv
  <2>3. CounterInv'
    BY <1>1, <1>2, <2>1, <2>2, Frame DEF IInv, TypeOK, CounterInv
  <2>4. SerialsGrow'
    BY <1>1, <1>2, <2>1, <2>2, Frame DEF IInv, SerialsGrow
  <2> QED BY <1>3, <2>3, <2>4
<1>6. CASE LoadHit(h) \/ LoadMiss(h) \/ Create(h) \/ CreateFails(h) \/ Store(h)
  <2>1. /\ UNCHANGED <<serialNumber, serial>>
        /\ \/ pc[h] = "load" /\ pc'[h] = "add"
           \/ pc[h] = "create" /\ pc'[h] = "store"
           \/ pc'[h] \in {"done", "failed"}
    BY <1>6 DEF LoadHit, LoadMiss, Create, CreateFails, Store, Go, IInv, TypeOK
  <2>2. CounterInv'
    BY <1>1, <2>1, Frame DEF IInv, TypeOK, CounterInv
  <2> QED BY <1>1, <1>3, <2>1, <2>2 DEF IInv, SerialsGrow
<1> QED BY <1>4, <1>5, <1>6 DEF getCertificate, Begin

(* The cache: only a hit and a store concern it.                           *)
LEMMA CacheStep ==
  ASSUME IInv, TypeOK', NEW h \in Handshakes, getCertificate(h), pc[h] # "new"
  PROVE  CacheInv' /\ OnceInv' /\ GetsItsName'
<1>1. earlier' = earlier /\ domain' = domain /\ ~Ended(h)
      /\ \A k \in Handshakes : h \notin earlier[k]
  BY Frame DEF IInv, EarlierInv
<1>2. \A g \in Handshakes \ {h} : pc'[g] = pc[g] /\ got'[g] = got[g] /\ serial'[g] = serial[g]
  BY Frame DEF IInv
<1>3. \A n \in Names : certCache[n] # NoCert =>
        certCache[n] \in Handshakes \ {h}
  BY <1>1 DEF IInv, TypeOK, CacheInv, Ended
<1>4. \A k \in Handshakes : \A g \in earlier[k] : g \in Handshakes \ {h}
  BY <1>1 DEF IInv, TypeOK
<1>5. CASE LoadHit(h)
  <2>1. /\ certCache' = certCache /\ serial' = serial
        /\ got'[h] = certCache[domain[h]] /\ certCache[domain[h]] # NoCert
        /\ pc[h] = "load" /\ pc'[h] = "done" /\ domain[h] \in Names
    BY <1>5 DEF LoadHit, Go, IInv, TypeOK
  <2>2. CacheInv'
    BY <1>1, <1>2, <1>3, <2>1 DEF IInv, CacheInv
  <2>3. OnceInv'
    BY <1>1, <1>2, <1>3, <1>4, <2>1 DEF IInv, OnceInv
  <2>4. GetsItsName'
    <3>1. LET g == certCache[domain[h]] IN
            pc'[g] = "done" /\ domain[g] = domain[h] /\ serial'[g] # 0
      BY <1>2, <1>3, <2>1 DEF IInv, CacheInv
    <3> QED BY <1>1, <1>2, <2>1, <3>1 DEF IInv, TypeOK, GetsItsName, Ended
  <2> QED BY <2>2, <2>3, <2>4
<1>6. CASE Store(h)
  <2>1. /\ certCache' = [certCache EXCEPT ![domain[h]] = h] /\ serial' = serial
        /\ got'[h] = h /\ pc[h] = "store" /\ pc'[h] = "done" /\ domain[h] \in Names
    BY <1>6 DEF Store, Go, IInv, TypeOK
  <2>2. \A n \in Names : certCache'[n] = IF n = domain[h] THEN h ELSE certCache[n]
    BY <2>1 DEF IInv, TypeOK
  <2>3. serial[h] # 0
    BY <2>1 DEF IInv, CounterInv
  <2>4. CacheInv'
    BY <1>1, <1>2, <1>3, <2>1, <2>2, <2>3, NoCertAssumption DEF IInv, TypeOK, CacheInv
  <2>5. OnceInv'
    BY <1>1, <1>2, <1>4, <2>1 DEF IInv, OnceInv
  <2>6. GetsItsName'
    BY <1>1, <1>2, <2>1, <2>3, NoCertAssumption DEF IInv, TypeOK, GetsItsName, Ended
  <2> QED BY <2>4, <2>5, <2>6
<1>7. CASE LoadMiss(h) \/ AddSerial(h) \/ ReadSerial(h) \/ Create(h) \/ CreateFails(h)
  <2>1. /\ certCache' = certCache /\ got' = got
        /\ pc[h] \in {"load", "add", "read", "create"}
        /\ pc'[h] \in {"add", "read", "create", "store", "failed"}
        /\ pc[h] = "load" => certCache[domain[h]] = NoCert
    BY <1>7 DEF LoadMiss, AddSerial, ReadSerial, Create, CreateFails, Go, IInv, TypeOK
  <2>2. CacheInv'
    BY <1>1, <1>2, <1>3, <2>1 DEF IInv, TypeOK, CacheInv
  <2>3. ASSUME NEW g \in earlier[h], pc[g] = "done", domain[g] = domain[h] PROVE FALSE
    BY <2>1, <2>3 DEF IInv, TypeOK, OnceInv, CacheInv
  <2>4. OnceInv'
    BY <1>1, <1>2, <1>4, <2>1, <2>3 DEF IInv, OnceInv
  <2>5. GetsItsName'
    BY <1>1, <1>2, <2>1 DEF IInv, TypeOK, GetsItsName, Ended
  <2> QED BY <2>2, <2>4, <2>5
<1> QED BY <1>5, <1>6, <1>7 DEF getCertificate, Begin

LEMMA Inductive == IInv /\ [Next]_vars => IInv'
<1> SUFFICES ASSUME IInv, [Next]_vars PROVE IInv'
  OBVIOUS
<1>1. TypeOK'
  BY TypeInductive DEF IInv
<1>2. CASE UNCHANGED vars
  BY <1>1, <1>2 DEF vars, IInv, CounterInv, EarlierInv, CacheInv, OnceInv, SerialsGrow,
                    GetsItsName, Ended
<1>3. ASSUME NEW h \in Handshakes, getCertificate(h) PROVE IInv'
  <2>1. CASE pc[h] = "new"
    <3>1. Begin(h)
      BY <1>3, <2>1 DEF getCertificate, LoadHit, LoadMiss, AddSerial, ReadSerial, Create,
                        CreateFails, Store
    <3> QED BY <1>1, <3>1, BeginStep
  <2>2. CASE pc[h] # "new"
    BY <1>1, <1>3, <2>2, NumberStep, CacheStep DEF IInv
  <2> QED BY <2>1, <2>2
<1> QED BY <1>2, <1>3 DEF Next

THEOREM InductiveInvariant == Spec => []IInv
  BY Initial, Inductive, PTL DEF Spec

(* Serial numbers grow from one handshake to any that begins after it has  *)
(* ended: only overlapping handshakes can share one.                       *)
THEOREM SerialsGrowHolds == Spec => []SerialsGrow
<1>1. IInv => SerialsGrow
  BY DEF IInv
<1> QED BY <1>1, InductiveInvariant, PTL

(* After one success for a name no later handshake makes a certificate.    *)
THEOREM MadeOnceHolds == Spec => []MadeOnce
<1>1. IInv => MadeOnce
  BY DEF IInv, OnceInv, MadeOnce
<1> QED BY <1>1, InductiveInvariant, PTL

(* A handshake that succeeds has a finished certificate for its own name.  *)
THEOREM GetsItsNameHolds == Spec => []GetsItsName
<1>1. IInv => GetsItsName
  BY DEF IInv
<1> QED BY <1>1, InductiveInvariant, PTL
=============================================================================
