------------------------------- MODULE Rules -------------------------------
(***************************************************************************)
(* The rules that decide what becomes of a request, while pages change     *)
(* them. exclude, include and replace are slices in fields of the Proxy.   *)
(* The setters assign a new slice, ServeHTTP ranges over whichever is      *)
(* there; nothing is locked. A range reads the slice's pointer and its     *)
(* length in two accesses, so that it may have them from two lists.        *)
(*                                                                         *)
(* Of a pattern, match is the set of hosts filepath.Match finds it to match*)
(* (a replace rule's pattern is for urls: here a host has one).            *)
(***************************************************************************)
EXTENDS Integers, Sequences, FiniteSetsExt

CONSTANTS Hosts,
          FilterLists,   \* the include and exclude lists users write
          ReplaceLists,  \* the lists of replace rules they write
          Requests,      \* one per client connection that sends requests
          Capacity(_),   \* the elements there is room for in a list's array
          None,          \* no word read yet
          Changes        \* bound on the lists set

Ways == {"substitute", "nothing", "panic"}
ASSUME FilterAssumption == FilterLists \subseteq Seq([match : SUBSET Hosts])
ASSUME ReplaceAssumption ==
  ReplaceLists \subseteq Seq([match : SUBSET Hosts, does : Ways]) /\ <<>> \in ReplaceLists
ASSUME CapacityAssumption ==
  \A P \in FilterLists \cup ReplaceLists : Capacity(P) \in Nat /\ Capacity(P) >= Len(P)
ASSUME ChangesAssumption == Changes \in Nat

Filters == {"exclude", "include"}
Names == Filters \cup {"replace"}
Kinds == {"connect", "websocket", "sse", "plain"}

VARIABLES
  lists,    \* lists[n]: the slice in field n
  changes,  \* how many lists pages have set
  crashed,  \* the process was ended by an access outside any slice
  pc,       \* pc[r]: "new", the list r is to be looked up in, or "done"
  host, kind,
  inside,   \* inside[r]: r came through a tunnel to go-mitm's own server
  half,     \* half[r]: the word of the slice r has read
  verdict,  \* verdict[r]
  seen,     \* seen[r][n]: the lists in force while r read n         (history)
  moved,    \* moved[r]: was a list set since r's CONNECT             (history)
  through   \* through[r]: the host of the CONNECT r came through     (history)

ruleVars == <<lists, changes>>
reqVars == <<pc, host, kind, inside, half, verdict>>
vars == <<ruleVars, crashed, reqVars, seen, moved, through>>

Values(n) == IF n = "replace" THEN ReplaceLists ELSE FilterLists

Init ==
  /\ lists \in [Names -> FilterLists \cup ReplaceLists]
  /\ \A n \in Filters : lists[n] \in FilterLists    \* the flags
  /\ lists["replace"] = <<>>
  /\ changes = 0 /\ crashed = FALSE
  /\ pc = [r \in Requests |-> "new"]
  /\ host \in [Requests -> Hosts]
  /\ kind = [r \in Requests |-> "plain"]
  /\ inside = [r \in Requests |-> FALSE]
  /\ half = [r \in Requests |-> None]
  /\ verdict = [r \in Requests |-> "none"]
  /\ seen = [r \in Requests |-> [n \in Names |-> {}]]
  /\ moved = [r \in Requests |-> FALSE]
  /\ through = host
-----------------------------------------------------------------------------
Shorter(m, n) == IF m < n THEN m ELSE n
Matches(P, n, h) == \E i \in 1..n : h \in P[i].match
-----------------------------------------------------------------------------
(* Faulty variants, used only to confirm that the properties notice them.  *)

\* The last element of a list is left out.
LookupButLast(P, L, h) ==
  IF Matches(P, Shorter(Len(P), Len(L) - 1), h) THEN {"match"}
  ELSE IF Len(L) > Capacity(P) THEN {"match", "pass", "crash"} ELSE {"pass"}

\* Replacement rules are looked at before a request is known to be plain.
TakenLate(r) == IF kind[r] = "connect" THEN "tunnel" ELSE "none"
-----------------------------------------------------------------------------
(* What a range over a slice finds that points to list P and has the length*)
(* of list L. What the array has beyond P's elements is empty and matches  *)
(* nothing; what follows it may be anything: a match, none, or an address  *)
(* that ends the process.                                                  *)

Wild(P, L) == Len(L) > Capacity(P)

Lookup(P, L, h) ==
  IF Matches(P, Shorter(Len(P), Len(L)), h) THEN {"match"}
  ELSE IF Wild(P, L) THEN {"match", "pass", "crash"} ELSE {"pass"}

(* No include rule includes every host.                                    *)
Included(P, L, h) == IF L = <<>> THEN {"match"} ELSE Lookup(P, L, h)

First(P, n, h) == Min({i \in 1..n : h \in P[i].match})

(* The first rule that matches decides, by its second part: a scheme with  *)
(* an address, anything else, or no such part. A rule of the page's own    *)
(* making has scheme and address in one part, and so does nothing. An empty*)
(* rule has no first part either.                                          *)
Replaced(P, L, h) ==
  LET n == Shorter(Len(P), Len(L))
  IN IF Matches(P, n, h) THEN {P[First(P, n, h)].does}
     ELSE IF Len(L) > Len(P) /\ Capacity(P) > Len(P) THEN {"panic"}
     ELSE IF Wild(P, L) THEN Ways \cup {"http", "crash"} ELSE {"http"}

(* forward dials the host that a CONNECT names. Of other requests it passes*)
(* on the url. As HTTP clients do it, a request to the proxy port has a    *)
(* full url and one in a tunnel a mere path, so that forward has no address*)
(* to send it to: it fails.                                                *)
Forwarded(r) ==
  CASE kind[r] = "connect" -> "direct"
    [] kind[r] # "connect" /\ inside[r] -> "blind"
    [] OTHER -> "forward"

(* An included request goes by its kind; only a plain one can be replaced. *)
Taken(r) == CASE kind[r] = "connect" -> "tunnel"
              [] kind[r] = "plain" -> "none"
              [] OTHER -> kind[r]
-----------------------------------------------------------------------------
(* Pages.                                                                  *)

\* /action, on a page's OK: SetExclude and ClearExclude, and the same for the
\* others. Pages do not wait for one another, nor one for its own last OK.
Set(n, v) ==
  /\ ~crashed /\ changes < Changes
  /\ lists' = [lists EXCEPT ![n] = v]
  /\ changes' = changes + 1
  /\ seen' = [r \in Requests |->
                IF pc[r] = n /\ half[r] # None
                  THEN [seen[r] EXCEPT ![n] = @ \cup {v}] ELSE seen[r]]
  /\ moved' = [r \in Requests |-> TRUE]
  /\ UNCHANGED <<crashed, reqVars, through>>
-----------------------------------------------------------------------------
(* ServeHTTP.                                                              *)

\* A request of a client to the proxy port.
Arrive(r, k) ==
  /\ ~crashed /\ pc[r] = "new"
  /\ pc' = [pc EXCEPT ![r] = "exclude"]
  /\ kind' = [kind EXCEPT ![r] = k]
  /\ moved' = [moved EXCEPT ![r] = FALSE]
  /\ UNCHANGED <<ruleVars, crashed, host, inside, half, verdict, seen, through>>

\* A request through the tunnel that a CONNECT was given: httpsSrv's handler is
\* ServeHTTP too. It names a host of its own, and may be a CONNECT again. (One
\* within a tunnel may be refused, which leaves the client in the outer tunnel.)
Inner(r, k, h) ==
  /\ ~crashed /\ pc[r] = "done" /\ (inside[r] \/ verdict[r] = "tunnel")
  /\ host' = [host EXCEPT ![r] = h]
  /\ \E c \in {through[r]} \cup (IF verdict[r] = "tunnel" THEN {host[r]} ELSE {}) :
       through' = [through EXCEPT ![r] = c]
  /\ inside' = [inside EXCEPT ![r] = TRUE]
  /\ pc' = [pc EXCEPT ![r] = "exclude"]
  /\ kind' = [kind EXCEPT ![r] = k]
  /\ verdict' = [verdict EXCEPT ![r] = "none"]
  /\ seen' = [seen EXCEPT ![r] = [n \in Names |-> {}]]
  /\ UNCHANGED <<ruleVars, crashed, half, moved>>

\* The first of the two words, in the order the compiler has chosen.
ReadWord(r) ==
  /\ ~crashed /\ pc[r] \in Names /\ half[r] = None
  /\ \E w \in {"pointer", "length"} :
       half' = [half EXCEPT ![r] = [word |-> w, list |-> lists[pc[r]]]]
  /\ seen' = [seen EXCEPT ![r][pc[r]] = {lists[pc[r]]}]
  /\ UNCHANGED <<ruleVars, crashed, pc, host, kind, inside, verdict, moved, through>>

Pointed(r) == IF half[r].word = "pointer" THEN half[r].list ELSE lists[pc[r]]
Measured(r) == IF half[r].word = "length" THEN half[r].list ELSE lists[pc[r]]

\* Faulty variant: the word read is kept for the next lookup.
EndsUncleared(r, next, v) ==
  /\ pc' = [pc EXCEPT ![r] = next]
  /\ verdict' = [verdict EXCEPT ![r] = v]
  /\ crashed' = (v = "crash")
  /\ UNCHANGED <<ruleVars, host, kind, inside, half, seen, moved, through>>

(* The lookup has ended: the request goes on to list next, or gets a       *)
(* verdict, or the process has ended.                                      *)
Ends(r, next, v) ==
  /\ pc' = [pc EXCEPT ![r] = next]
  /\ verdict' = [verdict EXCEPT ![r] = v]
  /\ half' = [half EXCEPT ![r] = None]
  /\ crashed' = (v = "crash")
  /\ UNCHANGED <<ruleVars, host, kind, inside, seen, moved, through>>

\* Faulty variant: the exclude list is not consulted for CONNECT.
ExcludePlain(r) ==
  /\ ~crashed /\ pc[r] = "exclude" /\ half[r] # None
  /\ \E o \in Lookup(Pointed(r), Measured(r), host[r]) :
       CASE o = "match" /\ kind[r] # "connect" -> Ends(r, "done", Forwarded(r))
         [] o = "crash" -> Ends(r, "done", "crash")
         [] OTHER -> Ends(r, "include", "none")

Exclude(r) ==
  /\ ~crashed /\ pc[r] = "exclude" /\ half[r] # None
  /\ \E o \in Lookup(Pointed(r), Measured(r), host[r]) :
       \/ o = "match" /\ Ends(r, "done", Forwarded(r))
       \/ o = "pass" /\ Ends(r, "include", "none")
       \/ o = "crash" /\ Ends(r, "done", "crash")

Include(r) ==
  /\ ~crashed /\ pc[r] = "include" /\ half[r] # None
  /\ \E o \in Included(Pointed(r), Measured(r), host[r]) :
       \/ o = "match" /\ Ends(r, IF Taken(r) = "none" THEN "replace" ELSE "done", Taken(r))
       \/ o = "pass" /\ Ends(r, "done", Forwarded(r))
       \/ o = "crash" /\ Ends(r, "done", "crash")

Replace(r) ==
  /\ ~crashed /\ pc[r] = "replace" /\ half[r] # None
  /\ \E o \in Replaced(Pointed(r), Measured(r), host[r]) : Ends(r, "done", o)

ServeHTTP(r) == ReadWord(r) \/ Exclude(r) \/ Include(r) \/ Replace(r)
-----------------------------------------------------------------------------
Next ==
  \/ \E n \in Names : \E v \in Values(n) : Set(n, v)
  \/ \E r \in Requests, k \in Kinds : Arrive(r, k) \/ \E h \in Hosts : Inner(r, k, h)
  \/ \E r \in Requests : ServeHTTP(r)

Spec == Init /\ [][Next]_vars
-----------------------------------------------------------------------------
Verdicts == {"none", "direct", "forward", "blind", "tunnel", "websocket", "sse",
             "http", "crash"} \cup Ways

TypeOK ==
  /\ \A n \in Names : lists[n] \in Values(n)
  /\ changes \in 0..Changes /\ crashed \in BOOLEAN
  /\ pc \in [Requests -> {"new", "done"} \cup Names]
  /\ host \in [Requests -> Hosts] /\ kind \in [Requests -> Kinds]
  /\ inside \in [Requests -> BOOLEAN]
  /\ \A r \in Requests : half[r] # None =>
       pc[r] \in Names /\ half[r].word \in {"pointer", "length"}
                       /\ half[r].list \in seen[r][pc[r]]
  /\ verdict \in [Requests -> Verdicts]
  /\ \A r \in Requests : \A n \in Names : seen[r][n] \subseteq Values(n)
  /\ moved \in [Requests -> BOOLEAN] /\ through \in [Requests -> Hosts]

Bypassed(r) == verdict[r] \in {"direct", "forward", "blind"}

(* Each of the lists in force while r read list n has a match for its host *)
(* among as many elements as the shortest of them has.                     *)
Covered(r, n) ==
  /\ seen[r][n] # {}
  /\ \A v, w \in seen[r][n] : Matches(v, Shorter(Len(v), Len(w)), host[r])

(* However its words were torn, a range finds a host that every list in    *)
(* force meanwhile covers: an excluded host is never intercepted, and an   *)
(* included one never forwarded for not being included, while that list    *)
(* grows or shrinks at its end. (A list whose patterns change places may   *)
(* lose one: the range may see the new start at the old length.)           *)
CoveredStays ==
  \A r \in Requests : pc[r] = "done" =>
    /\ Covered(r, "exclude") => Bypassed(r)
    /\ Covered(r, "include") => ~Bypassed(r)

(* What the rules say of r if each list is the one that was in force.      *)
Only(S) == CHOOSE v \in S : TRUE
Ruled(r) ==
  LET ex == Only(seen[r]["exclude"])
      in == Only(seen[r]["include"])
      rep == Only(seen[r]["replace"])
      matching == {i \in 1..Len(rep) : host[r] \in rep[i].match}
  IN IF \E i \in 1..Len(ex) : host[r] \in ex[i].match THEN Forwarded(r)
     ELSE IF in # <<>> /\ \A i \in 1..Len(in) : host[r] \notin in[i].match THEN Forwarded(r)
     ELSE IF kind[r] # "plain" THEN Taken(r)
     ELSE IF matching = {} THEN "http"
     ELSE rep[Min(matching)].does

(* A request during whose lookups no list was set gets what the rules say, *)
(* and does not end the process.                                           *)
UndisturbedIsRuled ==
  \A r \in Requests :
    pc[r] = "done" /\ (\A n \in Names : \A v, w \in seen[r][n] : v = w) => verdict[r] = Ruled(r)

(* A request that came through a tunnel is handed to forward, which has no *)
(* address for it and fails, only if a list was set since its CONNECT or it*)
(* names another host than that CONNECT did: the rules that let a tunnel in*)
(* let in what it was opened for.                                          *)
BlindHasCause ==
  \A r \in Requests : verdict[r] = "blind" => moved[r] \/ host[r] # through[r]
=============================================================================
