---------------------------- MODULE RulesProofs ----------------------------
(***************************************************************************)
(* What the rules make of a request while pages change them: for any lists *)
(* of rules, any hosts, any number of requests and of changes, and whatever*)
(* room append leaves in an array.                                         *)
(***************************************************************************)
EXTENDS Rules, WellFoundedInduction, TLAPS

Lists == FilterLists \cup ReplaceLists
Words == [word : {"pointer", "length"}, list : Lists]

(* The types of what TypeOK says only with the state in view.              *)
ShapeInv ==
  /\ lists \in [Names -> Lists]
  /\ half \in [Requests -> Words \cup {None}]
  /\ seen \in [Requests -> [Names -> SUBSET Lists]]

Hits(v, h) == Matches(v, Len(v), h)
Solo(r, n) == \A v, w \in seen[r][n] : v = w

(* While r has one word, what is in the field now counts as seen, and is   *)
(* what that word is of unless a list was set since r's CONNECT.           *)
WordInv(r) ==
  half[r] # None =>
    /\ lists[pc[r]] \in seen[r][pc[r]]
    /\ ~moved[r] => half[r].list = lists[pc[r]]

(* What has not been looked at, and who has not come through a tunnel.     *)
NewInv(r) ==
  /\ ~inside[r] => through[r] = host[r]
  /\ pc[r] = "new" => ~inside[r] /\ verdict[r] = "none"
  /\ pc[r] \in {"new", "exclude"} => seen[r]["include"] = {}

(* What it means that r has come past a list.                              *)
PassedInv(r) ==
  /\ pc[r] \in {"include", "replace"} =>
       /\ ~Covered(r, "exclude") /\ seen[r]["exclude"] # {}
       /\ Solo(r, "exclude") => \A v \in seen[r]["exclude"] : ~Hits(v, host[r])
  /\ pc[r] = "replace" =>
       /\ kind[r] = "plain" /\ seen[r]["include"] # {}
       /\ Solo(r, "include") => \A v \in seen[r]["include"] : v = <<>> \/ Hits(v, host[r])

(* As long as no list is set, the rules let in what they have let in: the  *)
(* host of a CONNECT, also while requests come through its tunnel.         *)
StandingInv(r) ==
  ~moved[r] =>
    /\ pc[r] \in {"include", "replace"} \/ verdict[r] = "tunnel" =>
         ~Hits(lists["exclude"], host[r])
    /\ pc[r] = "replace" \/ verdict[r] = "tunnel" =>
         lists["include"] = <<>> \/ Hits(lists["include"], host[r])
    /\ inside[r] =>
         /\ ~Hits(lists["exclude"], through[r])
         /\ lists["include"] = <<>> \/ Hits(lists["include"], through[r])

(* The three properties, of one request.                                   *)
DoneInv(r) ==
  /\ pc[r] = "done" => /\ Covered(r, "exclude") => Bypassed(r)
                       /\ Covered(r, "include") => ~Bypassed(r)
                       /\ (\A n \in Names : Solo(r, n)) => verdict[r] = Ruled(r)
  /\ verdict[r] = "blind" => moved[r] \/ host[r] # through[r]

RequestInv(r) ==
  WordInv(r) /\ NewInv(r) /\ PassedInv(r) /\ StandingInv(r) /\ DoneInv(r)

IInv == TypeOK /\ ShapeInv /\ \A r \in Requests : RequestInv(r)
-----------------------------------------------------------------------------
(* A set of numbers has a least one.                                       *)
LEMMA LeastOfNat ==
  ASSUME NEW S, S \subseteq Nat, S # {}
  PROVE  Min(S) \in S /\ \A y \in S : Min(S) <= y
<1> DEFINE R == OpToRel(<, Nat)
<1>1. IsWellFoundedOn(R, Nat)
  BY NatLessThanWellFounded
<1>2. \A x, y \in Nat : <<x, y>> \in R <=> x < y
  BY DEF OpToRel
<1> HIDE DEF R
<1>3. PICK x \in S : \A y \in S : ~(<<y, x>> \in R)
  BY <1>1, WFMin
<1>4. \A y \in S : x <= y
  <2> TAKE y \in S
  <2>1. x \in Nat /\ y \in Nat /\ ~(y < x)
    BY <1>2, <1>3
  <2> QED BY <2>1
<1> QED BY <1>4 DEF Min

LEMMA Lengths ==
  ASSUME NEW P \in Lists
  PROVE  Len(P) \in Nat /\ Capacity(P) \in Nat /\ Len(P) <= Capacity(P)
<1>1. Len(P) \in Nat
  BY FilterAssumption, ReplaceAssumption DEF Lists
<1> QED BY <1>1, CapacityAssumption DEF Lists

(* A range over a slice, torn or not, and over a list that was let be.     *)
LEMMA LookupFacts ==
  ASSUME NEW P \in Lists, NEW L \in Lists, NEW h
  PROVE  /\ Lookup(P, L, h) \subseteq {"match", "pass", "crash"}
         /\ Matches(P, Shorter(Len(P), Len(L)), h) => Lookup(P, L, h) = {"match"}
         /\ P = L /\ Hits(P, h) => Lookup(P, L, h) = {"match"}
         /\ P = L /\ ~Hits(P, h) => Lookup(P, L, h) = {"pass"}
<1>1. Shorter(Len(P), Len(P)) = Len(P)
  BY DEF Shorter
<1>2. ~Wild(P, P)
  BY Lengths DEF Wild
<1> QED BY <1>1, <1>2 DEF Lookup, Hits

LEMMA IncludedFacts ==
  ASSUME NEW P \in Lists, NEW L \in Lists, NEW h
  PROVE  /\ Included(P, L, h) \subseteq {"match", "pass", "crash"}
         /\ Matches(P, Shorter(Len(P), Len(L)), h) => Included(P, L, h) = {"match"}
         /\ P = L /\ (L = <<>> \/ Hits(P, h)) => Included(P, L, h) = {"match"}
         /\ P = L /\ L # <<>> /\ ~Hits(P, h) => Included(P, L, h) = {"pass"}
  BY LookupFacts DEF Included

(* The replacement rules: the first that matches.                          *)
LEMMA ReplacedFacts ==
  ASSUME NEW P \in ReplaceLists, NEW L \in ReplaceLists, NEW h, NEW o \in Replaced(P, L, h)
  PROVE  /\ o \in Ways \cup {"http", "crash"}
         /\ P = L => LET matching == {i \in 1..Len(P) : h \in P[i].match}
                     IN IF matching = {} THEN o = "http" ELSE o = P[Min(matching)].does
<1> DEFINE n == Shorter(Len(P), Len(L))
           M(m) == {i \in 1..m : h \in P[i].match}
<1>1. Len(P) \in Nat /\ Len(L) \in Nat /\ n \in Nat /\ n <= Len(P)
  BY Lengths DEF Lists, Shorter
<1>2. Matches(P, n, h) <=> M(n) # {}
  BY DEF Matches
<1>3. M(n) # {} => P[Min(M(n))].does \in Ways
  <2> SUFFICES ASSUME M(n) # {} PROVE P[Min(M(n))].does \in Ways
    OBVIOUS
  <2>1. Min(M(n)) \in M(n)
    <3>1. M(n) \subseteq Nat
      BY <1>1
    <3> HIDE DEF M
    <3> QED BY <3>1, LeastOfNat
  <2>2. Min(M(n)) \in 1..Len(P)
    BY <1>1, <2>1
  <2>3. \A i \in 1..Len(P) : P[i].does \in Ways
    <3> DEFINE Rule == [match : SUBSET Hosts, does : Ways]
    <3>1. P \in Seq(Rule)
      BY ReplaceAssumption
    <3>2. \A i \in 1..Len(P) : P[i] \in Rule
      <4> HIDE DEF Rule
      <4> QED BY <3>1
    <3> QED BY <3>2
  <2> QED BY <2>2, <2>3
<1>4. o \in Ways \cup {"http", "crash"}
  BY <1>2, <1>3 DEF Replaced, First, Ways
<1>5. ASSUME P = L PROVE IF M(Len(P)) = {} THEN o = "http" ELSE o = P[Min(M(Len(P)))].does
  <2>1. n = Len(P) /\ ~Wild(P, L) /\ ~(Len(L) > Len(P))
    BY <1>1, <1>5, Lengths DEF Shorter, Wild, Lists
  <2> QED BY <2>1, <1>2 DEF Replaced, First
<1> QED BY <1>4, <1>5

LEMMA OnlyMember == ASSUME NEW S, S # {} PROVE Only(S) \in S
  BY DEF Only
-----------------------------------------------------------------------------
LEMMA Initial == Init => IInv
<1> SUFFICES ASSUME Init PROVE IInv
  OBVIOUS
<1> USE DEF Init
<1>1. TypeOK
  <2>1. 0 \in 0..Changes
    BY ChangesAssumption
  <2>2. \A n \in Names : lists[n] \in Values(n)
    BY ReplaceAssumption DEF Names, Filters, Values
  <2>3. kind \in [Requests -> Kinds] /\ verdict \in [Requests -> Verdicts]
    BY DEF Kinds, Verdicts
  <2> QED BY <2>1, <2>2, <2>3 DEF TypeOK
<1>2. ShapeInv
  BY DEF ShapeInv, Lists
<1>3. ASSUME NEW r \in Requests PROVE RequestInv(r)
  <2>1. "include" \in Names
    BY DEF Names, Filters
  <2> QED BY <2>1 DEF RequestInv, WordInv, NewInv, PassedInv, StandingInv, DoneInv
<1> QED BY <1>1, <1>2, <1>3 DEF IInv

LEMMA FieldTypes ==
  ASSUME NEW n \in Names
  PROVE  Values(n) \subseteq Lists /\ "exclude" \in Names /\ "include" \in Names /\ "replace" \in Names
  BY DEF Values, Lists, Names, Filters

(* A step that is not r's, and sets no list.                               *)
LEMMA Frame ==
  ASSUME NEW r \in Requests, RequestInv(r), lists' = lists,
         pc'[r] = pc[r], host'[r] = host[r], kind'[r] = kind[r], inside'[r] = inside[r],
         half'[r] = half[r], verdict'[r] = verdict[r], seen'[r] = seen[r], moved'[r] = moved[r],
         through'[r] = through[r]
  PROVE  RequestInv(r)'
<1>1. /\ Ruled(r)' = Ruled(r)
      /\ \A n \in Names : (Covered(r, n)' <=> Covered(r, n)) /\ (Solo(r, n)' <=> Solo(r, n))
  BY DEF Ruled, Forwarded, Taken, Covered, Solo
<1>2. WordInv(r)' /\ NewInv(r)' /\ StandingInv(r)'
  BY DEF RequestInv, WordInv, NewInv, StandingInv
<1>3. "exclude" \in Names /\ "include" \in Names
  BY DEF Names, Filters
<1>4. PassedInv(r)'
  BY <1>1, <1>3 DEF RequestInv, PassedInv
<1>5. DoneInv(r)'
  BY <1>1, <1>3 DEF RequestInv, DoneInv, Bypassed
<1> QED BY <1>2, <1>4, <1>5 DEF RequestInv

(* Somebody sets a list while requests are on their way.                   *)
LEMMA SetStep ==
  ASSUME IInv, NEW n \in Names, NEW v \in Values(n), Set(n, v)
  PROVE  IInv'
<1> USE DEF Set, reqVars
<1>1. TypeOK' /\ ShapeInv'
  <2>1. lists' \in [Names -> Lists] /\ \A m \in Names : lists'[m] \in Values(m)
    BY FieldTypes DEF IInv, TypeOK, ShapeInv
  <2>2. changes' \in 0..Changes
    BY ChangesAssumption DEF IInv, TypeOK
  <2>3. \A r \in Requests : /\ seen'[r] \in [Names -> SUBSET Lists]
                            /\ \A m \in Names : seen[r][m] \subseteq seen'[r][m]
                            /\ \A m \in Names : seen'[r][m] \subseteq Values(m)
    <3> TAKE r \in Requests
    <3>1. CASE pc[r] = n /\ half[r] # None
      <4>1. seen'[r] = [seen[r] EXCEPT ![n] = @ \cup {v}]
        BY <3>1
      <4>2. v \in Lists /\ seen[r] \in [Names -> SUBSET Lists]
        BY FieldTypes DEF IInv, ShapeInv
      <4> QED BY <4>1, <4>2 DEF IInv, TypeOK
    <3>2. CASE ~(pc[r] = n /\ half[r] # None)
      BY <3>2 DEF IInv, TypeOK, ShapeInv
    <3> QED BY <3>1, <3>2
  <2>4. seen' \in [Requests -> [Names -> SUBSET Lists]]
    <3> DEFINE new(r) == IF pc[r] = n /\ half[r] # None
                           THEN [seen[r] EXCEPT ![n] = @ \cup {v}] ELSE seen[r]
    <3>1. seen' = [r \in Requests |-> new(r)]
      OBVIOUS
    <3>2. \A r \in Requests : new(r) \in [Names -> SUBSET Lists]
      BY <2>3, <3>1
    <3> HIDE DEF new
    <3> QED BY <3>1, <3>2
  <2>5. moved' \in [Requests -> BOOLEAN]
    OBVIOUS
  <2> QED BY <2>1, <2>2, <2>3, <2>4, <2>5 DEF IInv, TypeOK, ShapeInv
<1>2. ASSUME NEW r \in Requests PROVE RequestInv(r)'
  <2>1. /\ moved'[r] /\ pc'[r] = pc[r] /\ half'[r] = half[r] /\ host'[r] = host[r]
        /\ kind'[r] = kind[r] /\ inside'[r] = inside[r] /\ verdict'[r] = verdict[r]
        /\ through'[r] = through[r]
    OBVIOUS
  <2>2. \A m \in Names : pc[r] # m \/ half[r] = None => seen'[r][m] = seen[r][m]
    BY DEF IInv, ShapeInv
  <2>3. /\ "exclude" \in Names /\ "include" \in Names /\ n \in Names /\ "done" \notin Names
    BY DEF Names, Filters
  <2>4. RequestInv(r)
    BY DEF IInv
  <2>5. WordInv(r)'
    <3> SUFFICES ASSUME half[r] # None PROVE lists'[pc[r]] \in seen'[r][pc[r]]
      BY <2>1 DEF WordInv
    <3>1. pc[r] \in Names
      BY DEF IInv, TypeOK
    <3>2. CASE pc[r] = n
      <4>1. seen'[r] = [seen[r] EXCEPT ![n] = @ \cup {v}]
        BY <3>2
      <4>2. seen'[r][n] = seen[r][n] \cup {v}
        BY <4>1 DEF IInv, ShapeInv
      <4> QED BY <3>2, <4>2 DEF IInv, ShapeInv
    <3>3. CASE pc[r] # n
      BY <3>1, <3>3, <2>4 DEF IInv, ShapeInv, RequestInv, WordInv
    <3> QED BY <3>2, <3>3
  <2>6. NewInv(r)'
    BY <2>1, <2>2, <2>3, <2>4 DEF RequestInv, NewInv
  <2>7. pc[r] \in {"include", "replace"} => seen'[r]["exclude"] = seen[r]["exclude"]
    BY <2>2, <2>3
  <2>8. pc[r] = "replace" => seen'[r]["include"] = seen[r]["include"]
    BY <2>2, <2>3
  <2>9. PassedInv(r)'
    BY <2>1, <2>4, <2>7, <2>8 DEF RequestInv, PassedInv, Covered, Solo
  <2>10. StandingInv(r)'
    BY <2>1 DEF StandingInv
  <2>11. DoneInv(r)'
    <3> SUFFICES ASSUME pc[r] = "done"
                 PROVE  /\ Covered(r, "exclude")' => Bypassed(r)'
                        /\ Covered(r, "include")' => ~Bypassed(r)'
                        /\ (\A m \in Names : Solo(r, m)') => verdict'[r] = Ruled(r)'
      BY <2>1 DEF DoneInv
    <3>1. seen'[r] = seen[r]
      BY <2>3
    <3> HIDE DEF Set, reqVars
    <3>2. /\ Ruled(r)' = Ruled(r)
          /\ \A m \in Names : (Covered(r, m)' <=> Covered(r, m)) /\ (Solo(r, m)' <=> Solo(r, m))
      BY <2>1, <3>1 DEF Ruled, Forwarded, Taken, Covered, Solo
    <3> QED BY <2>1, <2>3, <2>4, <3>2 DEF RequestInv, DoneInv, Bypassed
  <2> QED BY <2>5, <2>6, <2>9, <2>10, <2>11 DEF RequestInv
<1> QED BY <1>1, <1>2 DEF IInv

(* The first word of a slice is read.                                      *)
LEMMA ReadWordStep ==
  ASSUME IInv, NEW r \in Requests, ReadWord(r)
  PROVE  IInv'
<1> DEFINE n == pc[r]
<1>1. PICK w \in {"pointer", "length"} :
        half' = [half EXCEPT ![r] = [word |-> w, list |-> lists[n]]]
  BY DEF ReadWord
<1>2. /\ n \in Names /\ half[r] = None
      /\ seen' = [seen EXCEPT ![r] = [seen[r] EXCEPT ![n] = {lists[n]}]]
      /\ UNCHANGED <<lists, changes, crashed, pc, host, kind, inside, verdict, moved, through>>
  BY DEF ReadWord, ruleVars, IInv, ShapeInv
<1> HIDE DEF n
<1>3. lists[n] \in Values(n) /\ lists[n] \in Lists /\ n \in Names
  BY <1>2, FieldTypes DEF IInv, TypeOK
<1>4. /\ half' \in [Requests -> Words \cup {None}]
      /\ half'[r] = [word |-> w, list |-> lists[n]]
      /\ \A s \in Requests \ {r} : half'[s] = half[s]
  <2>1. [word |-> w, list |-> lists[n]] \in Words
    BY <1>3 DEF Words
  <2> QED BY <1>1, <2>1 DEF IInv, ShapeInv
<1>5. /\ seen' \in [Requests -> [Names -> SUBSET Lists]]
      /\ seen'[r][n] = {lists[n]}
      /\ \A m \in Names \ {n} : seen'[r][m] = seen[r][m]
      /\ \A s \in Requests \ {r} : seen'[s] = seen[s]
  <2> DEFINE new == [seen[r] EXCEPT ![n] = {lists[n]}]
  <2>1. /\ new \in [Names -> SUBSET Lists] /\ new[n] = {lists[n]}
        /\ \A m \in Names \ {n} : new[m] = seen[r][m]
    BY <1>3 DEF IInv, ShapeInv
  <2>2. seen' = [seen EXCEPT ![r] = new]
    BY <1>2
  <2> HIDE DEF new
  <2> QED BY <2>1, <2>2 DEF IInv, ShapeInv
<1>6. ShapeInv'
  BY <1>2, <1>4, <1>5 DEF IInv, ShapeInv
<1>7. TypeOK'
  <2>1. \A s \in Requests : half'[s] # None =>
          /\ pc'[s] \in Names /\ half'[s].word \in {"pointer", "length"}
          /\ half'[s].list \in seen'[s][pc'[s]]
    <3> TAKE s \in Requests
    <3>1. CASE s = r
      BY <3>1, <1>2, <1>3, <1>4, <1>5 DEF n
    <3>2. CASE s # r
      BY <3>2, <1>2, <1>4, <1>5 DEF IInv, TypeOK
    <3> QED BY <3>1, <3>2
  <2>2. \A s \in Requests : \A m \in Names : seen'[s][m] \subseteq Values(m)
    <3> SUFFICES ASSUME NEW s \in Requests, NEW m \in Names
                 PROVE  seen'[s][m] \subseteq Values(m)
      OBVIOUS
    <3>1. CASE s = r /\ m = n
      BY <3>1, <1>3, <1>5
    <3>2. CASE s # r \/ m # n
      BY <3>2, <1>5 DEF IInv, TypeOK
    <3> QED BY <3>1, <3>2
  <2> QED BY <1>2, <2>1, <2>2 DEF IInv, TypeOK
<1>8. ASSUME NEW s \in Requests, s # r PROVE RequestInv(s)'
  BY <1>2, <1>4, <1>5, <1>8, Frame DEF IInv
<1>9. RequestInv(r)'
  <2>1. RequestInv(r) /\ "include" \in Names /\ "exclude" \in Names /\ "done" \notin Names /\ "new" \notin Names
    BY DEF IInv, Names, Filters
  <2>2. WordInv(r)'
    BY <1>2, <1>4, <1>5 DEF WordInv, n
  <2>3. NewInv(r)'
    BY <1>2, <1>5, <2>1 DEF RequestInv, NewInv, n
  <2>4. PassedInv(r)'
    <3>1. n \in {"include", "replace"} => seen'[r]["exclude"] = seen[r]["exclude"]
      BY <1>5, <2>1
    <3>2. n = "replace" => seen'[r]["include"] = seen[r]["include"]
      BY <1>5, <2>1
    <3> QED BY <1>2, <2>1, <3>1, <3>2 DEF RequestInv, PassedInv, Covered, Solo, n
  <2>5. StandingInv(r)'
    BY <1>2, <2>1 DEF RequestInv, StandingInv
  <2>6. DoneInv(r)'
    BY <1>2, <2>1 DEF RequestInv, DoneInv, n
  <2> QED BY <2>2, <2>3, <2>4, <2>5, <2>6 DEF RequestInv
<1> QED BY <1>6, <1>7, <1>8, <1>9 DEF IInv

(* A client's request.                                                     *)
LEMMA ArriveStep ==
  ASSUME IInv, NEW r \in Requests, NEW k \in Kinds, Arrive(r, k)
  PROVE  IInv'
<1>1. /\ pc[r] = "new" /\ pc' = [pc EXCEPT ![r] = "exclude"] /\ kind' = [kind EXCEPT ![r] = k]
      /\ moved' = [moved EXCEPT ![r] = FALSE]
      /\ UNCHANGED <<lists, changes, crashed, host, inside, half, verdict, seen, through>>
  BY DEF Arrive, ruleVars
<1>2. "exclude" \in Names /\ "new" \notin Names
  BY DEF Names, Filters
<1>3. half[r] = None
  BY <1>1, <1>2 DEF IInv, TypeOK
<1>4. ShapeInv'
  BY <1>1 DEF IInv, ShapeInv
<1>5. TypeOK'
  <2>1. /\ pc' \in [Requests -> {"new", "done"} \cup Names] /\ kind' \in [Requests -> Kinds]
        /\ moved' \in [Requests -> BOOLEAN]
    BY <1>1, <1>2 DEF IInv, TypeOK
  <2>2. \A s \in Requests : half[s] # None => pc'[s] = pc[s]
    BY <1>1, <1>3 DEF IInv, TypeOK
  <2> QED BY <1>1, <2>1, <2>2 DEF IInv, TypeOK
<1>6. ASSUME NEW s \in Requests, s # r PROVE RequestInv(s)'
  <2>1. pc'[s] = pc[s] /\ kind'[s] = kind[s] /\ moved'[s] = moved[s]
    BY <1>1, <1>6 DEF IInv, TypeOK
  <2> QED BY <1>1, <2>1, Frame DEF IInv
<1>7. RequestInv(r)'
  <2>1. RequestInv(r) /\ pc'[r] = "exclude"
    BY <1>1 DEF IInv, TypeOK
  <2>2. ~inside[r] /\ verdict[r] = "none" /\ seen[r]["include"] = {}
    BY <1>1, <2>1 DEF RequestInv, NewInv
  <2> QED BY <1>1, <1>3, <2>1, <2>2
          DEF RequestInv, WordInv, NewInv, PassedInv, StandingInv, DoneInv
<1> QED BY <1>4, <1>5, <1>6, <1>7 DEF IInv

(* A request through a tunnel.                                             *)
LEMMA InnerStep ==
  ASSUME IInv, NEW r \in Requests, NEW k \in Kinds, NEW h \in Hosts, Inner(r, k, h)
  PROVE  IInv'
<1>1. /\ pc[r] = "done" /\ (inside[r] \/ verdict[r] = "tunnel")
      /\ pc' = [pc EXCEPT ![r] = "exclude"] /\ kind' = [kind EXCEPT ![r] = k]
      /\ inside' = [inside EXCEPT ![r] = TRUE] /\ verdict' = [verdict EXCEPT ![r] = "none"]
      /\ seen' = [seen EXCEPT ![r] = [n \in Names |-> {}]]
      /\ host' = [host EXCEPT ![r] = h]
      /\ UNCHANGED <<lists, changes, crashed, half, moved>>
  BY DEF Inner, ruleVars
<1>9. PICK c : /\ through' = [through EXCEPT ![r] = c]
               /\ c = through[r] \/ (verdict[r] = "tunnel" /\ c = host[r])
  BY DEF Inner
<1>2. "exclude" \in Names /\ "include" \in Names /\ "done" \notin Names
  BY DEF Names, Filters
<1>3. half[r] = None
  BY <1>1, <1>2 DEF IInv, TypeOK
<1>4. /\ seen' \in [Requests -> [Names -> SUBSET Lists]]
      /\ \A n \in Names : seen'[r][n] = {}
      /\ \A s \in Requests \ {r} : seen'[s] = seen[s]
  <2> DEFINE new == [n \in Names |-> {}]
  <2>1. new \in [Names -> SUBSET Lists] /\ \A n \in Names : new[n] = {}
    OBVIOUS
  <2>2. seen' = [seen EXCEPT ![r] = new]
    BY <1>1
  <2> HIDE DEF new
  <2> QED BY <2>1, <2>2 DEF IInv, ShapeInv
<1>5. ShapeInv'
  BY <1>1, <1>4 DEF IInv, ShapeInv
<1>6. TypeOK'
  <2>1. /\ pc' \in [Requests -> {"new", "done"} \cup Names] /\ kind' \in [Requests -> Kinds]
        /\ inside' \in [Requests -> BOOLEAN]
    BY <1>1, <1>2 DEF IInv, TypeOK
  <2>5. host' \in [Requests -> Hosts] /\ through' \in [Requests -> Hosts]
    BY <1>1, <1>9 DEF IInv, TypeOK
  <2>2. verdict' \in [Requests -> Verdicts]
    BY <1>1 DEF IInv, TypeOK, Verdicts
  <2>3. \A s \in Requests : half[s] # None => pc'[s] = pc[s] /\ seen'[s] = seen[s]
    BY <1>1, <1>3, <1>4 DEF IInv, TypeOK
  <2>4. \A s \in Requests : \A n \in Names : seen'[s][n] \subseteq Values(n)
    <3> SUFFICES ASSUME NEW s \in Requests, NEW n \in Names
                 PROVE  seen'[s][n] \subseteq Values(n)
      OBVIOUS
    <3>1. CASE s = r
      BY <3>1, <1>4
    <3>2. CASE s # r
      BY <3>2, <1>4 DEF IInv, TypeOK
    <3> QED BY <3>1, <3>2
  <2> QED BY <1>1, <2>1, <2>2, <2>3, <2>4, <2>5 DEF IInv, TypeOK
<1>7. ASSUME NEW s \in Requests, s # r PROVE RequestInv(s)'
  <2>1. /\ pc'[s] = pc[s] /\ kind'[s] = kind[s] /\ inside'[s] = inside[s]
        /\ verdict'[s] = verdict[s] /\ seen'[s] = seen[s]
        /\ host'[s] = host[s] /\ through'[s] = through[s]
    BY <1>1, <1>4, <1>7, <1>9 DEF IInv, TypeOK
  <2> QED BY <1>1, <2>1, Frame DEF IInv
<1>8. RequestInv(r)'
  <2>1. /\ StandingInv(r) /\ pc'[r] = "exclude" /\ inside'[r] /\ verdict'[r] = "none"
        /\ seen'[r]["include"] = {}
    BY <1>1, <1>2, <1>4 DEF IInv, TypeOK, RequestInv
  <2>2. through'[r] = c /\ (~inside[r] => through[r] = host[r])
    BY <1>9 DEF IInv, TypeOK, RequestInv, NewInv
  <2>3. ~moved[r] => /\ ~Hits(lists["exclude"], c)
                     /\ lists["include"] = <<>> \/ Hits(lists["include"], c)
    <3>1. CASE verdict[r] = "tunnel" /\ c = host[r]
      BY <2>1, <3>1 DEF StandingInv
    <3>2. CASE inside[r] /\ c = through[r]
      BY <2>1, <3>2 DEF StandingInv
    <3> QED BY <1>1, <1>9, <2>2, <3>1, <3>2
  <2>4. StandingInv(r)'
    BY <1>1, <2>1, <2>2, <2>3 DEF StandingInv
  <2> QED BY <1>1, <1>3, <2>1, <2>4 DEF RequestInv, WordInv, NewInv, PassedInv, DoneInv
<1> QED BY <1>5, <1>6, <1>7, <1>8 DEF IInv

(* Where a lookup may leave a request: on its way past a list, or done.    *)
Past(r, next) ==
  /\ next \in {"include", "replace"} =>
       /\ ~Covered(r, "exclude") /\ seen[r]["exclude"] # {}
       /\ Solo(r, "exclude") => \A v \in seen[r]["exclude"] : ~Hits(v, host[r])
  /\ next = "replace" =>
       /\ kind[r] = "plain" /\ seen[r]["include"] # {}
       /\ Solo(r, "include") => \A v \in seen[r]["include"] : v = <<>> \/ Hits(v, host[r])

Stands(r, next, v) ==
  /\ ~moved[r] =>
       /\ next \in {"include", "replace"} \/ v = "tunnel" => ~Hits(lists["exclude"], host[r])
       /\ next = "replace" \/ v = "tunnel" =>
            lists["include"] = <<>> \/ Hits(lists["include"], host[r])
  /\ v = "blind" => moved[r] \/ host[r] # through[r]

Fits(r, v) ==
  /\ Covered(r, "exclude") => v \in {"direct", "forward", "blind"}
  /\ Covered(r, "include") => v \notin {"direct", "forward", "blind"}
  /\ (\A n \in Names : Solo(r, n)) => v = Ruled(r)

LEMMA EndsStep ==
  ASSUME IInv, NEW r \in Requests, pc[r] \in Names,
         NEW next \in {"include", "replace", "done"}, NEW v \in Verdicts, Ends(r, next, v),
         Past(r, next), Stands(r, next, v), next = "done" => Fits(r, v)
  PROVE  IInv'
<1>1. /\ pc' = [pc EXCEPT ![r] = next] /\ verdict' = [verdict EXCEPT ![r] = v]
      /\ half' = [half EXCEPT ![r] = None] /\ crashed' = (v = "crash")
      /\ UNCHANGED <<lists, changes, host, kind, inside, seen, moved, through>>
  BY DEF Ends, ruleVars
<1>2. "exclude" \in Names /\ "include" \in Names /\ "replace" \in Names
  BY DEF Names, Filters
<1>3. /\ pc'[r] = next /\ verdict'[r] = v /\ half'[r] = None
      /\ \A s \in Requests \ {r} : pc'[s] = pc[s] /\ verdict'[s] = verdict[s] /\ half'[s] = half[s]
  BY <1>1 DEF IInv, TypeOK, ShapeInv
<1>4. ShapeInv'
  BY <1>1 DEF IInv, ShapeInv
<1>5. TypeOK'
  <2>1. crashed' \in BOOLEAN
    BY <1>1
  <2>2. pc' \in [Requests -> {"new", "done"} \cup Names] /\ verdict' \in [Requests -> Verdicts]
    BY <1>1, <1>2 DEF IInv, TypeOK
  <2>3. \A s \in Requests : half'[s] # None => pc'[s] = pc[s] /\ half'[s] = half[s]
    BY <1>3
  <2> QED BY <1>1, <2>1, <2>2, <2>3 DEF IInv, TypeOK
<1>6. ASSUME NEW s \in Requests, s # r PROVE RequestInv(s)'
  BY <1>1, <1>3, <1>6, Frame DEF IInv
<1>7. RequestInv(r)'
  <2>1. Ruled(r)' = Ruled(r)
    BY <1>1 DEF Ruled, Forwarded, Taken
  <2>2. \A n : (Covered(r, n)' <=> Covered(r, n)) /\ (Solo(r, n)' <=> Solo(r, n))
    BY <1>1 DEF Covered, Solo
  <2>3. WordInv(r)' /\ NewInv(r)'
    BY <1>1, <1>3 DEF IInv, RequestInv, WordInv, NewInv
  <2>4. PassedInv(r)'
    BY <1>1, <1>3, <2>2 DEF Past, PassedInv
  <2>5. StandingInv(r)'
    BY <1>1, <1>3 DEF IInv, RequestInv, Stands, StandingInv
  <2>6. DoneInv(r)'
    BY <1>1, <1>3, <2>1, <2>2 DEF Stands, Fits, DoneInv, Bypassed
  <2> QED BY <2>3, <2>4, <2>5, <2>6 DEF RequestInv
<1> QED BY <1>4, <1>5, <1>6, <1>7 DEF IInv

(* The two words a range has are of lists in force while it read.          *)
LEMMA WordsFacts ==
  ASSUME IInv, NEW r \in Requests, half[r] # None
  PROVE  /\ pc[r] \in Names
         /\ Pointed(r) \in seen[r][pc[r]] /\ Measured(r) \in seen[r][pc[r]]
         /\ Pointed(r) \in Values(pc[r]) /\ Measured(r) \in Values(pc[r])
         /\ Pointed(r) \in Lists /\ Measured(r) \in Lists
         /\ seen[r][pc[r]] # {}
         /\ Solo(r, pc[r]) => Pointed(r) = Measured(r) /\ \A v \in seen[r][pc[r]] : v = Pointed(r)
         /\ ~moved[r] => Pointed(r) = lists[pc[r]] /\ Measured(r) = lists[pc[r]]
         /\ Covered(r, pc[r]) => Matches(Pointed(r), Shorter(Len(Pointed(r)), Len(Measured(r))), host[r])
<1>1. pc[r] \in Names /\ half[r].list \in seen[r][pc[r]] /\ seen[r][pc[r]] \subseteq Values(pc[r])
  BY DEF IInv, TypeOK
<1>2. lists[pc[r]] \in seen[r][pc[r]] /\ (~moved[r] => half[r].list = lists[pc[r]])
  BY DEF IInv, RequestInv, WordInv
<1>3. Pointed(r) \in seen[r][pc[r]] /\ Measured(r) \in seen[r][pc[r]]
  BY <1>1, <1>2 DEF Pointed, Measured
<1>4. ~moved[r] => Pointed(r) = lists[pc[r]] /\ Measured(r) = lists[pc[r]]
  BY <1>2 DEF Pointed, Measured
<1>5. Values(pc[r]) \subseteq Lists
  BY <1>1, FieldTypes
<1> QED BY <1>1, <1>3, <1>4, <1>5 DEF Solo, Covered

(* Once a list has been looked up and found to match or not.               *)
LEMMA RuledFacts ==
  ASSUME NEW r \in Requests, \A n \in Names : Solo(r, n),
         NEW ex, ex \in seen[r]["exclude"], NEW in, in \in seen[r]["include"] \/ seen[r]["include"] = {}
  PROVE  /\ Hits(ex, host[r]) => Ruled(r) = Forwarded(r)
         /\ ~Hits(ex, host[r]) /\ seen[r]["include"] # {} =>
              /\ in # <<>> /\ ~Hits(in, host[r]) => Ruled(r) = Forwarded(r)
              /\ (in = <<>> \/ Hits(in, host[r])) /\ kind[r] # "plain" => Ruled(r) = Taken(r)
<1>1. "exclude" \in Names /\ "include" \in Names
  BY DEF Names, Filters
<1>2. Only(seen[r]["exclude"]) = ex
  BY <1>1, OnlyMember DEF Solo
<1>3. seen[r]["include"] # {} => Only(seen[r]["include"]) = in
  BY <1>1, OnlyMember DEF Solo
<1>4. Hits(ex, host[r]) <=> \E i \in 1..Len(ex) : host[r] \in ex[i].match
  BY DEF Hits, Matches
<1>5. Hits(in, host[r]) <=> \E i \in 1..Len(in) : host[r] \in in[i].match
  BY DEF Hits, Matches
<1> QED BY <1>2, <1>3, <1>4, <1>5 DEF Ruled

(* What is said of a request that is inside, or of a verdict.              *)
LEMMA ForwardedFacts ==
  ASSUME NEW r
  PROVE  /\ Forwarded(r) \in {"direct", "forward", "blind"} /\ Forwarded(r) \in Verdicts
         /\ Forwarded(r) = "blind" => inside[r]
  BY DEF Forwarded, Verdicts

LEMMA ExcludeStep ==
  ASSUME IInv, NEW r \in Requests, Exclude(r)
  PROVE  IInv'
<1> DEFINE P == Pointed(r)
           L == Measured(r)
<1>1. pc[r] = "exclude" /\ half[r] # None
  BY DEF Exclude
<1>2. PICK o \in Lookup(P, L, host[r]) :
        \/ o = "match" /\ Ends(r, "done", Forwarded(r))
        \/ o = "pass" /\ Ends(r, "include", "none")
        \/ o = "crash" /\ Ends(r, "done", "crash")
  BY DEF Exclude
<1>3. /\ P \in seen[r]["exclude"] /\ P \in Lists /\ L \in Lists /\ seen[r]["exclude"] # {}
      /\ Solo(r, "exclude") => P = L /\ \A v \in seen[r]["exclude"] : v = P
      /\ ~moved[r] => P = lists["exclude"] /\ L = lists["exclude"]
      /\ Covered(r, "exclude") => Matches(P, Shorter(Len(P), Len(L)), host[r])
  BY <1>1, WordsFacts
<1> HIDE DEF P, L
<1>4. /\ Covered(r, "exclude") => o = "match"
      /\ P = L => (o = "match" /\ Hits(P, host[r])) \/ (o = "pass" /\ ~Hits(P, host[r]))
  BY <1>2, <1>3, LookupFacts
<1>5. /\ StandingInv(r) /\ seen[r]["include"] = {} /\ ~Covered(r, "include")
      /\ "exclude" \in Names
  BY <1>1 DEF IInv, RequestInv, NewInv, Covered, Names, Filters
<1>6. Solo(r, "exclude") => P = L
  BY <1>3
<1>7. ~moved[r] /\ inside[r] /\ host[r] = through[r] =>
        o = "pass" /\ (lists["include"] = <<>> \/ Hits(lists["include"], host[r]))
  BY <1>3, <1>4, <1>5 DEF StandingInv
<1>8. CASE o = "match"
  <2>1. Ends(r, "done", Forwarded(r))
    BY <1>2, <1>8
  <2>2. Stands(r, "done", Forwarded(r))
    BY <1>7, <1>8, ForwardedFacts DEF Stands
  <2>3. (\A n \in Names : Solo(r, n)) => Forwarded(r) = Ruled(r)
    BY <1>3, <1>4, <1>5, <1>6, <1>8, RuledFacts
  <2>4. Fits(r, Forwarded(r))
    BY <1>5, <2>3, ForwardedFacts DEF Fits
  <2> QED BY <1>1, <1>5, <2>1, <2>2, <2>4, ForwardedFacts, EndsStep DEF Past
<1>9. CASE o = "pass"
  <2>1. Ends(r, "include", "none") /\ "none" \in Verdicts
    BY <1>2, <1>9 DEF Verdicts
  <2>2. Past(r, "include")
    BY <1>3, <1>4, <1>6, <1>9 DEF Past
  <2>3. ~moved[r] => ~Hits(lists["exclude"], host[r])
    BY <1>3, <1>4, <1>9
  <2>4. Stands(r, "include", "none")
    BY <1>7, <2>3 DEF Stands
  <2> QED BY <1>1, <1>5, <2>1, <2>2, <2>4, EndsStep
<1>10. CASE o = "crash"
  <2>1. Ends(r, "done", "crash") /\ "crash" \in Verdicts
    BY <1>2, <1>10 DEF Verdicts
  <2>2. Stands(r, "done", "crash")
    BY <1>7, <1>10 DEF Stands
  <2>3. Fits(r, "crash")
    BY <1>4, <1>5, <1>6, <1>10 DEF Fits
  <2> QED BY <1>1, <1>5, <2>1, <2>2, <2>3, EndsStep DEF Past
<1> QED BY <1>2, <1>8, <1>9, <1>10

LEMMA TakenFacts ==
  ASSUME NEW r, kind[r] \in Kinds
  PROVE  /\ Taken(r) \in Verdicts /\ Taken(r) \notin {"direct", "forward", "blind"}
         /\ Taken(r) = "none" <=> kind[r] = "plain"
<1>1. kind[r] = "connect" => Taken(r) = "tunnel"
  BY DEF Taken
<1>2. kind[r] = "plain" => Taken(r) = "none"
  BY DEF Taken
<1>3. kind[r] \in {"websocket", "sse"} => Taken(r) = kind[r]
  BY DEF Taken
<1> QED BY <1>1, <1>2, <1>3 DEF Kinds, Verdicts

LEMMA IncludeStep ==
  ASSUME IInv, NEW r \in Requests, Include(r)
  PROVE  IInv'
<1> DEFINE P == Pointed(r)
           L == Measured(r)
<1>1. pc[r] = "include" /\ half[r] # None
  BY DEF Include
<1>2. PICK o \in Included(P, L, host[r]) :
        \/ o = "match" /\ Ends(r, IF Taken(r) = "none" THEN "replace" ELSE "done", Taken(r))
        \/ o = "pass" /\ Ends(r, "done", Forwarded(r))
        \/ o = "crash" /\ Ends(r, "done", "crash")
  BY DEF Include
<1>3. /\ P \in seen[r]["include"] /\ P \in Lists /\ L \in Lists /\ seen[r]["include"] # {}
      /\ Solo(r, "include") => P = L /\ \A v \in seen[r]["include"] : v = P
      /\ ~moved[r] => P = lists["include"] /\ L = lists["include"]
      /\ Covered(r, "include") => Matches(P, Shorter(Len(P), Len(L)), host[r])
  BY <1>1, WordsFacts
<1> HIDE DEF P, L
<1>4. /\ Covered(r, "include") => o = "match"
      /\ P = L /\ (P = <<>> \/ Hits(P, host[r])) => o = "match"
      /\ P = L /\ P # <<>> /\ ~Hits(P, host[r]) => o = "pass"
  BY <1>2, <1>3, IncludedFacts
<1>5. /\ StandingInv(r) /\ ~Covered(r, "exclude") /\ seen[r]["exclude"] # {}
      /\ Solo(r, "exclude") => \A v \in seen[r]["exclude"] : ~Hits(v, host[r])
      /\ "exclude" \in Names /\ "include" \in Names /\ kind[r] \in Kinds
  BY <1>1 DEF IInv, TypeOK, RequestInv, PassedInv, Names, Filters
<1>6. PICK ex : ex \in seen[r]["exclude"]
  BY <1>5
<1>7. /\ ~moved[r] => ~Hits(lists["exclude"], host[r])
      /\ ~moved[r] /\ inside[r] /\ host[r] = through[r] => o = "match"
      /\ ~moved[r] /\ o = "match" => lists["include"] = <<>> \/ Hits(lists["include"], host[r])
  BY <1>1, <1>3, <1>4, <1>5 DEF StandingInv
<1>8. CASE o = "match"
  <2>1. PICK next \in {"replace", "done"} :
          /\ Ends(r, next, Taken(r))
          /\ next = "replace" <=> kind[r] = "plain"
    BY <1>2, <1>5, <1>8, TakenFacts
  <2>2. Past(r, next)
    BY <1>3, <1>4, <1>5, <1>8, <2>1 DEF Past
  <2>3. Stands(r, next, Taken(r))
    BY <1>5, <1>7, <1>8, TakenFacts DEF Stands
  <2>4. next = "done" /\ (\A n \in Names : Solo(r, n)) => Taken(r) = Ruled(r)
    BY <1>3, <1>4, <1>5, <1>6, <1>8, <2>1, RuledFacts
  <2>5. next = "done" => Fits(r, Taken(r))
    BY <1>5, <2>4, TakenFacts DEF Fits
  <2> QED BY <1>1, <1>5, <2>1, <2>2, <2>3, <2>5, TakenFacts, EndsStep
<1>9. CASE o = "pass"
  <2>1. Ends(r, "done", Forwarded(r))
    BY <1>2, <1>9
  <2>2. Stands(r, "done", Forwarded(r))
    BY <1>7, <1>9, ForwardedFacts DEF Stands
  <2>3. (\A n \in Names : Solo(r, n)) => Forwarded(r) = Ruled(r)
    BY <1>3, <1>4, <1>5, <1>6, <1>9, RuledFacts
  <2>4. Fits(r, Forwarded(r))
    BY <1>4, <1>5, <1>9, <2>3, ForwardedFacts DEF Fits
  <2> QED BY <1>1, <1>5, <2>1, <2>2, <2>4, ForwardedFacts, EndsStep DEF Past
<1>10. CASE o = "crash"
  <2>1. Ends(r, "done", "crash") /\ "crash" \in Verdicts
    BY <1>2, <1>10 DEF Verdicts
  <2>2. Stands(r, "done", "crash")
    BY <1>7, <1>10 DEF Stands
  <2>3. Fits(r, "crash")
    BY <1>3, <1>4, <1>5, <1>10 DEF Fits
  <2> QED BY <1>1, <1>5, <2>1, <2>2, <2>3, EndsStep DEF Past
<1> QED BY <1>2, <1>8, <1>9, <1>10

LEMMA ReplaceStep ==
  ASSUME IInv, NEW r \in Requests, Replace(r)
  PROVE  IInv'
<1> DEFINE P == Pointed(r)
           L == Measured(r)
           M == {i \in 1..Len(P) : host[r] \in P[i].match}
<1>1. pc[r] = "replace" /\ half[r] # None
  BY DEF Replace
<1>2. PICK o \in Replaced(P, L, host[r]) : Ends(r, "done", o)
  BY DEF Replace
<1>3. /\ P \in seen[r]["replace"] /\ P \in ReplaceLists /\ L \in ReplaceLists
      /\ Solo(r, "replace") => P = L /\ \A v \in seen[r]["replace"] : v = P
  BY <1>1, WordsFacts DEF Values
<1> HIDE DEF P, L
<1>4. /\ o \in Ways \cup {"http", "crash"}
      /\ P = L => IF M = {} THEN o = "http" ELSE o = P[Min(M)].does
  BY <1>2, <1>3, ReplacedFacts
<1> HIDE DEF M
<1>5. /\ StandingInv(r) /\ ~Covered(r, "exclude") /\ kind[r] = "plain"
      /\ seen[r]["exclude"] # {} /\ seen[r]["include"] # {}
      /\ Solo(r, "exclude") => \A v \in seen[r]["exclude"] : ~Hits(v, host[r])
      /\ Solo(r, "include") => \A v \in seen[r]["include"] : v = <<>> \/ Hits(v, host[r])
      /\ "exclude" \in Names /\ "include" \in Names /\ "replace" \in Names
  BY <1>1 DEF IInv, RequestInv, PassedInv, Names, Filters
<1>6. o \in Verdicts \ {"direct", "forward", "blind", "tunnel"}
  BY <1>4 DEF Verdicts, Ways
<1>7. Stands(r, "done", o)
  BY <1>1, <1>5, <1>6 DEF Stands, StandingInv
<1>8. ASSUME \A n \in Names : Solo(r, n) PROVE o = Ruled(r)
  <2> DEFINE ex == Only(seen[r]["exclude"])
             in == Only(seen[r]["include"])
  <2>1. ex \in seen[r]["exclude"] /\ in \in seen[r]["include"]
    BY <1>5, OnlyMember
  <2>2. Only(seen[r]["replace"]) = P
    BY <1>3, <1>5, <1>8, OnlyMember DEF Solo
  <2>3. ~Hits(ex, host[r]) /\ (in = <<>> \/ Hits(in, host[r]))
    BY <1>5, <1>8, <2>1
  <2> HIDE DEF ex, in
  <2>4. /\ ~(\E i \in 1..Len(ex) : host[r] \in ex[i].match)
        /\ ~(in # <<>> /\ \A i \in 1..Len(in) : host[r] \notin in[i].match)
    BY <2>3 DEF Hits, Matches
  <2>5. Ruled(r) = IF M = {} THEN "http" ELSE P[Min(M)].does
    BY <1>5, <2>2, <2>4 DEF Ruled, ex, in, M
  <2> QED BY <1>3, <1>4, <1>5, <1>8, <2>5
<1>9. Fits(r, o)
  BY <1>5, <1>6, <1>8 DEF Fits
<1> QED BY <1>1, <1>2, <1>5, <1>6, <1>7, <1>9, EndsStep DEF Past
-----------------------------------------------------------------------------
LEMMA Inductive == IInv /\ [Next]_vars => IInv'
<1> SUFFICES ASSUME IInv, [Next]_vars PROVE IInv'
  OBVIOUS
<1>1. CASE UNCHANGED vars
  <2>1. UNCHANGED <<lists, changes, crashed, pc, host, kind, inside, half, verdict, seen, moved, through>>
    BY <1>1 DEF vars, ruleVars, reqVars
  <2>2. TypeOK' /\ ShapeInv'
    BY <2>1 DEF IInv, TypeOK, ShapeInv
  <2>3. ASSUME NEW r \in Requests PROVE RequestInv(r)'
    BY <2>1, Frame DEF IInv
  <2> QED BY <2>2, <2>3 DEF IInv
<1>2. ASSUME NEW n \in Names, NEW v \in Values(n), Set(n, v) PROVE IInv'
  BY <1>2, SetStep
<1>3. ASSUME NEW r \in Requests, NEW k \in Kinds,
             Arrive(r, k) \/ \E h \in Hosts : Inner(r, k, h)
      PROVE  IInv'
  BY <1>3, ArriveStep, InnerStep
<1>4. ASSUME NEW r \in Requests, ServeHTTP(r) PROVE IInv'
  BY <1>4, ReadWordStep, ExcludeStep, IncludeStep, ReplaceStep DEF ServeHTTP
<1> QED BY <1>1, <1>2, <1>3, <1>4 DEF Next

LEMMA AlwaysIInv == Spec => []IInv
<1>1. Init => IInv
  BY Initial
<1>2. IInv /\ [Next]_vars => IInv'
  BY Inductive
<1> QED BY <1>1, <1>2, PTL DEF Spec

(* Verdicts are among those there are, and a word that a lookup has read is*)
(* of a list that was in force since it began.                             *)
THEOREM TypeCorrect == Spec => []TypeOK
<1>1. IInv => TypeOK
  BY DEF IInv
<1> QED BY <1>1, AlwaysIInv, PTL

(* For any lists, and however the reads of a slice's two words fall between*)
(* the writes: a host that each list in force covers is found, so that an  *)
(* excluded host is not intercepted and an included one not forwarded.     *)
THEOREM CoveredStaysHolds == Spec => []CoveredStays
<1>1. IInv => CoveredStays
  BY DEF IInv, RequestInv, DoneInv, CoveredStays
<1> QED BY <1>1, AlwaysIInv, PTL

(* Whatever the rules and however often they were changed before: a request*)
(* during whose lookups none was gets the verdict the rules give it.       *)
THEOREM UndisturbedIsRuledHolds == Spec => []UndisturbedIsRuled
<1>1. IInv => UndisturbedIsRuled
  BY DEF IInv, RequestInv, DoneInv, Solo, UndisturbedIsRuled
<1> QED BY <1>1, AlwaysIInv, PTL

(* A request that came through a tunnel ends up with forward, which cannot *)
(* send it on, only if a list was set after the CONNECT or it names another*)
(* host than that did.                                                     *)
THEOREM BlindHasCauseHolds == Spec => []BlindHasCause
<1>1. IInv => BlindHasCause
  BY DEF IInv, RequestInv, DoneInv, BlindHasCause
<1> QED BY <1>1, AlwaysIInv, PTL
=============================================================================
