------------------------------ MODULE Upstream ------------------------------
(***************************************************************************)
(* Which way a request leaves go-mitm. SetProxy and ClearProxy, called by  *)
(* main for the -proxy flag and by /action for the page, write the package *)
(* variable proxyFunc. The shared http.Transport and websocket.Dialer have *)
(* a Proxy field of their own; every request brings that field up to date  *)
(* (HttpTransport, WebSocketDialer) just before it uses it. None of these  *)
(* variables is locked, and requests and settings run in goroutines of     *)
(* their own, so each access is a step here.                               *)
(***************************************************************************)
EXTENDS Integers

CONSTANTS Requests,  \* one per request that leaves the proxy
          Uris,      \* the upstream proxies a user can name
          Changes    \* bound on the settings made through the page

ASSUME ChangesAssumption == Changes \in Nat
(* A proxy's address is not one of the words used for having none.         *)
ASSUME UrisAssumption == Uris \cap {"nil", "env", "direct"} = {}

(* The holders of a Proxy field: tr and dialer.                            *)
Clients == {"http", "websocket"}
(* How a request leaves: through one of those, or, for an excluded CONNECT *)
(* (forward), by a net.Dialer of its own.                                  *)
Kinds == Clients \cup {"tunnel"}

VARIABLES
  proxyFunc,  \* the setting: a uri or "nil"
  proxy,      \* proxy[c]: the Proxy field; "env" is http.ProxyFromEnvironment
  pc,         \* pc[r]: where request r is
  kind,       \* kind[r]
  saw,        \* saw[r]: proxyFunc as r's first test read it
  route,      \* route[r]: the way r went, "env" by a proxy the environment names
  changes,    \* settings made since start-up
  wanted,     \* wanted[r]: the setting when r began           (history)
  had,        \* had[r]: its client's Proxy field at that time (history)
  unsettled   \* requests a setting may have met in flight     (history)

vars == <<proxyFunc, proxy, pc, kind, saw, route, changes, wanted, had, unsettled>>

Steps == {"set?", "unset?", "assign", "cleared?", "held?", "erase", "use"}
InFlight == {r \in Requests : pc[r] \in Steps}

(* The ways out a Proxy field allows. ProxyFromEnvironment looks at the    *)
(* variables of the environment and at the request: where they name no     *)
(* proxy, or exempt the host, the request goes direct.                     *)
Ways(field) ==
  CASE field = "nil" -> {"direct"}
    [] field = "env" -> {"env", "direct"}
    [] OTHER         -> {field}

(* A request is settled when no setting changed while it, or a request     *)
(* that overlapped it at its beginning, was in flight. The history         *)
(* variables say nothing of the code; they are what a user could know.     *)
Settled(r) == pc[r] = "done" /\ r \notin unsettled

Init ==
  /\ proxyFunc \in Uris \cup {"nil"}     \* main: SetProxy(*proxyPtr) before Start
  /\ proxy = [c \in Clients |-> "env"]
  /\ pc = [r \in Requests |-> "new"]
  /\ kind = [r \in Requests |-> "http"]
  /\ saw = [r \in Requests |-> "nil"]
  /\ route = [r \in Requests |-> "direct"]
  /\ changes = 0
  /\ wanted = [r \in Requests |-> "nil"]
  /\ had = [r \in Requests |-> "nil"]
  /\ unsettled = {}

settings == <<proxyFunc, changes>>
history == <<kind, wanted, had, unsettled>>

Go(r, place) == pc' = [pc EXCEPT ![r] = place]
-----------------------------------------------------------------------------
(* Faulty variants, used only to confirm that the properties notice them.  *)

\* The field is left alone once it is set, even to say that there is none.
NeverErase(r) ==
  /\ pc[r] = "erase"
  /\ Go(r, "use")
  /\ UNCHANGED <<proxy, saw, route, settings, history>>

\* The test for a cleared setting is made on the field alone.
EraseWheneverHeld(r) ==
  /\ pc[r] = "cleared?"
  /\ Go(r, "held?")
  /\ UNCHANGED <<proxy, saw, route, settings, history>>

\* The field is used without looking whether there is a function in it.
LeaveUnlooked(r) ==
  /\ pc[r] = "use" /\ kind[r] \in Clients
  /\ route' = [route EXCEPT ![r] = proxy[kind[r]]]
  /\ Go(r, "done")
  /\ UNCHANGED <<proxy, saw, settings, history>>

\* The field goes back to what it was at start-up.
AssignEnvironment(r) ==
  /\ pc[r] = "assign"
  /\ proxy' = [proxy EXCEPT ![kind[r]] = "env"]
  /\ Go(r, "cleared?")
  /\ UNCHANGED <<saw, route, settings, history>>
-----------------------------------------------------------------------------
Begin(r, k) ==
  /\ pc[r] = "new"
  /\ kind' = [kind EXCEPT ![r] = k]
  /\ wanted' = [wanted EXCEPT ![r] = proxyFunc]
  /\ had' = [had EXCEPT ![r] = IF k \in Clients THEN proxy[k] ELSE "nil"]
  /\ unsettled' = IF InFlight \cap unsettled = {} THEN unsettled ELSE unsettled \cup {r}
  /\ Go(r, IF k \in Clients THEN "set?" ELSE "use")
  /\ UNCHANGED <<proxy, saw, route, settings>>

\* if proxyFunc != nil ...
TestSet(r) ==
  /\ pc[r] = "set?"
  /\ saw' = [saw EXCEPT ![r] = proxyFunc]
  /\ Go(r, IF proxyFunc = "nil" THEN "cleared?" ELSE "unset?")
  /\ UNCHANGED <<proxy, route, settings, history>>

\* ... && tr.Proxy == nil
TestUnset(r) ==
  /\ pc[r] = "unset?"
  /\ Go(r, IF proxy[kind[r]] = "nil" THEN "assign" ELSE "cleared?")
  /\ UNCHANGED <<proxy, saw, route, settings, history>>

\* tr.Proxy = proxyFunc: the value read by the test, or read again.
Assign(r) ==
  /\ pc[r] = "assign"
  /\ \E f \in {saw[r], proxyFunc} : proxy' = [proxy EXCEPT ![kind[r]] = f]
  /\ Go(r, "cleared?")
  /\ UNCHANGED <<saw, route, settings, history>>

\* if proxyFunc == nil ...
TestCleared(r) ==
  /\ pc[r] = "cleared?"
  /\ Go(r, IF proxyFunc = "nil" THEN "held?" ELSE "use")
  /\ UNCHANGED <<proxy, saw, route, settings, history>>

\* ... && tr.Proxy != nil
TestHeld(r) ==
  /\ pc[r] = "held?"
  /\ Go(r, IF proxy[kind[r]] = "nil" THEN "use" ELSE "erase")
  /\ UNCHANGED <<proxy, saw, route, settings, history>>

\* tr.Proxy = nil
Erase(r) ==
  /\ pc[r] = "erase"
  /\ proxy' = [proxy EXCEPT ![kind[r]] = "nil"]
  /\ Go(r, "use")
  /\ UNCHANGED <<saw, route, settings, history>>

\* RoundTrip, Dial: the library reads the Proxy field when it needs a connection.
Leave(r) ==
  /\ pc[r] = "use" /\ kind[r] \in Clients
  /\ \E way \in Ways(proxy[kind[r]]) : route' = [route EXCEPT ![r] = way]
  /\ Go(r, "done")
  /\ UNCHANGED <<proxy, saw, settings, history>>

\* forward, method CONNECT: new(net.Dialer).DialContext.
LeaveByTunnel(r) ==
  /\ pc[r] = "use" /\ kind[r] \notin Clients
  /\ route' = [route EXCEPT ![r] = "direct"]
  /\ Go(r, "done")
  /\ UNCHANGED <<proxy, saw, settings, history>>

\* /action?proxy=...
Change(f) ==
  /\ changes < Changes
  /\ changes' = changes + 1
  /\ proxyFunc' = f
  /\ unsettled' = unsettled \cup InFlight
  /\ UNCHANGED <<proxy, pc, kind, saw, route, wanted, had>>

SetProxy == \E u \in Uris : Change(u)
ClearProxy == Change("nil")

Request(r) ==
  \/ \E k \in Kinds : Begin(r, k)
  \/ TestSet(r) \/ TestUnset(r) \/ Assign(r)
  \/ TestCleared(r) \/ TestHeld(r) \/ Erase(r)
  \/ Leave(r) \/ LeaveByTunnel(r)

Next == SetProxy \/ ClearProxy \/ \E r \in Requests : Request(r)

Spec == Init /\ [][Next]_vars
-----------------------------------------------------------------------------
TypeOK ==
  /\ proxyFunc \in Uris \cup {"nil"}
  /\ proxy \in [Clients -> Uris \cup {"nil", "env"}]
  /\ pc \in [Requests -> Steps \cup {"new", "done"}]
  /\ kind \in [Requests -> Kinds]
  /\ saw \in [Requests -> Uris \cup {"nil"}]
  /\ route \in [Requests -> Uris \cup {"direct", "env"}]
  /\ changes \in 0..Changes
  /\ wanted \in [Requests -> Uris \cup {"nil"}]
  /\ had \in [Requests -> Uris \cup {"nil", "env"}]
  /\ unsettled \subseteq Requests

(* With the setting cleared, a settled request goes direct, whatever other *)
(* requests do to the shared field at the same time.                       *)
ClearedIsDirect ==
  \A r \in Requests : Settled(r) /\ wanted[r] = "nil" => route[r] = "direct"

(* With a proxy set, and the environment's function once out of the field, *)
(* a settled request of a shared client leaves by a proxy the user named:  *)
(* no other request empties the field under it. (Until then it goes where  *)
(* the environment says, which may be direct: see SettingIsUsed.)          *)
StaysProxied ==
  \A r \in Requests :
    Settled(r) /\ kind[r] \in Clients /\ wanted[r] # "nil" /\ had[r] # "env"
      => route[r] \in Uris

(* A settled request that finds its client without a proxy takes the one   *)
(* that is set, also when other requests fill the field in before it.      *)
EmptyClientObeys ==
  \A r \in Requests :
    Settled(r) /\ kind[r] \in Clients /\ had[r] = "nil" /\ wanted[r] # "nil"
      => route[r] = wanted[r]

(* README.md:51, "-proxy proxy: the upstream proxy", README.md:25, "an     *)
(* upstream proxy can be set": settled requests of a shared client use the *)
(* proxy that is set. The field starts as ProxyFromEnvironment and is only *)
(* filled in when it is nil, so neither the flag nor a change gets there.  *)
SettingIsUsed ==
  \A r \in Requests :
    Settled(r) /\ kind[r] \in Clients /\ wanted[r] # "nil" => route[r] = wanted[r]
=============================================================================
