# A TLA+ model of go-mitm

go-mitm is an intercepting HTTP proxy with a web page that shows the exchanges
that pass through it. This directory holds TLA+ modules translated from its
source, the TLC configurations that check them, and proofs checked by TLAPS.

## The system

| Part | Source | State | Operations |
|---|---|---|---|
| Routing | `proxy/proxy.go`, `proxy/utils.go` | the slices `include`, `exclude`, `replace` | `ServeHTTP`, `Set*`/`Clear*` |
| HTTP handler | `proxy/proxy_http.go`, `gzip.go` | pooled `ReverseProxy`, pooled gzip buffer | `handleHttp` (Rewrite, ModifyResponse, ErrorHandler) |
| Forward and replace | `proxy_forward.go`, `proxy_do_replace.go` | as above | `forward`, `doReplace1/2` |
| HTTPS tunnel | `proxy_https.go`, `listener.go`, `conn.go` | the listener's channel of connections, two copy loops per tunnel | `handleHttps`, `AddConn`, `Accept`, `Close`, `Start`, `Stop` |
| SSE and websocket relays | `proxy_sse.go`, `proxy_websocket.go` | a 1024-slot channel per record and direction | `handleSSE`, `handleWebSocket`, `proxyWebSocket` |
| Replay | `proxy_replay.go` | none | `Replay` |
| Upstream route | `proxy.go` (`proxyFunc`, `netDialer`), `dialer*.go` | the shared `http.Transport` and websocket dialer | `SetProxy`, `ClearProxy`, `SetSocks5`, `HttpTransport`, `WebSocketDialer`, `DialContext` |
| Certificates | `proxy_certificate.go` | `serialNumber`, `certCache` | `getCertificate` |
| Capture pipeline | `message.go`, `web/api/api.go` and every sender | `messageChan`, `record`, `client`, `id` | sends, `/event`, `/action?record=` |
| Page | `web/ui/src/views/HomeView.vue` | list of records, record switch, rules | buttons, event stream, export |
| Start-up and shutdown | `cmd/mitm-web/main.go` | flags, signals | `main` |

Handlers run one goroutine per request, `/event` one per open page, a tunnel
adds two and a websocket two more. They meet in `messageChan` (capacity 10240),
in the plain fields of `Api` and `Proxy`, which nobody locks, in package-level
variables of `proxy` (`proxyFunc`, the transport, the pools) and in the
certificate cache.

What is hard here: every handler sends to one bounded channel from inside the
answer's path; several event streams consume that channel and number records in
two separate atomic steps; a superseded page is noticed only when the channel is
empty; a page may vanish with a record in hand; configuration is swapped under
running handlers; pooled objects keep what their last user left in them.

What makes each part correct:

* Capture: a record is shown at most once, in sending order, under increasing
  Ids; a client is answered only when its exchange is recorded; nobody blocks
  for ever while a page listens; a watched page misses nothing.
* Relays: every line or message reaches the other side, in order, whether or not
  anybody looks at the record.
* Upstream: a request takes the route the latest setting says.
* Certificates: one serial number per certificate, one certificate per name.
* Tunnel: no byte is lost but those net/http had read already; a tunnel both of
  whose ends have gone ends; `Stop` returns and leaves no handler waiting.
* Dials: a dial returns, loses no connection, and leaves the process alone.
* Routing: a request is excluded, included or replaced by the rules in force.
* Pools: what one request leaves in a pooled object never reaches another.

## Modules

| Module | What it is |
|---|---|
| `CaptureFeed` | Abstract specification: what the feed of records promises |
| `Capture` | The pipeline, one action per step of a handler or of `Api.event` |
| `CaptureProofs` | Type correctness, the inductive invariant, the safety theorems, and that `Capture` implements `CaptureFeed` |
| `Upstream` | The way a request leaves: the setting, the shared clients, their unlocked updates |
| `UpstreamProofs` | Type correctness and the routes of settled requests |
| `Relay` | An SSE or websocket exchange: its loops, its record and its end |
| `RelayProofs` | Nothing is lost in silence; what a record holds |
| `CertCache` | `getCertificate` in overlapping handshakes |
| `CertCacheProofs` | Type correctness, serial numbers and the cache |
| `Tunnel` | CONNECT tunnels from hand-over to end, and both servers' start and stop |
| `TunnelProofs` | What becomes of a tunnel's bytes |
| `Handlers` | The pooled reverse proxies and gzip buffers that concurrent requests share |
| `HandlersProofs` | What pooled objects and buffers carry over |
| `Rules` | `ServeHTTP`'s verdict on a request while pages change the rules |
| `RulesProofs` | Verdicts under torn reads, and without them |
| `Dialer` | `NetDialer`, `Socks5Dialer` and the TLS set up on their connections |
| `DialerProofs` | What a failed dial leaves, and what may end the process |
| `MCCapture`, `MCUpstream`, `MCRelay`, `MCCertCache`, `MCTunnel`, `MCHandlers`, `MCRules`, `MCDialer` | Instances for TLC, with the symmetry sets and the rule lists |

### Capture

A goroutine serving a request (`rpc[r]`) goes from `new` through `roundtrip`
(the exchange with the upstream server) to `recording` (it holds the record),
`sending` (the record is offered; the goroutine may be parked) and `done`.
`kind[r]` says which handler it is; `direct` stands for everything that
records nothing. `replied` holds the requests whose client has been given the
upstream server's answer: before the record is sent for a websocket (the client
is upgraded first) and for a replay (`/action` returns, a goroutine sends), after
it for HTTP and SSE. An error page or an empty answer after an upstream failure
is not an answer in this sense.

A Go channel with its parked senders is one queue: `log` keeps every record
offered, `head` counts those received, and a send is complete once its record is
among the first `head + Cap`. Keeping the received ones lets properties speak of
them; records are named by their place in `log`.

A goroutine serving `/event` (`spc[s]`) follows the loop of `Api.event`: `check`
(the record switch), `select` (one of the two branches), `add`, `load`
(the two accesses to `Api.id`), `write`, or `default` (its `ticket` against
`Api.client`), and `closing`. `alive[s]` is the connection to the page; a write to
a page that has gone may fail or vanish in a buffer, so it may or may not end the
loop. `Fprintf` and `Flush` are one step, which blocks while the page is there and
does not read (`AwaitsPage`): the web server has no write timeout (`main.go:52`).

The reads and writes of `Api.record` are data races in Go; on every platform the
program is built for, a bool is read and written whole and the loop reads it
anew in each round, so the model has atomic accesses. `client` and `id` are
`uint64` counters and do not wrap in the life of a process. `messageChan` is
never nil in the program (`main.go:35`), so the test for nil is left out.

### Upstream

`proxyFunc` is the package variable that `SetProxy` and `ClearProxy` write,
`proxy[c]` the `Proxy` field of the shared `http.Transport` and
`websocket.Dialer`. A request goes through the two tests and the assignments of
`HttpTransport` (`WebSocketDialer` has the same ones) access by access: `set?`,
`unset?`, `assign`, `cleared?`, `held?`, `erase`, and `use`, where the library
reads the field. The assignment may use the value the test has read or read
`proxyFunc` again; Go allows both. A field that still holds
`http.ProxyFromEnvironment` (`env`) may lead to a proxy the environment names or to
none, as the environment and the request have it (`Ways`). An excluded CONNECT goes straight to `use`.
All callers of `HttpTransport` (`handleHttp`, `handleSSE`, `forward`,
`doReplace1`, `Replay`) are requests of kind `http`.

What a request should do while the setting changes under it is anybody's guess,
so the properties speak of settled requests: those that no change met in flight,
and that did not overlap at their beginning one that a change had met. `wanted`, `had` and
`unsettled` remember what this takes and influence nothing. `netDialer` is left
out: it is set once, before `Start`.

### Relay

One exchange, from the moment its record has been offered (`Capture` has what
comes before). A loop is named by the peer it reads from: `handleSSE` has one,
`handleWebSocket` two, in goroutines that run `proxyWebSocket`. The two kinds
differ in the order of recording and writing (`AfterRead`, `AfterRecord`,
`AfterWrite`), in what an ending looks like, and in the error line an SSE client
is sent (`told`). Messages are numbers counted from 1. `long` holds the lines
`bufio.Scanner` refuses. `recorded` never goes down because nothing in the
program receives from `ReqBody` or `RespBody`.

Of gorilla/websocket the model takes that a close frame is answered when it is
read and that writes fail from then on (`CloseTaken`); pings are answered by the
library and do not pass. A peer that is there takes what is written to it.

### CertCache

`getCertificate` step by step: the lookup, the addition, the plain read of the
counter, the creation, which may fail, and the store. A certificate is named by
the handshake that made it, so that its name and number are those of the
handshake. `earlier[h]` remembers which handshakes had ended when `h` began. A
64-bit field is read whole on the platforms the program is built for.

### Tunnel

A handler (`pc[t]`) goes from `new` to `offer` (`AddConn`, on the unbuffered
channel) or `dial` (`forward`'s own dialer), then `flush` and `abort` (the two
halves of `Hijack`: the answer is written out, then net/http stops reading),
`copy` and `ended`. `conn[<<t, e>>]` is the connection to an end, `loop[<<t, e>>]` the
`io.Copy` that reads from it; `sent`, `taken` and `got` count its bytes. A
`net.Pipe` has no room, so what its writer offers goes with it, and a write waits
for the reader; a socket may take a byte and lose it. An end may stop reading
for good (`deaf`): a client or a host of its own accord, and `httpsSrv`, the other end of
a pipe, while its handler waits for room in `messageChan` (`proxy_http.go:135`). `early[t]` and `ahead[t]` are what net/http's own reader had read
before it gave the connection up: with the request, and the one byte
`backgroundRead` waits for while a handler runs. An end that closes one direction
only counts as closed. A CONNECT inside a tunnel, which `httpsSrv` would take as a
tunnel of its own, is left to `Rules`.

`stop` follows `Stop` through the two `Close` calls to the end of `main`; `serve` and
`listen` are the goroutines of `Start`. `httpsSrv.Close` closes `connChan` only once
`ServeTLS` has registered it (`CloseHttps`), then waits until the accept loop is no
longer running and closes the pipes it was serving (`CloseHttpsConns`). A send on the closed channel panics in a
handler, where net/http recovers it and closes the client's connection.

### Handlers

An object, a buffer or an array is named by the request that made it, and
bytes by the request whose response they are part of. `handleHttp` sets three
callbacks of the `ReverseProxy` it got, `forward` one; `Return` clears two, so
`onError` stays (`set[o]`). `withGZIP` writes into the array of its buffer while it
fits and moves to a larger one when it does not (`Compress`), puts the buffer back
(`PutBuffer`) and returns a slice of the array; the body is copied to the client
later (`Copy`, in two reads), after the record has been sent, which can take as
long as the channel is full. A `sync.Pool` may forget what it holds, so a
request can always get a new one.

### Rules

`lists[n]` is the slice in a field of the `Proxy`. A page's OK sets it through
`/action` (`Set`); pages do not wait for one another, nor one page for its own last
OK, so any list may follow any other.
`ServeHTTP` looks its host up in `exclude`, `include` and, for a plain request,
`replace`; each lookup reads the slice's pointer and length in two accesses
(`ReadWord`, then `Exclude`, `Include` or `Replace`). The setter's writes are one step:
between two reads, in either order, that gives every mixture of an old and a
new word. A mixture with a length beyond the array (`Wild`) may match, not match,
or end the process; `Capacity(_)` is the room `append` left in an array (`MCRules`
doubles a full one). A request through a tunnel (`Inner`), which may be a CONNECT
again, is looked up by the rules in force by then and by its own Host header
(`proxy.go:260`), which need not name the host the tunnel was opened to
(`through[r]`). It cannot be forwarded unless it is a CONNECT: it has no address
(`blind`). That takes requests as HTTP clients make them, with a full url to the proxy
port and a path inside a tunnel.

Of a pattern only the hosts it matches are modelled; of a replace rule, what its
second part makes of it: a substitute, nothing (an empty 200), or a panic that
net/http recovers. `seen[r]` remembers the lists in force during each lookup.

### Dialer

`caller[d]` is `DialContext` or `DialTLSContext`, `helper[d]` the goroutine around the
SOCKS library's `Dial`, `chan[d]` the channel between them, closed when the caller
returns. After a timeout the goroutine's `select` has two cases that can go on: it
drops the result (`Drop`), or sends on the closed channel (`SendOnClosed`). Only a
websocket's dial has a context that ends (gorilla's `HandshakeTimeout`, 45
seconds): http.Transport detaches a dial from its request.

### Faulty variants

The definitions headed "Faulty variants" are not part of a specification. Each is a
plausible mistake, substituted for the action it varies to confirm that a
property notices it.

## Runs

| Run | Shows |
|---|---|
| `capture_safety` | `TypeOK`; pages show records in order under increasing Ids (`ShownInOrder`), never twice (`ShownOnce`), only captured HTTP records (`ShowsOnlyCaptured`); no HTTP or SSE client is answered before its record is in the channel (`RecordedBeforeReply`); the pipeline implements `CaptureFeed` (`FeedSpec`) |
| `capture_liveness` | provided pages read: streams end once recording stays off (`StopsWhenOff`) and, once the traffic has ended, when a newer page has taken their place (`SupersededEnds`); blocked senders are released while somebody listens (`SendersReleased`), a watched page is shown what it can show (`CapturedIsShown`) |
| `upstream_routes` | a settled request goes direct when the setting is cleared (`ClearedIsDirect`), keeps to the user's proxies when one is set and the environment's function has left the field (`StaysProxied`), and takes the setting if its client held none (`EmptyClientObeys`) |
| `upstream_setting` | fails: see Divergences |
| `relay_exchanges` | no silent loss (`LossIsTold`); a record holds what was received (`RecordIsComplete`); unless a record is full, messages arrive (`MessagesArrive`) and handlers return (`HandlerReturns`), after a websocket's close no later than with the other side's next message |
| `relay_forwarded` | fails: see Divergences |
| `certcache_serials` | serial numbers grow between handshakes that do not overlap (`SerialsGrow`), one certificate per name after the first success (`MadeOnce`), each handshake gets one for its name (`GetsItsName`) |
| `tunnel_handover` | only what net/http had read is lost (`OnlyAheadIsLost`); an offered connection is taken or given up, and a tunnel without ends ends (`HandlersEnd`); `Stop` returns (`StopReturns`); bytes arrive at an end that stays and reads (`BytesArrive`) |
| `handlers_pools` | an intercepted request runs its own callbacks, a forwarded one none of an intercepted one's but its `ErrorHandler` (`OwnCallbacks`); a failed forward gets a 502 unless its object served `handleHttp` (`FailuresAreTold`); foreign bytes come only from a response compressed meanwhile (`ForeignBytesOverlap`) |
| `rules_verdicts` | a host all lists in force cover stays excluded or included, torn reads or not (`CoveredStays`); with no change the verdict is the rules', and the process lives (`UndisturbedIsRuled`); a tunnelled request is left without an address only after a change or for a host that is not the tunnel's (`BlindHasCause`) |
| `dialer_dials` | a failed dial leaves no connection open unless it was late (`LostIsLate`); only a timed-out websocket ends the process (`EndsOnlyAfterTimeout`); dials return (`DialReturns`) |
| `dialer_timeout` | fails: see Divergences |

### Bounds

* Capture: three requests against a channel of capacity 1 let one record be
  buffered and two senders park behind it; two event streams are an old page and
  the one that supersedes it, which is where numbering and receiving interleave.
  Requests and streams are each served once, so counters need no cap. `Served`
  lists the kinds that arrive: `capture_safety` has both orders of recording and
  answering, a record the page cannot show, and requests that record nothing;
  `capture_liveness` the other two recording kinds, one of them not shown, with
  two requests.
* Upstream: three requests are one that brings the field up to date, one that
  uses it and one that began before the change; two changes make the shortest
  cycle of set, clear and set.
* Relay: a record of two and three messages each way leave one beyond the
  capacity; at the real capacity the same happens 1022 messages later.
* CertCache: four handshakes are three that overlap for one name and one that
  comes later; two names tell their entries apart.
* Tunnel: two tunnels meet at the accept loop; a tunnel to an excluded host
  meets nobody, so one of them may be such (`Excludable`). The ends of that same
  one send (`Talkers`), a byte each way: a second byte goes the way of the first.
  An end stops reading only where that matters, with a byte on its way to it.
* Handlers: with three requests an object or a buffer is used, returned and used
  again by two that overlap.
* Rules: requests change nothing, so one connection is enough. The lists grow,
  shrink and change order, and their arrays have and have not room for another's
  length; three changes can tear every lookup of a request, or one of a tunnel's
  inner request after one of its CONNECT.
* Dialer: dials share nothing but the process; two let one end it under the other.

`CHECK_DEADLOCK FALSE` throughout: each instance serves what it is given and
stops.

### Fairness

Capture's `FairSpec`: the Go scheduler runs each goroutine that can run, so
`Send`, `Sent` and the step of each event stream are weakly fair, but for a write to
a page that is there: that needs the page to read. Nothing is assumed of clients,
upstream servers, or whoever opens pages and touches the switch. The properties
state what they need of them: that a stream's page reads, so that the stream does
not stay in a write for ever (`Reads`), and, in `SendersReleased` and
`CapturedIsShown`, that from some point on some stream keeps running;
`SupersededEnds` needs the channel to stay empty in the end, since `Api.event`
compares tickets only when it has received nothing. Relay's `FairSpec`: each loop
and the handler's return are weakly fair, for the same reason; peers owe nothing.
Tunnel's `FairSpec`: the servers' goroutines, each handler and each copy loop are
weakly fair, and `Stop` goes on once it has begun; a dial ends within 30 seconds. A
loop's write to an end that does not read is not fair: it waits until the
connection ends (`AwaitsReader`).
Dialer's: callers, goroutines and timers; a SOCKS server need never answer.
`Handlers` and `Rules` state safety only.

### Divergences

* `upstream_setting`: neither `-proxy` (`README.md:51`) nor a change of proxy
  takes effect while the client's field is not nil (`dialer.http.go:34`,
  `dialer.websocket.go:61`), and it starts as `http.ProxyFromEnvironment`.
* `relay_forwarded`: the record's channel is never drained, so a direction of a
  websocket stops before its 1025th message, an SSE stream after its 1025th line
  (`proxy_websocket.go:162`, `proxy_sse.go:114`).
* `dialer_timeout`: the goroutine of a SOCKS dial that timed out may send on the
  channel its caller has closed, contrary to the comment beside it
  (`dialer.go:61`), and the panic ends the process.

Others met on the way, which hold in every execution and so have no run:

* `README.md:49` says that the page can see included requests. The record of an
  SSE or websocket exchange is sent to `messageChan` and dropped by `Api.event`
  (`api.go:135`).
* `README.md:116` says that direct connections use the proxy that is set. An
  excluded CONNECT dials by itself (`proxy_forward.go:21`).
* `README.md:110` says that a request is replaced by a given address or file. The
  page joins scheme and address without a comma (`HomeView.vue:790`), and
  `ServeHTTP` looks for the scheme in a part of its own (`proxy.go:315`): a request
  that matches one of the page's rules gets an empty answer.

One more depends on how two requests interleave. `withGZIP` returns the bytes of a
buffer that it has put back and that others may already be writing into
(`gzip.go:45`), so a client can be sent part of another's response when the two
overlap. No run is made to fail by it, since no comment, document or test speaks
of it; `ForeignBytesOverlap` bounds it: whose bytes these can be, and when.

## Proofs

Each `...Proofs` module has the same plan: an inductive invariant `IInv`, which TLC has
checked on the instances of the runs as well; that `Init` implies it; one lemma per
action, or group of actions, that keeps it; and the properties, which follow
from it. The theorems hold for all values of the constants that the named
assumptions admit. Bounds on messages, bytes and changes are among these
constants, so nothing depends on their size.

### Capture

For all sets of requests and streams and every capacity of at least 1
(`CapAssumption`; the program passes 10240) and any kinds served
(`ServedAssumption`):

* `TypeCorrect`: `TypeOK` is an invariant; it is inductive by itself.
* `ShownInOrderHolds`, `ShownOnceHolds`, `ShowsOnlyCapturedHolds`,
  `RecordedBeforeReplyHolds`, from the inductive
  invariant `IInv`.
* `CaptureImplementsFeed`: `Spec => FeedSpec`, by showing that each step maps to a
  step of the feed or to none.

None of the properties is inductive. That a page's Ids increase needs to know
that a stream which has counted its record sees a counter above everything its
page shows, although other streams count too (`IdInv`); that two pages never show
the same record needs to know that what a stream holds is at most `head` and
newer than all its page shows (`HandInv`), held by no other (`ApartInv`). That a
client is not answered early needs each goroutine to have at most one record in
the channel and a finished recording handler to have its record buffered
(`QueueInv`, `ReplyInv`). `TicketInv` says tickets are unique.

The proof splits over actors: a handler's step disturbs `QueueInv` and `ReplyInv`
and leaves to the streams what they rely on (`StreamPartsStable`); a stream's step
does the converse (`RequestPartsStable`), and leaves the other streams alone
(`StreamFrame`).

### Upstream

`TypeCorrect`, `ClearedIsDirectHolds`, `StaysProxiedHolds`, `EmptyClientObeysHolds`, for all
requests, all proxies whose names are not the words for having none
(`UrisAssumption`) and every number of changes. The invariant `IInv` says that
the requests in flight are settled so far all together or not at all
(`AlikeInv`), so that nobody acts on an older setting beside a settled request,
and what a settled request has found out at each place is still so (`Found`):
between the assignment and the use, no other request can empty the field.

### CertCache

`TypeCorrect`, `SerialsGrowHolds`, `MadeOnceHolds`, `GetsItsNameHolds`, for all handshakes and
names. The invariant needs that a handshake between the addition and the read
sees a counter above all that earlier ones have read (`CounterInv`), that those
have ended and read no more (`EarlierInv`), and that a cached certificate belongs
to a handshake that is done, for that name (`CacheInv`).

### Relay

`TypeCorrect`, `LossIsToldHolds`, `RecordIsCompleteHolds`, for
every capacity of at least 1 (`CapAssumption`; the program passes 1024) and every
number of messages (`MessagesAssumption`). While the peer a loop writes to is
there, what the loop has read is what it has written, recorded, or has in hand,
and which of these depends on where it is and on the kind of exchange (`CountInv`);
a loop never reads past what was sent (`OrderInv`); and it ends for one of three
reasons: the sender closed and all was read, the client was told, or a websocket's
sender broke (`EndInv`). `KindInv` keeps long lines and error lines to SSE.

### Dialer

`TypeCorrect`, `LostIsLateHolds`, `EndsOnlyAfterTimeoutHolds`, for any number of dials. `ChannelInv`
ties the channel to both its ends: open as long as the caller waits, full only
when the goroutine has gone. `ResultInv` says what the goroutine has in hand, and
`LateInv` that a caller gone before its goroutine, or with a connection made, had no
time left. Dials share only `alive`, so a step need keep only what is said of its
own dial (`Frame`, `OwnDial`).

### Tunnel

`TypeCorrect` and `OnlyAheadIsLostHolds`, for any number of tunnels and bytes, wherever
`Stop` falls (`BoundsAssumption`). The invariant is per tunnel: a loop takes no more
than was sent and passes on no more than it took (`LoopInv`); before the
connection is handed over the loops stand still and only net/http has read
(`HeldInv`); after, while both connections last, what was read and neither written
nor about to be is what net/http had read (`AccountInv`).

### Handlers

`TypeCorrect`, `OwnCallbacksHolds`, `FailuresAreToldHolds`, `ForeignBytesOverlapHolds`,
for any number of requests, none of which is the name for nil (`NoneAssumption`). What a pooled
object holds depends on who used it last: an object in use has its user's
callbacks, a pooled one neither of the two that `Return` clears, and an `onError`
only if `handleHttp` had it once (`HoldInv`). An object named by a request that has not
begun does not exist yet (`FreshInv`). Only an intercepted request gets to
`ModifyResponse`, and into its own (`ModifyInv`); until its body is out, what is in
its array is its own or comes from one that compressed since (`SliceInv`); the
buffer to put back is one it got (`BufferInv`).

### Rules

`TypeCorrect`, `CoveredStaysHolds`, `UndisturbedIsRuledHolds`, `BlindHasCauseHolds`, for any
hosts, any lists of rules (`FilterAssumption`, `ReplaceAssumption`), any room that
`append` may leave beyond a list's end (`CapacityAssumption`), and any number of
requests and changes (`ChangesAssumption`). A word that a lookup has read is of a
list in force since it began (`WordInv`), so a host that all those lists cover is
matched by every mixture of two of them. What a request has come past is
remembered in `seen` (`PassedInv`); as long as no list is set, the rules that let a
CONNECT in let in what comes through it for the same host (`StandingInv`). That the first matching
rule exists needs the well-ordering of the natural numbers (`LeastOfNat`), taken
from the library's well-founded induction.

### Model-checked only

The liveness properties: `StopsWhenOff`, `SupersededEnds`, `SendersReleased`, `CapturedIsShown`,
`MessagesArrive`, `HandlerReturns`, `HandlersEnd`, `StopReturns`, `BytesArrive`,
`DialReturns`. Fairness is stated with `ENABLED`, which the provers cannot reason about. Every other property
of a passing run is a theorem.

## Plan

All components with state that interleaves are modelled, and their safety
properties are proved. What would say more:

1. An abstract specification of a relay and of a tunnel, each as two lossy pipes
   that tell of their losses, and a proof that `Relay` and `Tunnel` implement it.
2. The lemmas a proof of liveness would rest on: that each step a fair goroutine
   takes brings its loop nearer to the end.

## Not modelled

Formatting (code converters, hex view, JSON), the table of uTLS fingerprints,
address discovery, the static files and build scripts: no state that interleaves.
`Replay`'s decoding and the 16-bit sizes of a record are pure conversions; `Capture`
has `Replay`'s steps. The page is modelled as the source of rule lists and the
reader of a stream, not its display. The web server's own start and the calls a
library user could make but the program does not (`ClearSocks5`, `SetClientHello`)
are left out.
