# A TLA+ model of go-xsapi

go-xsapi is a Go client library for the Xbox Live services. Most of it consists
of REST calls that keep no state. What is hard to get right is the rest: one
real-time connection (RTA) that many goroutines share and that reconnects by
itself, the multiplayer sessions (MPSD) and the social subscription that depend
on it, the presence that must be gone after the client is, and the caches of
tokens and of title data that every request goes through. This directory models
those parts in TLA+, checks small instances with TLC, and proves the central
properties with TLAPS for instances of any size.

All paths below are relative to `src/`.

## 1. Inventory

| component | state | operations |
|---|---|---|
| `rta.Conn` (`rta/conn.go`, `rta/reconnect.go`, `rta/dial.go`) | the current socket, the map of subscriptions by id, the table of expected answers, the reconnect gate, the flags of each `Subscription` | `Subscribe`, `Unsubscribe`, `call`, `read`, the reconnect loop, `Close` |
| RTA call layer (`rta/op.go`, `rta/conn.go`) | sequence numbers and waiting calls, dispatch of events by subscription id | `expect`, `release`, `handleMessage` |
| `mpsd.Session` (`mpsd/session.go`) | cached description with its version, closed flag | `update`, `Sync`, `CloseContext`, `markDeleted` |
| `mpsd.Client` (`mpsd/client.go`, `mpsd/subscription.go`, `mpsd/publish.go`, `mpsd/join.go`) | the table of sessions, the RTA subscription and its connection id | `Publish`, `Join`, `HandleSubscribe`, `HandleEvent`, `HandleResync`, `HandleError`, `createSession` |
| `xsapi.Client` (`client.go`) | the lazily dialed `rta.Conn`, closed flag | `ensureRTA`, `closeRTA`, `CloseContext` |
| `sisu.Session` (`xal/sisu/session.go`) | cached title, user and XSTS tokens, the last authorization, generations of invalidations | `XSTSToken`, `TitleToken`, `UserToken`, `InvalidateXSTSToken`, `Snapshot` |
| `sisu` OAuth2 (`xal/sisu`), `xasd` token source | one token each, under one mutex each; the refresh token | `Token`, `DeviceToken` |
| `nsal.Resolver`, `nsal.Transport` | title data per title id, loads in flight, failures that are kept for 15 s; the default title, which the whole process shares | `Resolve`, `title`, `Match`, `Default`, `RoundTrip` |
| `presence.Client` (`presence/client.go`) | `lifecycleVersion`, `shouldCleanup` and `lifecycleMu`, which is held during requests | `Update`, `Remove`, `CloseContext` |
| `social.Client` (`social/subscription.go`, `social/client.go`) | the handlers and the one RTA subscription they share, under `subscriptionMu`, which is held during RTA operations | `Subscribe` and the functions it returns, `CloseContext`, `HandleEvent`, `HandleError` |
| social REST calls (`social/user.go`, `social/profile.go`) | none, except that an image upload moves the position of its reader | `UploadProfileImage`, single requests |
| `achievements.Client` | none; a paging loop with limits | `All` |
| `notification`, `xsts`, `xasu`, `xast`, `xal`, `internal` | none, or one atomic clock offset | single HTTP requests, JSON types, ECDSA signatures |

How they interact: `xsapi.Client` builds everything. Every HTTP request passes
`nsal.Transport`, which asks `nsal.Resolver` for a relying party and
`sisu.Session` for its token, and which tells the session when the service says
that the token has expired. `mpsd.Client` and `social.Client` obtain the
`rta.Conn` from `xsapi.Client` (it is dialed on first use), subscribe, and are
called back by it (`HandleSubscribe`, `HandleEvent`, `HandleError`,
`HandleResync`). After an RTA reconnect the service assigns a new connection id,
which `mpsd.Client` writes to every session it has.

What makes each component correct, and what makes that hard:

* **`rta.Conn`.** Callers, one reader per socket, one reconnect loop, the
  goroutines that restore subscriptions, and `Close` all run at once under five
  mutexes. No call may wait for an answer nobody delivers; no two handshakes may
  run for one subscription; an active subscription must never be lost; a closed
  connection must leave nothing active and nothing open; every operation must
  return. The hard cases are outages in the middle of an operation or of another
  outage's repair.
* **`mpsd.Session`.** The cached version never goes back although syncs and
  updates overlap; the session is closed remotely once, and a failed close can
  be retried. Locks nest as reconcileMu, closeMu, syncMu, cacheMu.
* **`mpsd.Client`.** When nothing is in progress, every session advertises the
  connection id of the current RTA connection. `Join` tries at most three times
  and only repeats on a failed precondition.
* **`xsapi.Client`.** A connection dialed while the client closes is handed to
  somebody who closes it; who waits for somebody else's dial is woken however the
  dial ends. A close that fails half-way leaves the client open and can be
  repeated.
* **`sisu.Session`.** A token that a service has rejected is not handed out
  again, not even by an acquisition that was in flight; three mutexes, one of
  them held during network requests.
* **`sisu` OAuth2, `xasd`.** A token that is valid is not replaced, however many
  goroutines find the old one expired at once.
* **`nsal.Resolver`.** One load per title at a time; every waiter gets its
  result, but a canceled load concerns only the goroutine that was canceled. When
  a title cannot be loaded, no request gets a token for the wrong relying party.
  An endpoint that names the host wins over patterns.
* **`presence.Client`.** After a removal that has succeeded, no earlier `Update`
  that is still retrying brings the presence back.
* **`social.Client`.** The shared subscription exists as long as a handler does,
  and a loss reaches every handler that was registered.
* **`achievements.Client`.** `All` returns the whole collection or nothing.
* **`UploadProfileImage`.** What is published has the number of blocks and the
  size that were announced before the first block was sent.

The hazards, each at its line, are listed in `PROJECT.json`.

## 2. Modules

| module | role |
|---|---|
| `RtaConn` | `rta.Conn`: all of its goroutines, locks and handlers, the sockets, the server |
| `MCRtaSafety`, `RtaSafety.cfg` | its safety, with outages that keep clear of the operations and with others; its other instances are `RtaConn*.cfg` |
| `RtaConnProofs` | the inductive invariants of `RtaConn` and twelve theorems |
| `MpsdSessions` | `mpsd.Client` with its `Session`s and subscription handlers, the directory, an abstract RTA subscription |
| `MCMpsdSessions`, `Mpsd*.cfg` | its instances |
| `MpsdSessionsProofs` | the inductive invariant of `MpsdSessions`; all of its safety properties |
| `TokenSource` | abstract: what `nsal.TokenSource` and `nsal.TokenInvalidator` promise |
| `SisuSession` | detailed: the caches and mutexes of `sisu.Session`, and `nsal.Transport` as their user |
| `SisuSession.cfg` | its instance |
| `SisuSessionProofs` | the inductive invariant of `SisuSession`, and that it implements `TokenSource` |
| `Goroutines` | the constants `Callers` and `Nobody` that the modules below share |
| `PresenceClient`, `SocialClient` | `presence.Client`; `social.Client` over an RTA connection that is left open |
| `XsapiClient` | `xsapi.Client`, which composes these two with the connection it dials and closes |
| `ClientPartsProofs`, `XsapiClientProofs` | what the two parts promise, and that the composed client keeps it |
| `NsalMatch` | `TitleData.Match` and `Endpoint.Match` as operators |
| `NsalResolver`, `NsalResolverProofs` | `nsal.Resolver` and its shared loads; its three invariants |
| `RtaCalls`, `RtaCallsProofs` | the call layer of `rta.Conn`; its three invariants |
| `ReuseSource` | the sources of device and Microsoft account tokens |
| `AchievementsPaging`, `ImageUpload` | the loops of `achievements.Client.All` and of `UploadProfileImage` |
| `ServicesProofs` | about these three and `NsalMatch`: folds over sequences of any length, when a token is replaced, what the loops return |
| `MCServices`, `Services.cfg` | the instances of these modules |
| `MCNsalResolver`, `NsalPrecedence.cfg` | a title whose endpoints overlap, for the fifth finding of section 5 |

### RtaConn

A step is what the code does between two points at which another goroutine can
observe it: a mutex or channel operation, a read or write of a socket, a
callback. `go[g]` is the program counter and the locals of goroutine `g`; a
goroutine is a caller, or one of those that `resubscribe` starts, which is named
by the map key it was started for.

| code | model |
|---|---|
| `Conn.conn`, `Conn.subscriptions` | `conn`, `tracked` |
| `Subscription.active`, `unsubscribing`, `ID` | `active`, `unsubscribing`, `id` |
| `Conn.subscriptionOpMu`, `Subscription.opMu` | the holder, `subscriptionOpMu` and `opMu[s]` |
| `Conn.reconnectDone` | `rec # "off"`; who blocks on that channel is in `waiting` |
| the phases of `runReconnect` | `rec`: take, shut, dial, publish, join, backoff, sweep, finish |
| the subscriptions the reconnect holds | `taken`, `interrupted` |
| the goroutine running `read(s)` | `reader[s]`: reading, failed, current, done |
| the table of expected answers | a goroutine at `"await"`; `drainExpected` sets its `out` |
| the cancelled context and the phases of `Close` | `closing` |
| the service | `server[s][i]`, which subscription it holds under id `i` of socket `s` |

`connMu`, `expectedMu`, `subscriptionsMu` and `reconnectMu` are held only across
a few statements that make up one step each, so they need no variable; the
exception is `ensureWebSocket`, which dials under `connMu` and is one step.
`closeWebSocket` takes the socket out under `connMu` and drains its calls
afterwards; a call that registers in between is drained by the reader of that
socket when the closed socket makes its read fail, so the halves are one step.

Left out: payloads, the sequence numbers of calls (`RtaCalls` has them), events
and resync messages (they change no state of the `Conn`), the durations of the
back-off, logging.

**Overlaps.** The code has coincidences it does not survive; section 5 shows
the three of `RtaConn`. `Overlaps` names the coincidences an instance allows:
`outageDuringSubscribe`, `outageDuringUnsubscribe`, `outageDuringReconnect`,
`closeDuringOperation`, `idReuse` (the service gives out an id that somebody
still remembers), `lateAnswer` (a caller's context expires while its answer is
on the way). Safety properties that hold regardless are checked and proved with
no restriction; those that fail under some overlap are checked without it, and
the violation is a run of its own. That a goroutine waits, fails or is preempted
between any two steps is never restricted.

`Rest` is a stuttering step enabled only when nothing is in progress. With it
the deadlock check means what it should: a state in which some goroutine still
has something to do and nobody can move is reported.

### MpsdSessions

`mpsd.Client` and `mpsd.Session` are one module: what is hard about them is how
four mutexes of two types nest. `go[g]` is what goroutine `g` is in the middle
of: `op` says which method or handler it runs, `req` which request it is about to
send or waits for. `update`, `Sync` and `CloseContext` are called from many
places with different continuations; `ReceiveOk`, `ReturnsError` and
`MarkDeleted` choose the continuation by `req` and `op`.

| code | model |
|---|---|
| `Session.cache`, `etag`, `closed`, `ref` | `cache`, `etag`, `closed`, `ref` |
| `Session.closeMu`, `syncMu` | `closeMu[h]`, `syncMu[h]` |
| `Client.sessions`, `subscriptionData` | `sessions`, `data` |
| `Client.reconcileMu`, `subscribeMu` | `writer` and `readers`, `subscribeMu` |
| the goroutines that a handler starts for session `h` | `Restorer(h)`, `Closer(h)`, `Tapper(h)` |
| `rta.Subscription.active`, `opMu` | `active`, `opMu` |
| a `HandleError` that has been started | `lost` |
| who has got the `*Session` | `owned` |
| the session directory | `server[r]`: existence, version, the member's connection id |

A request has three steps: the mutex is taken and the request sent, the directory
applies it, the answer is stored and the mutex released. In between the directory
may be written by others, and at any step the request may fail; it may have been
applied or not. A request that is given up takes no effect later.

`rta.Conn` is reduced to what the client sees of it: a handshake that yields a
new connection id or fails, a connection that drops and is restored while the
subscription stays active, an unsubscription. `RtaConn` models how that comes
about; its overlaps of a drop with an `Unsubscribe` are left out here.

Left out: the contents of documents other than the member's connection id,
cloning by the getters, invitations and activity queries. `HandleResync` does
per session what `HandleEvent` does. At most one goroutine of a kind runs per
session, and one `HandleError` waits to run at a time.

### SisuSession and TokenSource

`title`, `user`, `resp`, `xsts` and `generation` are the fields of `Session`;
`tokenMu`, `xstsMu` and `respMu` hold their owner; `go[p]` is where goroutine
`p` is in `xstsToken`, `requestXSTS`, `TitleToken`, `UserToken`, `authorize`,
`InvalidateXSTSToken` or `Snapshot`. Tokens are numbered in the order they are
issued: the services never issue the same token twice. A token may expire at any
moment, and the service may reject one that still looks valid; then `RoundTrip`
calls `InvalidateXSTSToken`. `rejected` and the field `banned` are history
variables. The device and Microsoft account tokens only succeed or fail;
`TitleToken` and `UserToken` run as parts of `requestXSTS`.

`TokenSource` says in four actions what a user relies on: a call fails or
returns a token, never one that was discarded for the relying party before the
call began. `SisuSession` implements it under the mapping `Call`, which hides
the locks, the underlying tokens and the in-between steps.

### XsapiClient, SocialClient, PresenceClient

`XsapiClient` EXTENDS the other two and joins their actions with those of the
connection; a goroutine `p` has one program counter in each of the three parts.
In its own, `go[p].at` is the place in `ensureRTA` (ensure, lookup, waitDial,
dial, dialed, discard), in the RTA operation that needed a connection (subscribe,
unsubscribe) or in `CloseContext` (mpsd, social, presence, join, closeRTA,
awaitDial, closeConn).

| code | model |
|---|---|
| `presence.Client.lifecycleMu`, `lifecycleVersion`, `shouldCleanup` | the variables of these names |
| an `Update` between two attempts | `presenceGo[p].at = "try"`, without the mutex |
| the presence that the service shows | `shown`, named by the lifecycle its `Update` began in |
| `social.Client.subscriptionMu`, `subscriptionHandlers` | the variables of these names |
| `subscription.Active()` | `subscribed` |
| a `HandleError` that has been started | `losses` |
| `xsapi.Client.rta`, `rtaDialing`, `closeMu`, `closed` | the variables of these names; `rtaDialing` is who dials |
| `close(done)` on the dialing channel | `Woken` |
| `ClientConfig.RTAMode` | `rtaMode` |

`rtaMu` is held for the sections `Lookup`, `Dialed` and `CloseRTA` only, each
of which is one step. An `rta.Conn` is a number here: it is dialed, carries the
subscription of `social.Client`, may lose it, and is closed; `RtaConn` models
the inside of one. An `Unsubscribe` that returns nil leaves the subscription inactive
here. The run `rta_resurrect` shows that it need not: an outage during the last
`Unsubscribe` can leave `social.Client` with a subscription that RTA restores and that
has no handler. `SubscriptionHasHandler` holds apart from that. `mpsd.Client` takes part with calls that subscribe and with a
`CloseContext` that succeeds or fails. A request that is given up may have been
applied; it takes no effect later.

### NsalResolver and NsalMatch

| code | model |
|---|---|
| `Resolver.cached`, `failed`, `loading` | the variables of these names; `failed` without what is older than 15 s |
| a `titleRequest` | who loads (`loading[t]`); its waiters are told by `Told` |
| the loop of `Resolve` over the titles | `nsalGo[p].next`, and the errors so far in `errs` |
| the process-wide cache of `Default` | `defaultTitle` |

An error is its kind and the goroutine it comes from, which is what
`CancellationStaysPrivate` needs to tell apart. `mu` is held for one step each.
The mutex of `Default` is left out: a load of the default title is one step. The
host of an endpoint is the set of the names it covers; signature policies are
left out. `ResolverAssumption` states what the comment in `Resolve` relies on:
all titles list the generic endpoints alike.

### RtaCalls

| code | model |
|---|---|
| `Conn.conn`, `sequences`, `expected` | `webSocket`, `sequences`, `expected` |
| the channel of a call | `answered[c]`, and `c \in hungUp` once it is closed |
| `call` in goroutine `p` | `callGo[p]`: expect, write, await |
| what the reader of socket `s` has taken out of the table and not yet sent | `reader[s]` |

A socket may be given up while its reader still has a message in hand, so readers
of several sockets run at a time; a call may drain a socket that is no longer the
current one. `Message.call` says whose message it is, which neither the code nor
the service can see; only the properties look at it. Left out: events and
resyncs, whose dispatch starts a goroutine and changes nothing, answers that
cannot be decoded, and the wrap-around of a sequence number, which needs 2^32
calls.

### ReuseSource, AchievementsPaging, ImageUpload

`ReuseSource` is one module for `xasd.ReuseTokenSource` and for
`oauth2.ReuseTokenSource` over sisu's `tokenRefresher`: both keep a token under a
mutex that they hold during the request. `Refreshing` says whether a request
needs a refresh token, which the answer replaces. The second is a library and
modelled as the code uses it.

`AchievementsPaging` lets the service answer with any page: entries without an
ID or repeated ones, tokens that repeat. `ImageUpload` counts sizes in a unit of
which a block has three; `unread` is the `Len` of the reader, which the
application may pass again after a failure.

`MCServices` instantiates all of these. They share nothing but the goroutines,
so `part` chooses which of them a behaviour exercises while the others stay in
their initial states; that is the sum of their state spaces, not the product.

## 3. Runs

| run | instance | shows |
|---|---|---|
| `rta_safety` | 2 callers, 2 subscriptions, 3 ids, 3 sockets, 2 outages, overlaps `lateAnswer`, `outageDuringSubscribe`, `outageDuringReconnect`; when these overlaps occur, one caller at a time | `TypeOK`, `NoOrphanCall`, `ActiveIsOwned`, `ClosedDeactivates`, `CalmStrandsNobody`, `CalmCloseLeavesNoOpenSocket` |
| `rta_live` | 1 caller, 1 subscription, 1 id, 2 sockets, 1 outage, every overlap but `lateAnswer`, under `FairSpec` | `OneHandshake`, `ReconnectEnds`, `OperationsReturn`, `CloseEndsEverything` |
| `rta_resurrect`, `rta_lost_drop`, `rta_close_race` | small instances with one overlap each | three findings of section 5 |
| `mpsd_session` | 2 callers, 1 session, 1 document with up to 4 versions, 1 connection id, everything but drops | `CallbackSeesChange`, `EntersAndLeavesOnce`, `VersionsGrow` |
| `mpsd_reconnect` | 1 caller, 2 sessions, 2 documents with up to 3 versions, 2 connection ids, joins and a drop | `TypeOK`, `NoStaleConnection`, `KeepsNewer` |
| `mpsd_live` | 1 caller, 1 session, 1 document with up to 3 versions, 2 connection ids, a publish, closes, events and a drop, under `FairSpec` | `CallsReturn` |
| `mpsd_leave` | 1 caller, 1 session, 2 connection ids | the fourth finding of section 5 |
| `nsal_precedence` | 1 goroutine, 1 title with an exact host name before a wildcard | the fifth finding of section 5 |
| `sisu_session` | 2 goroutines, 2 relying parties (one the default), 2 tokens, 1 expiry, a fresh or a restored session, under `FairSpec` | `TypeOK`, `RejectedStaysOut`, `KeepsPromise`, `CallsReturn` |
| `services` | 2 goroutines, one part at a time, under the fairness of each part | the properties of the next table |

The parts of `services`:

| part | instance | states | properties |
|---|---|---|---|
| `client` | 2 dials, 1 removal or close of the presence, 1 registration, no loss | 35,012 | `NoForgottenConnection`, `CleanedStaysClean` |
| `handlers` | 2 dials, 2 registrations, 1 loss, no presence, calls of `mpsd.Client` | 22,678 | `SubscriptionHasHandler`, `LossIsReported`, `NoForgottenConnection` |
| `resolver` | 2 titles (current, default), configured endpoints for a third source, 3 URLs, 1 cancellation | 66,424 | `SingleFlight`, `RightRelyingParty`, `CancellationStaysPrivate` |
| `calls` | 2 calls, 2 sockets, 2 operations | 12,931 | `AnswersOwnCall`, `SendsToOpenChannel`, `NoEntryIsLeft` |
| `paging` | 3 achievements, 2 tokens, pages of up to 2, limits of 3 pages and 2 achievements | 52,762 | `ReturnsCollection` |
| `source` | 3 tokens, with a refresh token or without | 344 | `ReplacedWhenExpired` |
| `image` | images of up to 7 units, blocks of 3, at most 6, 2 uploads | 303 | `PublishedIsComplete` |

`CallsReturn` speaks of the parts `client`, `handlers`, `resolver`, `calls` and
`source`: whoever is in the middle of a method returns from it. `All` and
`UploadProfileImage` wait for nobody, and the property says nothing about `paging` and
`image`. With two goroutines one waits for a dial or a load that another one ends; that
several of them look again at once is not in the run.

A behaviour of `rta_safety` is `calm` or not, from its initial state on. In a calm one
an outage begins only when no operation and no other outage is under way, and two
callers use the connection at once; in the others outages come as `Overlaps` permits
and the callers take turns. `CalmStrandsNobody` and `CalmCloseLeavesNoOpenSocket` are
`NoStranded` and `ClosedLeavesNoOpenSocket` in the calm behaviours; the other
properties hold in all of them.

`mpsd_live` is about who waits for whom in `MpsdSessions`. A drop makes
`HandleSubscribe` run while a session is bound: it holds reconcileMu for as long as its
goroutine writes the new connection id, finds the document gone and needs closeMu, or
discards the session, and meanwhile createSession, an event and `HandleError` wait for
reconcileMu, and a `Close` of the application has closeMu and waits for syncMu. One
mutant lets the goroutine take reconcileMu, which it already owes to its starter; the
other keeps syncMu while closeMu is awaited. What an update or a `Sync` of the
application holds is a part of what the goroutine and the event hold, so that these
calls, and joins and other writers, are left to `mpsd_session`.

Which property survives which overlap was settled by trying each: `NoStranded`
and `ClosedLeavesNoOpenSocket` fail under every kind of outage that overlaps an
operation or another outage. With one caller `ActiveIsOwned` and
`ClosedDeactivates` fail only when an outage overlaps an `Unsubscribe` or an id is
reused. With two callers they fail under every such outage: a reconnect that begins
while the other caller's `Unsubscribe` is past the gate and waits for
subscriptionOpMu skips that subscription as unsubscribing, and when its request
then fails the subscription is active and untracked. `ClosedDeactivates` fails also
when `Close` overlaps an operation. `rta_live` covers the remaining overlaps, and so
do the proofs of section 4, which assume of the overlaps what these runs assume and
nothing of the numbers.

**Bounds.** Two callers and two subscriptions are what the properties of
`RtaConn` compare; they meet at `subscriptionOpMu`, at the gate and, for the
same subscription, at `opMu`. Three ids leave the server a choice after both
subscriptions have one. Two outages and three sockets let a reconnect follow the
last dial of another one; outside the calm behaviours the second outage hits the repair
of the first, which is where a restorer is interrupted and the loop runs again.
In `SisuSession` two goroutines suffice for an acquisition that overlaps an
invalidation, and two tokens for one that is rejected and its successor. In
`mpsd_session` two callers, an event and a closer compete for the mutexes of one
session, in `mpsd_live` a caller, an event, a closer and the restorer of a new
connection; two sessions meet only in the table and at reconcileMu
(`mpsd_reconnect`). Four versions are enough for a join, an update, a
write of somebody else and a leave. In `services`, two goroutines are one that
acts and one that overtakes it: the one that dials or loads and the one that
waits or closes, a retry and a removal, a registration and a loss. A second dial
follows a failed or a discarded one; the last one does not fail. One removal
separates two lifecycles of the presence. Two calls on two sockets let an answer
outlive its call and a reader its socket. Two titles are one that has precedence
and fails and one that answers in its place, and the URLs are those of a service
of the title, of a generic one and of a configured one. The limits of `All` can
be passed by one page or by the sum of two, at the third page or before. The
limit of an upload is two blocks, as in the code, and one unit more is too
large. Callers, subscriptions and ids, sessions and documents are
interchangeable, and symmetry is used in `rta_safety`, `mpsd_session` and
`mpsd_reconnect`, which check no liveness.

**Fairness.** Every goroutine is scheduled: strongly where it takes a mutex,
because Go's `sync.Mutex` hands a mutex to a waiter that has starved for a
millisecond, weakly for the readers and for the reconnect loop together with
`Close`, which wait for no mutex that another of their steps could keep taking.
In `MpsdSessions` every goroutine is scheduled strongly, which with one session
also covers reconcileMu: `sync.RWMutex` lets no new reader in while a writer
waits, so a writer is not starved by readers. In `XsapiClient` and `ReuseSource`
the goroutines are scheduled strongly for the sake of their mutexes, in
`NsalResolver` and `RtaCalls` weakly, because there nobody waits for a mutex
across two steps. Two bounds matter to liveness there: a goroutine that waits
for somebody else's dial, or load, begins anew when that fails, or is canceled,
and could be overtaken without end; `MaxConns` and `MaxCanceled` rule that out.
User callbacks return. The service answers every request that reaches it on a
socket that stays up, and requests of `sisu` end, with or without a result, as
HTTP requests do. Nothing obliges the application to start an operation, to
close the connection or to let a context expire, the network to drop a socket,
or a token to expire. A reconnect that can never dial again cannot end; in the
model that state (`Starved`) is reached when the bound on sockets is exhausted,
and the liveness properties of `RtaConn` say so.

## 4. Proofs

### RtaConnProofs

Of the constants only `ConstantsAssumption` is assumed: any sets of callers,
subscriptions and ids, any number of sockets and outages. Three invariants are
proved, one on top of the other.

**Calls and handshakes**, with any workload and every overlap. `OneHandshake` and
`NoOrphanCall` are not inductive. `Inv` adds to `TypeOK`:

* `BusyHasSub`: a busy goroutine knows its subscription, and
  `HandshakeHoldsOpMu`: between locking and unlocking `opMu` it is the holder.
  Two handshakes for one subscription would need two holders: `OneHandshake`.
* `SocketsInv`: sockets that were not dialed are untouched, an open socket has a
  reader that has not given up, a socket becomes current together with its
  reader. This is what guarantees that whoever gets a socket from
  `ensureWebSocket` gets one with a reader, though perhaps one that has failed
  since.
* `CallHasReader`: a call that writes or waits uses a socket that has or had a
  reader. With `NoOrphanCall` itself this is inductive: the only step that ends
  a reading reader drains the calls that wait on its socket, and a call starts
  to wait only after a write to an open socket, whose reader is reading.

The step lemmas (`TypeStep`, `LockStep`, `SocketsStep`, `CallStep`) have one step
per action. Theorems: `Invariance`, `TypeCorrect`, `NoOrphanCallHolds`,
`OneHandshakeHolds`.

**Who owns an active subscription**, when ids are not reused. A subscription is
active from `Subscribe` on and passes from owner to owner: the caller that settles
it, the map of subscriptions, the reconnect that has taken it, the restorer.
`OwnInv` adds:

* `Kinds` (which operation can be at which place), `RestorersInJoin` (wg.Wait: no
  restorer outlives the attempt that has started it), `Marked` (`unsubscribing` is
  set by an `Unsubscribe` that is still in its handshake);
* `DistinctIds` and `PendingFresh`: an id, also one in an answer that nobody has
  looked at yet, belongs to one subscription, so that tracking one never displaces
  another in the map;
* `ActiveOwned`: every active subscription has an id and an owner.

It is kept while the behaviour is `Undisturbed`: no reconnect runs while the answer
to an `Unsubscribe` is open. Otherwise the reconnect may leave a subscription to an
`Unsubscribe` that then fails, as in section 3. `UndisturbedOwns` and
`UndisturbedDeactivates` have this as a hypothesis on the behaviour.
`NeverDisturbed` discharges it: a behaviour is undisturbed when it is `Orderly` (one
caller, and outages spare its `Unsubscribe`; or nobody unsubscribes) or `Calm`
(outages come between the operations, of any number of callers, and one at a time).
Hence `ActiveIsOwnedAlways` and `ClosedDeactivatesAlways`. In the behaviours of
`rta_safety` that are not calm, callers take turns and no outage meets an
`Unsubscribe`: what an `Orderly` instance does, with its one caller under several
names. For the second theorem, `CallersGone` (a `Close` that waits for the
operations finds nobody at work) and `Swept` (after `Close` has swept, what is
still active is in the hands of the reconnect, which sweeps before it ends) are
invariants beside `OwnInv`. That a reconnect may be in any phase when `Close` comes
is the interesting case of this proof.

The steps are sorted by their effect once (`StepKinds`): a goroutine begins, walks
on or is answered, settles what it did, or only the network moves. The lemmas about
the effect of each kind are what the five invariants of this part are proved from,
instead of five times over thirty actions.

**Sockets on a calm network.** `CalmInv` says that callers work only while no
outage does (`BusyCalm`); that their calls are on the current socket
(`CallsOnCurrent`); that only the current socket can be a lost one, that a reconnect
has no live socket beside it until it publishes one, and that no open socket is
unknown to the `Conn` (`CalmSockets`); and that therefore no call on an open `Conn`
is drained or interrupted (`NoneInterrupted`). `NoStrandedAlways` adds that a `Conn`
without a socket has nothing active (`NoSocketNoActive`) and that no server holds
another subscription under an id that a subscription has or is about to get
(`ServersAgree`); `ClosedLeavesNoOpenSocketAlways` adds that `Close` has shut for
good (`ShutForGood`), since only a caller could dial again. Both theorems are
about instances that are calm altogether. What their invariants need of a step is only
that it keeps outages clear (`KeepsClear`), so that `CalmStrandsNobodyAlways` and
`CalmCloseLeavesNoOpenSocketAlways` state them of the calm behaviours of any instance,
which is what `rta_safety` checks.

### MpsdSessionsProofs

Only `MpsdAssumption` is assumed: any number of callers, sessions, documents,
versions and connection ids, requests that fail at any point, drops of the RTA
connection at any time. One invariant, `Inv`, carries the safety properties and the
action properties `VersionsGrow` and `KeepsNewer`:

* `OperationsOK`: which method or handler can be at which place with which request.
  `update`, `Sync` and `CloseContext` have many callers, and the places they return
  to are told apart only by this.
* `SyncHeld`, `CloseHeld`, `RtaHeld`: who is between taking a mutex and releasing it
  holds it. `RtaHeld` also says that a restorer runs only while somebody reconciles.
* `HandlesOK`, `TableOK`, `CreatorsOK`: a session has a document as soon as it is in
  use; what is in the table is open; and whoever creates a session is alone with it
  until it is bound, so that `createSession` needs none of its mutexes.
* `HistoryOK`: a leave that is under way is the first one. With `CloseHeld` this
  gives `EntersAndLeavesOnce`.
* `VersionsOK`, `SeenOK`: no cache and no answer is ahead of the document, an answer
  is not behind the cache, an event has seen nothing that the answer to its `Sync`
  does not contain. These need `SyncHeld`: of two answers for one session the second
  is requested after the first is stored. Hence `VersionsGrow` and
  `CallbackSeesChange`.
* `ConnectionsOK`, `AdvertisedOK`: connection ids that are in use are not ahead of
  the current one, and a bound session that is alone with its document advertises
  the current one or has a restorer that is not done. With `RtaHeld` this gives
  `NoStaleConnection`.

For each part there are two lemmas, `Progress...` for the steps of a goroutine and
`Start...` for the rest. They rest on what is said once of all actions: where a
goroutine can go next (`ProgressOnward`), that the others stay where they are
(`OwnStep`, `OthersStay`), that the next holder of a mutex found it free
(`LockSteps`, `Exclusive`), and what becomes of the caches, the answers, the documents
and the connection ids (`CacheSteps`, `AnswerSteps`, `ServerSteps`,
`ConnectionSteps`).

### The others

`SisuSessionProofs` assumes only `SessionAssumption`. `RejectedStaysOut` is not
inductive because `Keep` stores a token that was obtained many steps before.
`IInv` adds what a goroutine carries meanwhile: the token it is about to store is
not rejected *or its generation is older than the current one*
(`AcquiredIsAcceptable`), generations only grow and what was rejected stays so
(`CallKnowsItsPast`), `requestXSTS` reuses the authorization for the default
relying party only (`AuthorizeHasCaller`), and a token that is issued next is not
known to anybody (`IssuedBefore`). `Implements` proves `Spec => KeepsPromise`:
`Ask`, `LookHits` and `Keep`, `Fails` and `Accepted`, and `InvalidateXSTSToken`
map to the four actions of `TokenSource`, every other step to stuttering.

`ClientPartsProofs`, about `PresenceClient`: whose request is on its way holds `lifecycleMu`, and an
update belongs to the current lifecycle (`HoldsLifecycle`), because no removal can
advance the version meanwhile; what is shown and remembered is to be cleaned up
(`RememberedIsCleanedUp`), so that a close without a request leaves nothing
behind. Hence `CleanedStaysCleanHolds`.

The same module about `SocialClient`: whoever is in the middle of a method holds
`subscriptionMu` (`HoldsSubscription`), and what it has found there stays so, or
the subscription was lost and a `HandleError` waits for the mutex (`FindsStill`).
Hence `LossIsReportedHolds` and `SubscriptionHasHandlerHolds`.

`XsapiClientProofs`: `ClientImplementsParts` is the refinement `ClientSpec =>
PresenceSpec /\ SocialSpec`: every step of the composed client is a step of the
part or leaves its variables alone. `PartsKeepPromises` carries the three
theorems over. `NoForgottenConnectionHolds` needs `DialsWithoutConn`: while
somebody dials he is the one in `rtaDialing`, at most one does, and `rta` is
empty, so that a new connection never replaces one that is open.

`NsalResolverProofs` assumes `ResolverAssumption`. `NsalInv` consists of `CallOK`
and `SearchOK`, what a call knows at each of its places (no title before its
position has an endpoint for the URL unless some load has failed; an endpoint that
was found is the right one), and `Loaders`, which says that who loads `t` is
`loading[t]`, and that `t` is then neither cached nor known to fail.
`SingleFlightHolds`,
`CancellationStaysPrivateHolds`, `RightRelyingPartyHolds`.

`RtaCallsProofs`: `CallsInv` says that calls are counted (`Counted`), that no
two messages of one operation have the same number, wherever they are
(`Numbered`), that nobody has used the channel of a call whose entry is in the
table or has still to come to it (`Waiting`), and that a reader holds the answer
of the call whose channel it holds (`Readers`). `AnswersOwnCallHolds`,
`SendsToOpenChannelHolds`, `NoEntryIsLeftHolds`.

`ServicesProofs`, about `ReuseSource`: whoever requests a token holds the mutex and
has found the old one expired (`Requesting`); tokens do not become valid again.
`ReplacedWhenExpiredHolds`.

These hold for any number of goroutines, registrations, dials, removals, titles,
calls, sockets and tokens.

### Loops

`TitleMatch`, `Kept` and the sum of the stored blocks are folds (`FoldLeft`), and
`Entries` is a `FlattenSeq`: functions that the community modules define by
recursion. `ServicesProofs` proves what they compute for sequences of any length. The
induction theorems of the library take an operator, which the provers cannot
instantiate, but a set will do: `Induction` and `UpTo` say that a set of positions
with the first and each successor has them all, and follow from `WFMin`, that a set of
numbers has a least element. With these

* `HasMax`: `Max` of a set of positions is what it should be, since it is a `CHOOSE`;
* `StepsExist`: given a function for each position, the intermediate values of a loop
  exist;
* `FoldingExists`: so does the recursive function on sets of positions that
  `MapThenFoldSet` chooses. It is built from `StepsExist`: for a set of positions, take
  those and pass the others over;
* `FoldSteps`: on 1, 1..2, 1..3, ... that function has the values of the loop.

`FoldFinds`, `FoldKept`, `FoldSums` and `FlattenJoins` are the four uses: the
result is the last of the values `t[0], t[1], ...` of a loop. What is to be said of a
loop is then an invariant over its positions:

* `TitleMatchResult`: after i endpoints, what was found is the first FQDN among those
  i that match, and if there is none, the last that matches, and if nothing matches,
  nothing. Nothing is assumed of the endpoints or of the URL. This is what the code
  does; `nsal_precedence` compares it with the doc.
* `ReturnsCollectionHolds`: `Collects(kept, e, m)` says that `kept` has the keys of the
  first m entries of `e`, each at the place of its first occurrence. It is kept by one
  entry (`KeepCollects`), hence by a page (`KeptCollects`), and the entries that were
  sent grow by the page that is read (`EntriesGrow`), so that it is an invariant of
  the loop (`PagingInv`) at every page boundary, not only at the last one.
* `PublishedIsCompleteHolds`: while blocks are uploaded, those that are stored and those
  that `blockCount` counts in what is unread make the announced number, and their
  sizes the announced size (`ImageInv`). A full block less is a block less, a
  smaller rest is one block, and nothing is none (`BlockCounts`).

### What is only model-checked

Every safety property of the passing runs is a theorem. Liveness
(`ReconnectEnds`, `OperationsReturn`, `CloseEndsEverything`, `CallsReturn`) stays with
TLC for good, because fairness and `ENABLED` are beyond the prover, and so do the five
runs that end in a violation. The theorems about `ActiveIsOwned`, `ClosedDeactivates`,
`NoStranded` and `ClosedLeavesNoOpenSocket` name the overlaps that they exclude; each
of these properties is false with some of them.

## 5. What the code does differently from what it says

Each of the first five is a run that TLC ends with a counterexample.

* **`rta_resurrect`** (`rta/reconnect.go:178`). `Unsubscribe` passes the gate
  just before a reconnect starts; the reconnect takes the subscription, which is
  still active. `Unsubscribe` loses its socket, deactivates the subscription and
  returns nil, and then the goroutine that was waiting for `opMu` subscribes
  again. Subscriptions "that are already unsubscribing are left for Unsubscribe
  to finish" (`rta/reconnect.go:36`) is true only at the moment they are taken.
* **`rta_lost_drop`** (`rta/reconnect.go:134`). The new socket drops after the
  last subscription was restored and before the gate opens. Its reader calls
  `startReconnect`, which does nothing because the gate is held, and nobody asks
  again: the connection rests on a dead socket with active subscriptions,
  although "neither a long outage nor a socket that keeps dropping mid-handshake
  ends the attempt" (`rta/reconnect.go:97`).
* **`rta_close_race`** (`rta/conn.go:133`). `Subscribe` activates a subscription
  and tracks it later; `Close` sweeps what is tracked in between. The
  subscription stays active on a closed connection, which
  `rta/conn_test.go:506` rules out for the sequential case and
  `rta/reconnect.go:144` repairs for the reconnect only.
* **`mpsd_leave`** (`mpsd/session.go:164`). `update` releases syncMu when it
  returns, before `CloseContext` closes the session. An update that was waiting
  for syncMu, here the one by which `HandleSubscribe` advertises a new connection
  id, finds the session open and is sent after the leave. `CloseContext`
  "ensures the caller to leave the session" (`mpsd/session.go:97`), but the
  member is back, if the directory takes such a write as a join, and no handle is
  left to remove it.

* **`nsal_precedence`** (`xal/nsal/title.go:195`). The doc of `TitleData.Match`
  concludes that an FQDN "effectively takes precedence over one with
  HostTypeWildcard only if it appears after the wildcard Endpoint in the list"
  (`title.go:175-177`). The loop stops at the first FQDN that matches, so that it takes
  precedence also when the wildcard comes after it; so does `Resolve`, and the token is
  requested for the relying party of the FQDN. The first two sentences of the same
  comment describe what the code does; only the conclusion does not.

Two observations are not runs:

* The doc of `MediaReader.Len` says that it "returns the total size of the media
  content" (`social/profile.go:269`), while the loop of `UploadProfileImage` ends when it
  returns zero: it must return what has not been read, as the `Len` of
  `bytes.Reader` and `bytes.Buffer` does. For the same reason a retry with the reader
  of a failed upload announces and publishes what is left of the image, which after
  a failed publish is nothing.
* `SessionReference.Equal` folds case, while the table of sessions is keyed by the
  reference as a URL (`mpsd/publish.go:173`): references that differ in case only
  can be bound at the same time.

## 6. Plan

Done: all modules of section 2, and the proofs of section 4. Next, in this order:

1. Weaker hypotheses for the theorems about `ActiveIsOwned`, `ClosedDeactivates`,
   `NoStranded` and `ClosedLeavesNoOpenSocket`: more callers beside an outage, as long
   as none of them unsubscribes into a reconnect.
2. Two `sisu.Session`s that were restored from one `Snapshot` and share its map of
   tokens; `TitleToken` and `UserToken` as calls of their own.
3. The dispatch of events and resyncs in `RtaCalls`.
4. The mutex of `nsal.Default`, and the requests that a title load makes in turn
   through `WithoutAuthHeaders`.

### Not modelled

`notification`, the REST calls of `social` other than the image upload, of
`presence` other than updates and removals, and of `mpsd` that change no
session: single requests that keep nothing between two steps. The device flow and
the authorization code of `sisu`: fixed sequences of requests whose result is one
value. The ECDSA signatures of `xal`, request options and JSON types: pure
encodings that no property here tells apart.
