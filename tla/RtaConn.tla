------------------------------- MODULE RtaConn -------------------------------
(***************************************************************************)
(* rta.Conn: one real-time-activity connection shared by any number of     *)
(* goroutines.  Public callers run Subscribe and Unsubscribe, each socket  *)
(* has a reader goroutine, at most one goroutine runs the reconnect loop,  *)
(* the loop starts one goroutine for each subscription it restores, and    *)
(* Close may run at any moment.                                            *)
(*                                                                         *)
(* A step is what the code does between two points where another goroutine *)
(* can observe it: a mutex operation, a channel operation, a read or write *)
(* of the socket, or a callback.  The server is external: it answers a     *)
(* request or not, and gives a subscription an id it does not use on that  *)
(* socket.  Sockets are numbered in the order they are dialed; only the    *)
(* first Lossy of them are ever dropped by the network.                    *)
(***************************************************************************)
EXTENDS Naturals, FiniteSets

CONSTANTS
    Subs,        \* the caller-owned *Subscription objects
    Callers,     \* goroutines of the application that use the Conn
    Ids,         \* subscription ids the server can assign
    MaxSockets,  \* bound: sockets that are ever dialed
    Lossy,       \* bound: sockets 1..Lossy may be dropped by the network
    Workload,    \* operations the application performs
    Overlaps,    \* coincidences of operations and outages that may happen
    NoSub, NoId, Nobody

ASSUME ConstantsAssumption ==
    /\ MaxSockets \in Nat \ {0}
    /\ Lossy \in 0..MaxSockets
    /\ Callers \cap Ids = {}
    /\ NoSub \notin Subs
    /\ NoId \notin Ids
    /\ Nobody \notin Callers \cup Ids

Sockets == 1..MaxSockets
NoSocket == 0

\* resubscribe starts a goroutine for each entry of the map it took: it is
\* named by the key of that entry.
Restorers == Ids
Goroutines == Callers \cup Restorers

VARIABLES
    conn,          \* Conn.conn: the current socket, or NoSocket
    dialed,        \* number of sockets dialed so far
    sock,          \* sock[s]: "unused", "open" or "down"
    reader,        \* reader[s]: where the goroutine running read(s) is
    server,        \* server[s][i]: the subscription the server holds under id i
    active, unsubscribing, id,      \* the fields of each Subscription
    tracked,       \* Conn.subscriptions
    subscriptionOpMu, opMu,         \* who holds Conn.subscriptionOpMu, sub.opMu
    go,            \* go[g]: the operation goroutine g is in the middle of
    waiting,       \* goroutines blocked on the current Conn.reconnectDone
    rec,           \* where runReconnect is; "off" when reconnectDone is nil
    dialedByRec,   \* the socket runReconnect has dialed and not published
    taken,         \* the subscriptions runReconnect took, by their old key
    interrupted,   \* resubscribe's interruptedSubscription
    closing        \* how far Close got; not "open" once Conn.ctx is cancelled

netVars  == <<conn, dialed, sock, reader, server>>
subVars  == <<active, unsubscribing, id, tracked>>
lockVars == <<subscriptionOpMu, opMu>>
recVars  == <<rec, dialedByRec, taken, interrupted>>
vars == <<netVars, subVars, lockVars, go, waiting, recVars, closing>>

-----------------------------------------------------------------------------
(* The state.                                                              *)

Places == {"idle", "wait", "subscriptionOpMu", "opMu", "call", "ensure",
           "write", "await", "handle", "return", "settle"}
Outcomes == {"none", "ok", "refused", "drained", "interrupted", "failed"}

Operation == [at   : Places,
              op   : {"none", "subscribe", "unsubscribe", "cleanup"},
              sub  : Subs \cup {NoSub},
              sock : 0..MaxSockets,
              id   : Ids \cup {NoId},
              out  : Outcomes]

NoOperation == [at |-> "idle", op |-> "none", sub |-> NoSub,
                sock |-> NoSocket, id |-> NoId, out |-> "none"]

TypeOK ==
    /\ conn \in 0..MaxSockets
    /\ dialed \in Sockets
    /\ sock \in [Sockets -> {"unused", "open", "down"}]
    /\ reader \in [Sockets -> {"none", "reading", "failed", "current", "done"}]
    /\ server \in [Sockets -> [Ids -> Subs \cup {NoSub}]]
    /\ active \in [Subs -> BOOLEAN]
    /\ unsubscribing \in [Subs -> BOOLEAN]
    /\ id \in [Subs -> Ids \cup {NoId}]
    /\ tracked \in [Ids -> Subs \cup {NoSub}]
    /\ subscriptionOpMu \in Callers \cup {Nobody}
    /\ opMu \in [Subs -> Goroutines \cup {Nobody}]
    /\ go \in [Goroutines -> Operation]
    /\ waiting \subseteq Callers
    /\ rec \in {"off", "take", "shut", "dial", "publish", "join", "backoff",
                "sweep", "finish"}
    /\ dialedByRec \in 0..MaxSockets
    /\ taken \in [Ids -> Subs \cup {NoSub}]
    /\ interrupted \in BOOLEAN
    /\ closing \in {"open", "cancelled", "shut", "done"}

closed == closing # "open"
reconnecting == rec # "off"

Subscribing == \E p \in Callers : go[p].op \in {"subscribe", "cleanup"}
Unsubscribing == \E p \in Callers : go[p].op = "unsubscribe"

\* A socket was lost and has not been dealt with, or a reconnect runs.
Outage == \/ rec # "off"
          \/ \E s \in Sockets : /\ sock[s] = "down"
                                 /\ reader[s] \notin {"none", "done"}

\* Dial and newConn: socket 1 is open and read, nothing is subscribed.
Init ==
    /\ conn = 1 /\ dialed = 1
    /\ sock = [s \in Sockets |-> IF s = 1 THEN "open" ELSE "unused"]
    /\ reader = [s \in Sockets |-> IF s = 1 THEN "reading" ELSE "none"]
    /\ server = [s \in Sockets |-> [i \in Ids |-> NoSub]]
    /\ active = [s \in Subs |-> FALSE]
    /\ unsubscribing = [s \in Subs |-> FALSE]
    /\ id = [s \in Subs |-> NoId]
    /\ tracked = [i \in Ids |-> NoSub]
    /\ subscriptionOpMu = Nobody
    /\ opMu = [s \in Subs |-> Nobody]
    /\ go = [g \in Goroutines |-> NoOperation]
    /\ waiting = {}
    /\ rec = "off" /\ dialedByRec = NoSocket /\ interrupted = FALSE
    /\ taken = [i \in Ids |-> NoSub]
    /\ closing = "open"

-----------------------------------------------------------------------------
(* Helpers shared by the operations.                                       *)

\* A step of one goroutine that only moves it forward.
OnlyGoChanges ==
    UNCHANGED <<netVars, subVars, lockVars, waiting, recVars, closing>>

Goto(g, place) == go' = [go EXCEPT ![g].at = place]
Return(g, result) == go' = [go EXCEPT ![g].at = "return", ![g].out = result]

\* The caller's public method returns.
Leave(p) == go' = [go EXCEPT ![p] = NoOperation]

\* drainExpected: every call that waits for an answer on socket s wakes up.
Drained(s) ==
    [g \in Goroutines |->
        IF go[g].at = "await" /\ go[g].sock = s /\ go[g].out = "none"
        THEN [go[g] EXCEPT !.out = "drained"] ELSE go[g]]

\* startReconnect: a no-op on a closed Conn or while a reconnect runs.
StartReconnect ==
    rec' = IF ~closed /\ ~reconnecting THEN "take" ELSE rec

\* trackSubscription: the map is keyed by the id the Subscription has now.
Track(s) == tracked' = [tracked EXCEPT ![id[s]] = s]

\* untrackSubscription: whatever is stored under that id is deleted.
Untrack(s) == tracked' = [tracked EXCEPT ![id[s]] = NoSub]

Deactivate(S) ==
    /\ active' = [s \in Subs |-> active[s] /\ s \notin S]
    /\ unsubscribing' = [s \in Subs |-> unsubscribing[s] /\ s \notin S]

\* The socket that the next dial returns is open.
Dialed(s) == /\ dialed < MaxSockets /\ s = dialed + 1
             /\ dialed' = s
             /\ sock' = [sock EXCEPT ![s] = "open"]

\* The local side or the network ends socket s; the server forgets it.
Down(s) == /\ sock' = [sock EXCEPT ![s] = "down"]
           /\ server' = [server EXCEPT ![s] = [i \in Ids |-> NoSub]]

\* Without "idReuse" the server never assigns an id that anyone still knows.
Assignable(s) ==
    { i \in Ids :
        /\ server[s][i] = NoSub
        /\ "idReuse" \in Overlaps \/
             /\ \A t \in Sockets : server[t][i] = NoSub
             /\ \A r \in Subs : id[r] # i
             /\ \A g \in Goroutines : go[g].id # i
             /\ tracked[i] = NoSub /\ taken[i] = NoSub }

\* closeWebSocket.  Its two halves are one step: a call that slips between
\* them is drained just as well by the reader of the socket.
CloseWebSocket ==
    /\ conn' = NoSocket
    /\ IF conn = NoSocket
       THEN UNCHANGED <<sock, server, go>>
       ELSE Down(conn) /\ go' = Drained(conn)
    /\ UNCHANGED <<dialed, reader>>

-----------------------------------------------------------------------------
(* Conn.Subscribe and Conn.Unsubscribe up to the call.                     *)

StartSubscribe(p, s) ==
    /\ "subscribe" \in Workload /\ go[p].at = "idle"
    /\ "closeDuringOperation" \in Overlaps \/ ~closed
    /\ "outageDuringSubscribe" \in Overlaps \/ ~Outage
    /\ go' = [go EXCEPT ![p] = [NoOperation EXCEPT
                  !.at = "subscriptionOpMu", !.op = "subscribe", !.sub = s]]
    /\ OnlyGoChanges

\* Unsubscribe waits for a running reconnect before it takes any lock.
StartUnsubscribe(p, s) ==
    /\ "unsubscribe" \in Workload /\ go[p].at = "idle"
    /\ "closeDuringOperation" \in Overlaps \/ ~closed
    /\ "outageDuringUnsubscribe" \in Overlaps \/ ~Outage
    /\ go' = [go EXCEPT ![p] = [NoOperation EXCEPT
                  !.at = IF reconnecting THEN "wait" ELSE "subscriptionOpMu",
                  !.op = "unsubscribe", !.sub = s]]
    /\ waiting' = IF reconnecting THEN waiting \cup {p} ELSE waiting
    /\ UNCHANGED <<netVars, subVars, lockVars, recVars, closing>>

\* wait: the gate was closed and the Conn is not.
WaitReturns(p) ==
    /\ go[p].at = "wait" /\ p \notin waiting /\ ~closed
    /\ Goto(p, IF go[p].op = "subscribe" THEN "opMu" ELSE "subscriptionOpMu")
    /\ OnlyGoChanges

\* wait: the caller's context expired or the Conn was closed.
WaitFails(p) ==
    /\ go[p].at = "wait"
    /\ waiting' = waiting \ {p}
    /\ IF subscriptionOpMu = p THEN subscriptionOpMu' = Nobody
                               ELSE UNCHANGED subscriptionOpMu
    /\ Leave(p)
    /\ UNCHANGED <<netVars, subVars, opMu, recVars, closing>>

LockSubscriptionOpMu(p) ==
    /\ go[p].at = "subscriptionOpMu" /\ subscriptionOpMu = Nobody
    /\ subscriptionOpMu' = p
    /\ Goto(p, "opMu")
    /\ UNCHANGED <<netVars, subVars, opMu, waiting, recVars, closing>>

\* sub.opMu is free and there is nothing to do: return nil.
NothingToDo(p) ==
    /\ go[p].at = "opMu" /\ opMu[go[p].sub] = Nobody
    /\ active[go[p].sub] <=> go[p].op = "subscribe"
    /\ subscriptionOpMu' = Nobody
    /\ Leave(p)
    /\ UNCHANGED <<netVars, subVars, opMu, waiting, recVars, closing>>

\* Mutant: the handshake does not wait for sub.opMu.
BeginSubscribeWithoutOpMu(g) ==
    /\ go[g].at = "opMu" /\ go[g].op = "subscribe"
    /\ g \in Callers => ~active[go[g].sub]
    /\ opMu' = [opMu EXCEPT ![go[g].sub] = g]
    /\ Goto(g, "call")
    /\ UNCHANGED <<netVars, subVars, subscriptionOpMu, waiting, recVars,
                   closing>>

\* A restoring goroutine does not look at the state of its subscription.
BeginSubscribe(g) ==
    /\ go[g].at = "opMu" /\ go[g].op = "subscribe"
    /\ opMu[go[g].sub] = Nobody
    /\ g \in Callers => ~active[go[g].sub]
    /\ opMu' = [opMu EXCEPT ![go[g].sub] = g]
    /\ Goto(g, "call")
    /\ UNCHANGED <<netVars, subVars, subscriptionOpMu, waiting, recVars,
                   closing>>

BeginUnsubscribe(p) ==
    /\ go[p].at = "opMu" /\ go[p].op = "unsubscribe"
    /\ opMu[go[p].sub] = Nobody /\ active[go[p].sub]
    /\ opMu' = [opMu EXCEPT ![go[p].sub] = p]
    /\ unsubscribing' = [unsubscribing EXCEPT ![go[p].sub] = TRUE]
    /\ go' = [go EXCEPT ![p].at = "call", ![p].id = id[go[p].sub]]
    /\ UNCHANGED <<netVars, active, id, tracked, subscriptionOpMu, waiting,
                   recVars, closing>>

-----------------------------------------------------------------------------
(* Conn.call: a request, and the ways in which its wait ends.              *)

\* The contexts are checked once, before the socket is chosen.
CallStarts(g) ==
    /\ go[g].at = "call" /\ ~closed
    /\ Goto(g, "ensure")
    /\ OnlyGoChanges

EnsureCurrent(g) ==
    /\ go[g].at = "ensure" /\ conn # NoSocket
    /\ go' = [go EXCEPT ![g].at = "write", ![g].sock = conn]
    /\ OnlyGoChanges

\* ensureWebSocket dials under connMu.  A restorer's context derives from
\* Conn.ctx, so its dial fails once the Conn is closed.
EnsureDials(g) ==
    /\ go[g].at = "ensure" /\ conn = NoSocket
    /\ g \in Restorers => ~closed
    /\ \E s \in Sockets :
        /\ Dialed(s)
        /\ conn' = s
        /\ reader' = [reader EXCEPT ![s] = "reading"]
        /\ go' = [go EXCEPT ![g].at = "write", ![g].sock = s]
    /\ UNCHANGED <<server, subVars, lockVars, waiting, recVars, closing>>

\* The caller's context has expired, the Conn was closed, or the dial failed.
CallFails(g) ==
    /\ go[g].at = "call" \/ (go[g].at = "ensure" /\ conn = NoSocket)
    /\ Return(g, "failed")
    /\ OnlyGoChanges

\* expect registers the call and write succeeds.
Write(g) ==
    /\ go[g].at = "write" /\ sock[go[g].sock] = "open"
    /\ Goto(g, "await")
    /\ OnlyGoChanges

\* write fails: release, drain the socket, start a reconnect.  Whether the
\* socket is still the current one is not asked.
WriteFails(g) ==
    /\ go[g].at = "write" /\ sock[go[g].sock] # "open"
    /\ StartReconnect
    /\ go' = [Drained(go[g].sock) EXCEPT ![g].at = "return",
                                          ![g].out = "interrupted"]
    /\ UNCHANGED <<netVars, subVars, lockVars, waiting, dialedByRec, taken,
                   interrupted, closing>>

\* The caller's context (15 seconds for a restorer) or Conn.ctx ends while the
\* call waits, even if the answer is there too: select picks either.  The
\* server may yet have acted on the request.
AwaitFails(g) ==
    /\ go[g].at = "await"
    /\ Return(g, "failed")
    /\ \/ UNCHANGED server
       \/ /\ "lateAnswer" \in Overlaps
          /\ go[g].out = "none" /\ sock[go[g].sock] = "open"
          /\ IF go[g].op = "subscribe"
             THEN \E i \in Assignable(go[g].sock) :
                    server' = [server EXCEPT ![go[g].sock][i] = go[g].sub]
             ELSE server' = [server EXCEPT ![go[g].sock][go[g].id] = NoSub]
    /\ UNCHANGED <<conn, dialed, sock, reader, subVars, lockVars,
                   waiting, recVars, closing>>

\* The wait of a call ends: its socket was lost, the server refused (or the
\* payload cannot be decoded), or an unsubscribe succeeded.
AwaitReturns(g) ==
    /\ go[g].at = "await" /\ go[g].out \in {"drained", "refused", "ok"}
    /\ go[g].out = "ok" => go[g].op # "subscribe"
    /\ Return(g, CASE go[g].out = "drained" -> "interrupted"
                   [] go[g].out = "refused" -> "failed"
                   [] OTHER -> "ok")
    /\ OnlyGoChanges

\* subscribe, first half: activate the subscription with the answer.
AwaitSubscribed(g) ==
    /\ go[g].at = "await" /\ go[g].out = "ok" /\ go[g].op = "subscribe"
    /\ active' = [active EXCEPT ![go[g].sub] = TRUE]
    /\ unsubscribing' = [unsubscribing EXCEPT ![go[g].sub] = FALSE]
    /\ id' = [id EXCEPT ![go[g].sub] = go[g].id]
    /\ Goto(g, "handle")
    /\ UNCHANGED <<netVars, tracked, lockVars, waiting, recVars, closing>>

\* subscribe, second half: HandleSubscribe accepts the subscription.
HandleSubscribe(g) ==
    /\ go[g].at = "handle"
    /\ Return(g, "ok")
    /\ OnlyGoChanges

\* HandleSubscribe fails: unsubscribe the new id, then fail.
HandleSubscribeFails(g) ==
    /\ go[g].at = "handle"
    /\ go' = [go EXCEPT ![g].at = "call", ![g].op = "cleanup",
                        ![g].out = "none"]
    /\ OnlyGoChanges

-----------------------------------------------------------------------------
(* Conn.Subscribe, Conn.Unsubscribe and resubscribe after the call.        *)

\* After a failed HandleSubscribe, subscribe fails whatever the unsubscribe of
\* the new id brought: a joined error is not == errConnectionInterrupted.
Result(g) == IF go[g].op = "cleanup" THEN "failed" ELSE go[g].out

UnlockOpMu(g) ==
    /\ go[g].at = "return" /\ go[g].op # "unsubscribe"
    /\ opMu' = [opMu EXCEPT ![go[g].sub] = Nobody]
    /\ go' = [go EXCEPT ![g].at = "settle", ![g].op = "subscribe",
                        ![g].out = Result(g)]
    /\ UNCHANGED <<netVars, subVars, subscriptionOpMu, waiting, recVars,
                   closing>>

\* Subscribe succeeds: track the subscription and return.
SubscribeReturns(p) ==
    /\ go[p].at = "settle" /\ go[p].out = "ok"
    /\ Track(go[p].sub)
    /\ subscriptionOpMu' = Nobody
    /\ Leave(p)
    /\ UNCHANGED <<netVars, active, unsubscribing, id, opMu, waiting, recVars,
                   closing>>

SubscribeFails(p) ==
    /\ go[p].at = "settle" /\ go[p].out = "failed"
    /\ Deactivate({go[p].sub})
    /\ subscriptionOpMu' = Nobody
    /\ Leave(p)
    /\ UNCHANGED <<netVars, id, tracked, opMu, waiting, recVars, closing>>

\* Subscribe was interrupted: wait for the reconnect, then try again, all the
\* while holding subscriptionOpMu.
SubscribeRetries(p) ==
    /\ go[p].at = "settle" /\ go[p].out = "interrupted"
    /\ go' = [go EXCEPT ![p].at = IF reconnecting THEN "wait" ELSE "opMu",
                        ![p].out = "none", ![p].sock = NoSocket]
    /\ waiting' = IF reconnecting THEN waiting \cup {p} ELSE waiting
    /\ UNCHANGED <<netVars, subVars, lockVars, recVars, closing>>

\* An interrupted unsubscribe counts as done: the server forgot the socket.
UnsubscribeReturns(p) ==
    /\ go[p].at = "return" /\ go[p].op = "unsubscribe"
    /\ go[p].out \in {"ok", "interrupted"}
    /\ Untrack(go[p].sub)
    /\ Deactivate({go[p].sub})
    /\ opMu' = [opMu EXCEPT ![go[p].sub] = Nobody]
    /\ subscriptionOpMu' = Nobody
    /\ Leave(p)
    /\ UNCHANGED <<netVars, id, waiting, recVars, closing>>

UnsubscribeFails(p) ==
    /\ go[p].at = "return" /\ go[p].op = "unsubscribe"
    /\ go[p].out = "failed"
    /\ unsubscribing' = [unsubscribing EXCEPT ![go[p].sub] = FALSE]
    /\ opMu' = [opMu EXCEPT ![go[p].sub] = Nobody]
    /\ subscriptionOpMu' = Nobody
    /\ Leave(p)
    /\ UNCHANGED <<netVars, active, id, tracked, waiting, recVars, closing>>

\* Mutants: the subscription is not tracked, or tracked under its old id.
RestoredUntracked(i) ==
    /\ go[i].at = "settle" /\ go[i].out = "ok"
    /\ Leave(i)
    /\ UNCHANGED <<netVars, subVars, lockVars, waiting, recVars, closing>>

RestoredUnderOldId(i) ==
    /\ go[i].at = "settle" /\ go[i].out = "ok"
    /\ tracked' = [tracked EXCEPT ![i] = go[i].sub]
    /\ Leave(i)
    /\ UNCHANGED <<netVars, active, unsubscribing, id, lockVars, waiting,
                   recVars, closing>>

\* A restorer tracks its subscription again, under its new id.
Restored(i) ==
    /\ go[i].at = "settle" /\ go[i].out = "ok"
    /\ Track(go[i].sub)
    /\ Leave(i)
    /\ UNCHANGED <<netVars, active, unsubscribing, id, lockVars, waiting,
                   recVars, closing>>

\* Mutant: an interrupted restorer waits for the reconnect it is part of.
RestorerWaitsAtGate(i) ==
    /\ go[i].at = "settle" /\ go[i].out = "interrupted"
    /\ Track(go[i].sub)
    /\ interrupted' = TRUE
    /\ Goto(i, "wait") /\ waiting' = waiting \cup {i}
    /\ UNCHANGED <<netVars, active, unsubscribing, id, lockVars, rec,
                   dialedByRec, taken, closing>>

\* A restorer lost its socket: track the subscription under the id it has, so
\* that the next attempt takes it again.
RestoreInterrupted(i) ==
    /\ go[i].at = "settle" /\ go[i].out = "interrupted"
    /\ Track(go[i].sub)
    /\ interrupted' = TRUE
    /\ Leave(i)
    /\ UNCHANGED <<netVars, active, unsubscribing, id, lockVars, waiting, rec,
                   dialedByRec, taken, closing>>

RestoreFails(i) ==
    /\ go[i].at = "settle" /\ go[i].out = "failed"
    /\ Deactivate({go[i].sub})
    /\ Leave(i)
    /\ UNCHANGED <<netVars, id, tracked, lockVars, waiting, recVars, closing>>

-----------------------------------------------------------------------------
(* The reader of a socket, the server and the network.                     *)

Answer(g, result) ==
    /\ go[g].at = "await" /\ go[g].out = "none"
    /\ reader[go[g].sock] = "reading" /\ sock[go[g].sock] = "open"
    /\ UNCHANGED <<conn, dialed, sock, reader, subVars, lockVars,
                   waiting, recVars, closing>>

\* The server accepts a subscribe request and handleMessage delivers the
\* answer to the call it belongs to.
ServeSubscribe(g) ==
    /\ Answer(g, "ok") /\ go[g].op = "subscribe"
    /\ \E i \in Assignable(go[g].sock) :
        /\ server' = [server EXCEPT ![go[g].sock][i] = go[g].sub]
        /\ go' = [go EXCEPT ![g].out = "ok", ![g].id = i]

ServeUnsubscribe(g) ==
    /\ Answer(g, "ok") /\ go[g].op \in {"unsubscribe", "cleanup"}
    /\ server' = [server EXCEPT ![go[g].sock][go[g].id] = NoSub]
    /\ go' = [go EXCEPT ![g].out = "ok"]

ServeRefusal(g) ==
    /\ Answer(g, "refused")
    /\ go' = [go EXCEPT ![g].out = "refused"]
    /\ UNCHANGED server

Drop(s) ==
    /\ s <= Lossy /\ sock[s] = "open"
    /\ "outageDuringSubscribe" \in Overlaps \/ ~Subscribing
    /\ "outageDuringUnsubscribe" \in Overlaps \/ ~Unsubscribing
    /\ "outageDuringReconnect" \in Overlaps \/ ~Outage
    /\ Down(s)
    /\ UNCHANGED <<conn, dialed, reader, subVars, lockVars, go, waiting,
                   recVars, closing>>

\* Mutant: the reader leaves the pending calls of its socket alone.
ReadFailsWithoutDrain(s) ==
    /\ reader[s] = "reading" /\ sock[s] = "down"
    /\ reader' = [reader EXCEPT ![s] = "failed"]
    /\ UNCHANGED <<conn, dialed, sock, server, subVars, lockVars, go, waiting,
                   recVars, closing>>

\* read fails: the pending calls of this socket wake up.
ReadFails(s) ==
    /\ reader[s] = "reading" /\ sock[s] = "down"
    /\ reader' = [reader EXCEPT ![s] = "failed"]
    /\ go' = Drained(s)
    /\ UNCHANGED <<conn, dialed, sock, server, subVars, lockVars,
                   waiting, recVars, closing>>

\* isCurrentConn: a reader whose socket was replaced has nothing to do.
ReaderChecks(s) ==
    /\ reader[s] = "failed"
    /\ reader' = [reader EXCEPT ![s] = IF conn = s THEN "current" ELSE "done"]
    /\ UNCHANGED <<conn, dialed, sock, server, subVars, lockVars, go,
                   waiting, recVars, closing>>

ReaderReconnects(s) ==
    /\ reader[s] = "current"
    /\ reader' = [reader EXCEPT ![s] = "done"]
    /\ StartReconnect
    /\ UNCHANGED <<conn, dialed, sock, server, subVars, lockVars, go,
                   waiting, dialedByRec, taken, interrupted, closing>>

-----------------------------------------------------------------------------
(* runReconnect.                                                           *)

ShouldResubscribe(s) == active[s] /\ ~unsubscribing[s]

\* takeSubscriptionsForReconnect: the whole map is cleared, what should be
\* restored is kept.
Takes == [i \in Ids |-> IF tracked[i] # NoSub /\ ShouldResubscribe(tracked[i])
                        THEN tracked[i] ELSE NoSub]
TakenNow == { Takes[i] : i \in Ids } \ {NoSub}

ReconnectTakes ==
    /\ rec = "take"
    /\ taken' = Takes
    /\ tracked' = [i \in Ids |-> NoSub]
    /\ interrupted' = FALSE
    /\ rec' = IF TakenNow = {} THEN "shut" ELSE "dial"
    /\ UNCHANGED <<netVars, active, unsubscribing, id, lockVars, go, waiting,
                   dialedByRec, closing>>

\* No active subscription remains: close the socket, end the reconnect.
ReconnectShuts ==
    /\ rec = "shut"
    /\ CloseWebSocket
    /\ rec' = "sweep"
    /\ UNCHANGED <<subVars, lockVars, waiting, dialedByRec, taken, interrupted,
                   closing>>

\* dialer.reconnect retries for as long as the Conn is open.
ReconnectDials ==
    /\ rec = "dial"
    /\ \E s \in Sockets : Dialed(s) /\ dialedByRec' = s
    /\ rec' = "publish"
    /\ UNCHANGED <<conn, reader, server, subVars, lockVars, go, waiting,
                   taken, interrupted, closing>>

Held == { taken[i] : i \in Ids } \ {NoSub}

\* Mutant: the dial loop does not look at Conn.ctx.
AbandonsAfterDial ==
    /\ rec = "publish" /\ closed
    /\ Down(dialedByRec)
    /\ dialedByRec' = NoSocket
    /\ Deactivate(Held)
    /\ taken' = [i \in Ids |-> NoSub]
    /\ rec' = "sweep"
    /\ UNCHANGED <<conn, dialed, reader, id, tracked, lockVars, go, waiting,
                   interrupted, closing>>

\* The Conn was closed meanwhile: deactivateAll, and close a new socket.
ReconnectAbandons ==
    /\ rec \in {"dial", "publish"} /\ closed
    /\ IF dialedByRec # NoSocket THEN Down(dialedByRec)
                                 ELSE UNCHANGED <<sock, server>>
    /\ dialedByRec' = NoSocket
    /\ Deactivate(Held)
    /\ taken' = [i \in Ids |-> NoSub]
    /\ rec' = "sweep"
    /\ UNCHANGED <<conn, dialed, reader, id, tracked, lockVars, go,
                   waiting, interrupted, closing>>

StartRestorers ==
    [g \in Goroutines |->
        IF g \in Ids /\ taken[g] # NoSub
        THEN [NoOperation EXCEPT !.at = "opMu", !.op = "subscribe",
                                 !.sub = taken[g]]
        ELSE go[g]]

\* Mutant: the socket is published without a look at Conn.ctx.
PublishesUnchecked ==
    /\ rec = "publish"
    /\ conn' = dialedByRec
    /\ reader' = [reader EXCEPT ![dialedByRec] = "reading"]
    /\ dialedByRec' = NoSocket
    /\ go' = StartRestorers
    /\ rec' = "join"
    /\ UNCHANGED <<dialed, sock, server, subVars, lockVars, waiting, taken,
                   interrupted, closing>>

\* Publish the socket under connMu, start its reader, and start a goroutine
\* for each subscription that was taken.
ReconnectPublishes ==
    /\ rec = "publish" /\ ~closed
    /\ conn' = dialedByRec
    /\ reader' = [reader EXCEPT ![dialedByRec] = "reading"]
    /\ dialedByRec' = NoSocket
    /\ go' = StartRestorers
    /\ rec' = "join"
    /\ UNCHANGED <<dialed, sock, server, subVars, lockVars, waiting,
                   taken, interrupted, closing>>

\* wg.Wait: every restorer is through.
ReconnectJoins ==
    /\ rec = "join" /\ \A i \in Restorers : go[i].at = "idle"
    /\ taken' = [i \in Ids |-> NoSub]
    /\ rec' = IF interrupted THEN "backoff" ELSE "sweep"
    /\ UNCHANGED <<netVars, subVars, lockVars, go, waiting, dialedByRec,
                   interrupted, closing>>

\* The retry loop sleeps; a closed Conn ends it.
ReconnectRetries ==
    /\ rec = "backoff"
    /\ rec' = IF closed THEN "sweep" ELSE "take"
    /\ UNCHANGED <<netVars, subVars, lockVars, go, waiting, dialedByRec, taken,
                   interrupted, closing>>

\* Mutant: nothing is deactivated after the retry loop.
EndsUnswept ==
    /\ rec = "sweep"
    /\ rec' = "finish"
    /\ UNCHANGED <<netVars, subVars, lockVars, go, waiting, dialedByRec, taken,
                   interrupted, closing>>

\* Close may have swept before a restorer tracked its subscription.
ReconnectSweeps ==
    /\ rec = "sweep"
    /\ IF closed
       THEN /\ Deactivate(TakenNow)
            /\ tracked' = [i \in Ids |-> NoSub]
       ELSE UNCHANGED <<active, unsubscribing, tracked>>
    /\ rec' = "finish"
    /\ UNCHANGED <<netVars, id, lockVars, go, waiting, dialedByRec, taken,
                   interrupted, closing>>

\* Mutant: the gate is removed but its channel is not closed.
FinishesWithoutWaking ==
    /\ rec = "finish"
    /\ rec' = "off" /\ interrupted' = FALSE
    /\ UNCHANGED <<netVars, subVars, lockVars, go, waiting, dialedByRec, taken,
                   closing>>

\* finishReconnect: the gate is removed and its waiters wake up.
ReconnectFinishes ==
    /\ rec = "finish"
    /\ rec' = "off" /\ interrupted' = FALSE
    /\ waiting' = {}
    /\ UNCHANGED <<netVars, subVars, lockVars, go, dialedByRec, taken, closing>>

-----------------------------------------------------------------------------
(* Conn.Close.                                                             *)

CloseCancels ==
    /\ "close" \in Workload /\ closing = "open"
    /\ "closeDuringOperation" \in Overlaps
         \/ ~(Subscribing \/ Unsubscribing)
    /\ closing' = "cancelled"
    /\ UNCHANGED <<netVars, subVars, lockVars, go, waiting, recVars>>

CloseShuts ==
    /\ closing = "cancelled"
    /\ closing' = "shut"
    /\ CloseWebSocket
    /\ UNCHANGED <<subVars, lockVars, waiting, recVars>>

CloseSweeps ==
    /\ closing = "shut"
    /\ closing' = "done"
    /\ Deactivate({ tracked[i] : i \in Ids })
    /\ UNCHANGED <<netVars, id, tracked, lockVars, go, waiting, recVars>>

-----------------------------------------------------------------------------

PublicSteps(p) ==
    \/ WaitReturns(p) \/ LockSubscriptionOpMu(p) \/ NothingToDo(p)
    \/ BeginUnsubscribe(p)
    \/ SubscribeReturns(p) \/ SubscribeFails(p) \/ SubscribeRetries(p)
    \/ UnsubscribeReturns(p) \/ UnsubscribeFails(p)

CallSteps(g) ==
    \/ BeginSubscribe(g)
    \/ CallStarts(g) \/ EnsureCurrent(g) \/ EnsureDials(g)
    \/ Write(g) \/ WriteFails(g)
    \/ AwaitReturns(g) \/ AwaitSubscribed(g) \/ HandleSubscribe(g)
    \/ UnlockOpMu(g)

RestorerSteps(i) == Restored(i) \/ RestoreInterrupted(i) \/ RestoreFails(i)

ReaderSteps(s) ==
    ReadFails(s) \/ ReaderChecks(s) \/ ReaderReconnects(s)

ReconnectSteps ==
    \/ ReconnectTakes \/ ReconnectShuts \/ ReconnectDials \/ ReconnectAbandons
    \/ ReconnectPublishes \/ ReconnectJoins \/ ReconnectRetries
    \/ ReconnectSweeps \/ ReconnectFinishes

CloseSteps == CloseShuts \/ CloseSweeps

\* Nothing is in progress and nothing is about to start by itself.
Quiescent ==
    /\ \A g \in Goroutines : go[g].at = "idle"
    /\ rec = "off"
    /\ closing \in {"open", "done"}
    /\ \A s \in Sockets :
        \/ reader[s] = "none" /\ sock[s] # "open"
        \/ reader[s] = "done"
        \/ reader[s] = "reading" /\ sock[s] = "open"

\* An idle Conn may stay idle.
Rest == Quiescent /\ UNCHANGED vars

Next ==
    \/ \E p \in Callers, s \in Subs : StartSubscribe(p, s)
                                      \/ StartUnsubscribe(p, s)
    \/ \E p \in Callers : PublicSteps(p) \/ WaitFails(p)
    \/ \E g \in Goroutines :
        \/ CallSteps(g)
        \/ CallFails(g) \/ AwaitFails(g)
        \/ HandleSubscribeFails(g)
        \/ ServeSubscribe(g) \/ ServeUnsubscribe(g) \/ ServeRefusal(g)
    \/ \E i \in Restorers : RestorerSteps(i)
    \/ \E s \in Sockets : ReaderSteps(s) \/ Drop(s)
    \/ ReconnectSteps
    \/ CloseCancels \/ CloseSteps
    \/ Rest

Spec == Init /\ [][Next]_vars

\* What goroutine g does by itself, and with the answer the server owes it.
\* A closed Conn ends its waits; expiring contexts are never owed to anyone.
Progress(g) ==
    \/ CallSteps(g) \/ CallFails(g) \/ HandleSubscribeFails(g)
    \/ ServeSubscribe(g) \/ ServeUnsubscribe(g) \/ ServeRefusal(g)
    \/ closed /\ AwaitFails(g)

\* Every goroutine is scheduled (strongly where it waits for a mutex: Go's do
\* not starve a waiter), and the server answers every request that reaches it.
\* Nothing obliges the application to start an operation, or the network to
\* drop a socket.
Fairness ==
    /\ \A p \in Callers :
         SF_vars(PublicSteps(p) \/ Progress(p) \/ (closed /\ WaitFails(p)))
    /\ \A i \in Restorers : SF_vars(RestorerSteps(i) \/ Progress(i))
    /\ \A s \in Sockets : WF_vars(ReaderSteps(s))
    /\ WF_vars(ReconnectSteps \/ CloseSteps)

FairSpec == Spec /\ Fairness

-----------------------------------------------------------------------------
(* Properties.                                                             *)

\* A call that waits for an answer waits on a socket that is being read, or
\* has been woken: no goroutine waits for an answer nobody will deliver
\* (drainExpected in read, write and closeWebSocket).
NoOrphanCall ==
    \A g \in Goroutines :
        go[g].at = "await" /\ go[g].out = "none"
            => reader[go[g].sock] = "reading"

InHandshake(g) == go[g].at \in {"call", "ensure", "write", "await", "handle",
                                "return"}

\* Two goroutines are never in the middle of a handshake for the same
\* Subscription, whether public operations or the reconnect run them.
OneHandshake ==
    \A g, h \in Goroutines :
        InHandshake(g) /\ InHandshake(h) /\ go[g].sub = go[h].sub => g = h

\* An active subscription is never orphaned: it is tracked, held by the
\* reconnect, or in the hands of an operation that will settle it.
ActiveIsOwned ==
    \A s \in Subs :
        active[s] => \/ \E i \in Ids : tracked[i] = s \/ taken[i] = s
                     \/ \E g \in Goroutines : /\ go[g].sub = s
                                               /\ go[g].at # "idle"

\* When an open Conn is at rest, every active subscription is in place to
\* receive its events: the current socket is alive and the subscription is
\* tracked under an id that the server has not given to another one there.  (The
\* server may have dropped it: an Unsubscribe that timed out leaves it active.)
NoStranded ==
    Quiescent /\ ~closed =>
        \A s \in Subs :
            active[s] => /\ conn # NoSocket /\ sock[conn] = "open"
                         /\ server[conn][id[s]] \in {s, NoSub}
                         /\ tracked[id[s]] = s

\* When a closed Conn is at rest, no subscription is active.
ClosedDeactivates ==
    Quiescent /\ closed => \A s \in Subs : ~active[s]

\* When a closed Conn is at rest, no socket is open.
ClosedLeavesNoOpenSocket ==
    Quiescent /\ closed => /\ conn = NoSocket
                           /\ \A s \in Sockets : sock[s] # "open"

\* Only a public Subscribe makes an inactive subscription active: a reconnect
\* restores what is active and resurrects nothing.
OnlySubscribeActivates ==
    [][\A s \in Subs : ~active[s] /\ active'[s] =>
          \E p \in Callers : go[p].op = "subscribe" /\ go[p].sub = s]_vars

\* The network refuses every dial from now on (the bound on sockets).
Starved == rec = "dial" /\ dialed = MaxSockets

\* Every reconnect ends, and with it the gate that Unsubscribe and interrupted
\* Subscribes wait at, unless the network never accepts a socket again.
ReconnectEnds == reconnecting ~> (~reconnecting \/ Starved)

\* Every public operation returns, whatever sockets it loses on the way: the
\* locks it waits for are released and its call is answered or woken.
OperationsReturn ==
    \A p \in Callers : go[p].at # "idle" ~> (go[p].at = "idle" \/ Starved)

\* Close ends everything that is in progress: calls, waits and the reconnect.
CloseEndsEverything == closed ~> Quiescent
=============================================================================
