---------------------------- MODULE MpsdSessions ----------------------------
(***************************************************************************)
(* mpsd.Client and its Sessions: handles to documents of the session       *)
(* directory, each with a cached copy.  Users publish, join, update, sync  *)
(* and close them, events of the RTA subscription sync them, and whenever  *)
(* RTA hands out a new connection id, every bound Session advertises it.   *)
(*                                                                         *)
(* A document is its version (the E-Tag) and the connection that the local *)
(* user's member advertises.  rta.Conn appears as the subscription it      *)
(* keeps: handshakes, a lost connection that is restored or given up.      *)
(* RtaConn says how it gets there.  cacheMu, sessionsMu and hMu are held   *)
(* within a step only.  A request takes effect before its sender stops     *)
(* waiting for it, or never.                                               *)
(***************************************************************************)
EXTENDS Naturals, FiniteSets

CONSTANTS
    Callers,          \* goroutines of the application
    Handles,          \* the Session values that Publish and Join return
    Refs,             \* documents of the directory
    MaxVersion,       \* bound: versions of a document
    MaxConnections,   \* bound: connection ids that RTA hands out
    Workload,         \* what the instance does
    Rta,              \* the goroutine that restores the subscription
    Nobody, NoHandle, NoRef

joinMaxAttempts == 3

\* HandleSubscribe, HandleError and HandleEvent start one goroutine per
\* Session; at most one of each kind at a time is modelled.
Restorer(h) == <<"restore", h>>
Closer(h)   == <<"lost", h>>
Tapper(h)   == <<"tap", h>>
Handlers == {"restore", "lost", "tap"} \X Handles
Goroutines == Callers \cup {Rta} \cup Handlers

\* A goroutine of the application is none of those that the client starts.
ASSUME MpsdAssumption ==
    /\ MaxVersion \in Nat \ {0} /\ MaxConnections \in Nat
    /\ NoHandle \notin Handles /\ NoRef \notin Refs
    /\ Rta \notin Callers /\ Nobody \notin Goroutines
    /\ (Callers \cup {Rta}) \cap Handlers = {}

VARIABLES
    server,       \* the directory's documents
    ref,          \* Session.ref
    cache, etag,  \* Session.cache, Session.etag
    closed,       \* Session.closed
    closeMu, syncMu,     \* Session.closeMu, Session.syncMu: who holds them
    owned,        \* owned[h]: how far Publish or Join has got with h
    sessions,     \* Client.sessions
    writer, readers,     \* Client.reconcileMu
    subscribeMu,  \* Client.subscribeMu
    data,         \* Client.subscriptionData: its ConnectionID
    active, opMu, \* rta.Subscription.active and opMu
    connections,  \* connection ids handed out so far
    lost,         \* a HandleError has been started and has not run
    go,           \* go[g]: what goroutine g is in the middle of
    left, joined  \* history: leaves and joins of h that took effect

sessionVars == <<ref, cache, etag, closed, owned, sessions>>
lockVars    == <<closeMu, syncMu, writer, readers, subscribeMu>>
rtaVars     == <<data, active, opMu, connections, lost>>
history     == <<left, joined>>
vars == <<server, sessionVars, lockVars, rtaVars, go, history>>

-----------------------------------------------------------------------------

Versions == 0..MaxVersion
NoConnection == 0
Connections == NoConnection..MaxConnections
Document == [version : Versions, connection : Connections]
Empty == [version |-> 0, connection |-> NoConnection]

Operations == {"none", "publish", "join", "set", "sync", "close", "restore",
               "discard", "lost", "tap"}
Requests == {"none", "put", "custom", "connect", "leave", "get"}
Places == {"idle", "subscribe", "rta", "handshake", "handle", "restoring",
           "reconcile", "connect", "update", "sent", "answered", "activity",
           "markDeleted", "close", "closeLocked", "clearLocked", "force",
           "read", "sync", "syncLocked", "dropped", "callback"}

\* match is the If-Match of a join (0 is "*"), seen the version of the
\* document when the event came in.
Operation ==
    [at : Places, op : Operations, h : Handles \cup {NoHandle},
     req : Requests, connection : Connections, match : Versions,
     attempt : 1..joinMaxAttempts, seen : Versions,
     status : {"none", "ok", "deleted", "same", "conflict"},
     body : Document]

Idle == [at |-> "idle", op |-> "none", h |-> NoHandle, req |-> "none",
         connection |-> NoConnection, match |-> 0, attempt |-> 1, seen |-> 0,
         status |-> "none", body |-> Empty]

TypeOK ==
    /\ server \in [Refs -> [alive : BOOLEAN, version : Versions,
                            connection : Connections]]
    /\ ref \in [Handles -> Refs \cup {NoRef}]
    /\ cache \in [Handles -> Document] /\ etag \in [Handles -> Versions]
    /\ closed \in [Handles -> BOOLEAN]
    /\ owned \in [Handles -> {"unused", "creating", "returned", "failed"}]
    /\ sessions \in [Refs -> Handles \cup {NoHandle}]
    /\ closeMu \in [Handles -> Goroutines \cup {Nobody}]
    /\ syncMu \in [Handles -> Goroutines \cup {Nobody}]
    /\ writer \in Goroutines \cup {Nobody} /\ readers \subseteq Goroutines
    /\ subscribeMu \in Goroutines \cup {Nobody}
    /\ opMu \in Goroutines \cup {Nobody}
    /\ data \in Connections /\ connections \in Connections
    /\ active \in BOOLEAN /\ lost \in BOOLEAN
    /\ go \in [Goroutines -> Operation]
    /\ left \in [Handles -> Nat] /\ joined \in [Handles -> Nat]

\* Mutant: New makes no map of sessions.
InitWithNilMap ==
    /\ server \in [Refs -> {[alive |-> up, version |-> 1,
                             connection |-> NoConnection] : up \in BOOLEAN}]
    /\ ref = [h \in Handles |-> NoRef]
    /\ cache = [h \in Handles |-> Empty] /\ etag = [h \in Handles |-> 0]
    /\ closed = [h \in Handles |-> FALSE]
    /\ owned = [h \in Handles |-> "unused"]
    /\ sessions = [r \in {} |-> NoHandle]
    /\ closeMu = [h \in Handles |-> Nobody]
    /\ syncMu = [h \in Handles |-> Nobody]
    /\ writer = Nobody /\ readers = {} /\ subscribeMu = Nobody
    /\ opMu = Nobody /\ data = NoConnection /\ connections = NoConnection
    /\ active = FALSE /\ lost = FALSE
    /\ go = [g \in Goroutines |-> Idle]
    /\ left = [h \in Handles |-> 0] /\ joined = [h \in Handles |-> 0]

\* A Client that New has returned.
Init ==
    /\ server \in [Refs -> {[alive |-> up, version |-> 1,
                             connection |-> NoConnection] : up \in BOOLEAN}]
    /\ ref = [h \in Handles |-> NoRef]
    /\ cache = [h \in Handles |-> Empty] /\ etag = [h \in Handles |-> 0]
    /\ closed = [h \in Handles |-> FALSE]
    /\ owned = [h \in Handles |-> "unused"]
    /\ sessions = [r \in Refs |-> NoHandle]
    /\ closeMu = [h \in Handles |-> Nobody]
    /\ syncMu = [h \in Handles |-> Nobody]
    /\ writer = Nobody /\ readers = {} /\ subscribeMu = Nobody
    /\ opMu = Nobody /\ data = NoConnection /\ connections = NoConnection
    /\ active = FALSE /\ lost = FALSE
    /\ go = [g \in Goroutines |-> Idle]
    /\ left = [h \in Handles |-> 0] /\ joined = [h \in Handles |-> 0]

Goto(g, place) == go' = [go EXCEPT ![g].at = place]
Done(g) == go' = [go EXCEPT ![g] = Idle]

\* sessionSnapshot
Bound == {sessions[r] : r \in Refs} \ {NoHandle}

\* Mutant: whatever is stored under the reference is deleted.
ReleaseAny(h) ==
    /\ sessions' = [sessions EXCEPT ![ref[h]] = NoHandle]
    /\ closed' = [closed EXCEPT ![h] = TRUE]

\* handleSessionClose and the close of Session.closed.
Release(h) ==
    /\ sessions' = [sessions EXCEPT ![ref[h]] = IF @ = h THEN NoHandle ELSE @]
    /\ closed' = [closed EXCEPT ![h] = TRUE]

ClearCache(h) == /\ cache' = [cache EXCEPT ![h] = Empty]
                 /\ etag' = [etag EXCEPT ![h] = 0]

Unlocked(mu, h, g) == [mu EXCEPT ![h] = IF @ = g THEN Nobody ELSE @]

Creating(g) == go[g].op \in {"publish", "join"}
Without(set, g) == set \ {g}
Freed(holder, g) == IF holder = g THEN Nobody ELSE holder

\* What Publish and Join hand to their caller.
Gives(g, result) ==
    owned' = IF Creating(g) THEN [owned EXCEPT ![go[g].h] = result] ELSE owned

-----------------------------------------------------------------------------
(* Requests.  Every PUT and GET of a Session holds its syncMu from before  *)
(* it is sent until its answer is in the cache.                            *)

\* Mutant: update does not take syncMu.
UpdateUnserialized(g) ==
    /\ go[g].at = "update" /\ ~closed[go[g].h]
    /\ Goto(g, "sent")
    /\ UNCHANGED <<server, sessionVars, lockVars, rtaVars, history>>

\* Session.update gets syncMu and finds the Session open.
UpdateLocks(g) ==
    /\ go[g].at = "update" /\ syncMu[go[g].h] = Nobody /\ ~closed[go[g].h]
    /\ syncMu' = [syncMu EXCEPT ![go[g].h] = g]
    /\ Goto(g, "sent")
    /\ UNCHANGED <<server, sessionVars, closeMu, writer, readers, subscribeMu,
                   rtaVars, history>>

Answered(g, status, body) ==
    go' = [go EXCEPT ![g].at = "answered", ![g].status = status,
                     ![g].body = body]

Write(r, connection) ==
    /\ server[r].version < MaxVersion
    /\ server' = [server EXCEPT ![r] =
          [alive |-> TRUE, version |-> @.version + 1,
           connection |-> connection]]

\* The directory applies an update with If-Match "*" to a document that
\* exists, or deletes the document as a result.
DeliverUpdate(g) ==
    LET r == ref[go[g].h]
        connection == CASE go[g].req = "connect" -> go[g].connection
                        [] go[g].req = "leave" -> NoConnection
                        [] OTHER -> server[r].connection
    IN  /\ go[g].at = "sent" /\ go[g].req \in {"custom", "connect", "leave"}
        /\ server[r].alive
        /\ \/ /\ Write(r, connection)
              /\ Answered(g, "ok", [version |-> server'[r].version,
                                    connection |-> connection])
           \/ /\ server' = [server EXCEPT ![r].alive = FALSE,
                                          ![r].connection = NoConnection]
              /\ Answered(g, "deleted", Empty)
        /\ UNCHANGED <<sessionVars, lockVars, rtaVars, history>>

\* Publish creates a document, Join adds the member to one that exists.  The
\* directory refuses a join whose If-Match is outdated, and may refuse one
\* that races another write; either way it says which version is current.
DeliverPut(g) ==
    LET r == ref[go[g].h]
        fits == go[g].match \in {0, server[r].version}
    IN  /\ go[g].at = "sent" /\ go[g].req = "put"
        /\ \/ /\ server[r].alive <=> go[g].op = "join"
              /\ go[g].op = "join" => fits
              /\ Write(r, go[g].connection)
              /\ Answered(g, "ok", [version |-> server'[r].version,
                                    connection |-> go[g].connection])
              /\ joined' = [joined EXCEPT ![go[g].h] = @ + 1]
           \/ /\ go[g].op = "join" /\ server[r].alive
              /\ fits => go[g].match = 0
              /\ \E version \in {0, server[r].version} :
                    Answered(g, "conflict",
                             [Empty EXCEPT !.version = version])
              /\ UNCHANGED <<server, joined>>
        /\ UNCHANGED <<sessionVars, lockVars, rtaVars, left>>

\* The conditional GET of Sync.
DeliverGet(g) ==
    LET document == server[ref[go[g].h]]
    IN  /\ go[g].at = "sent" /\ go[g].req = "get"
        /\ \/ ~document.alive /\ Answered(g, "deleted", Empty)
           \/ /\ document.alive /\ document.version = etag[go[g].h]
              /\ Answered(g, "same", Empty)
           \/ /\ document.alive /\ document.version # etag[go[g].h]
              /\ Answered(g, "ok", [version |-> document.version,
                                    connection |-> document.connection])
        /\ UNCHANGED <<server, sessionVars, lockVars, rtaVars, history>>

\* Session.sync, or the first decoding by createSession.  The answer may lack
\* its ETag.
Store(g) ==
    /\ cache' = [cache EXCEPT ![go[g].h] = go[g].body]
    /\ etag' \in {etag, [etag EXCEPT ![go[g].h] = go[g].body.version]}

\* A request succeeds: the cache is refreshed and syncMu released.
ReceiveOk(g) ==
    LET o == go[g]
    IN  /\ o.at = "answered" /\ o.status = "ok"
        /\ Store(g)
        /\ syncMu' = Unlocked(syncMu, o.h, g)
        /\ closeMu' = IF o.req = "get" THEN Unlocked(closeMu, o.h, g)
                                       ELSE closeMu
        /\ writer' = Freed(writer, g)
        /\ readers' = IF o.req = "get" THEN Without(readers, g) ELSE readers
        /\ IF o.req = "connect" THEN Gives(g, "returned") ELSE UNCHANGED owned
        /\ go' = [go EXCEPT ![g] =
              CASE o.req = "put" -> [o EXCEPT !.at = "activity"]
                [] o.req = "leave" -> [o EXCEPT !.at = "closeLocked"]
                [] o.op = "tap" -> [o EXCEPT !.at = "callback"]
                [] OTHER -> Idle]
        /\ UNCHANGED <<server, ref, closed, sessions, subscribeMu, rtaVars,
                       history>>

\* 304: there is nothing newer.
ReceiveSame(g) ==
    LET o == go[g]
    IN  /\ o.at = "answered" /\ o.status = "same"
        /\ syncMu' = Unlocked(syncMu, o.h, g)
        /\ closeMu' = Unlocked(closeMu, o.h, g)
        /\ readers' = Without(readers, g)
        /\ IF o.op = "tap" THEN Goto(g, "callback") ELSE Done(g)
        /\ UNCHANGED <<server, sessionVars, writer, subscribeMu, rtaVars,
                       history>>

\* Mutant: update still holds syncMu while its caller waits for closeMu.
DeletedHoldingSyncMu(g) ==
    /\ go[g].at = "answered" /\ go[g].status = "deleted" /\ go[g].req # "get"
    /\ Goto(g, IF go[g].req = "leave" THEN "clearLocked" ELSE "markDeleted")
    /\ UNCHANGED <<server, sessionVars, lockVars, rtaVars, history>>

\* 204 to an update: the caller of update finalizes the Session, after
\* update has released syncMu.
ReceiveDeleted(g) ==
    LET o == go[g]
    IN  /\ o.at = "answered" /\ o.status = "deleted" /\ o.req # "get"
        /\ syncMu' = Unlocked(syncMu, o.h, g)
        /\ Goto(g, IF o.req = "leave" THEN "clearLocked" ELSE "markDeleted")
        /\ UNCHANGED <<server, sessionVars, closeMu, writer, readers,
                       subscribeMu, rtaVars, history>>

\* 204 or 404 to a GET: Sync still holds both mutexes.
ReceiveMissing(g) ==
    LET o == go[g]
    IN  /\ o.at = "answered" /\ o.status = "deleted" /\ o.req = "get"
        /\ ClearCache(o.h) /\ Release(o.h)
        /\ syncMu' = Unlocked(syncMu, o.h, g)
        /\ closeMu' = Unlocked(closeMu, o.h, g)
        /\ readers' = Without(readers, g)
        /\ Done(g)
        /\ UNCHANGED <<server, ref, owned, writer, subscribeMu, rtaVars,
                       history>>

\* Mutant: Join tries again when the answer got lost, too.
JoinRetriesAlways(g) ==
    /\ go[g].at = "answered" /\ go[g].req = "put"
    /\ go[g].attempt < joinMaxAttempts
    /\ go' = [go EXCEPT ![g].at = "sent", ![g].status = "none",
                        ![g].attempt = @ + 1, ![g].body = Empty]
    /\ UNCHANGED <<server, sessionVars, lockVars, rtaVars, history>>

\* Join tries again with the version it was told.
JoinRetries(g) ==
    /\ go[g].at = "answered" /\ go[g].status = "conflict"
    /\ go[g].attempt < joinMaxAttempts
    /\ go' = [go EXCEPT ![g].at = "sent", ![g].status = "none",
                        ![g].attempt = @ + 1,
                        ![g].match = go[g].body.version,
                        ![g].body = Empty]
    /\ UNCHANGED <<server, sessionVars, lockVars, rtaVars, history>>

\* An error is returned through update, Sync or the request of Publish and
\* Join.  A Session whose connection could not be written is closed, and one
\* that a handler fails to close is closed locally.
ReturnsError(g, isErrClosed) ==
    LET o == go[g]
    IN  /\ syncMu' = Unlocked(syncMu, o.h, g)
        /\ closeMu' = IF o.req \in {"leave", "get"}
                      THEN Unlocked(closeMu, o.h, g) ELSE closeMu
        /\ writer' = Freed(writer, g)
        /\ readers' = IF o.op = "lost" THEN readers ELSE Without(readers, g)
        /\ Gives(g, "failed")
        /\ go' = [go EXCEPT ![g] =
              CASE o.req = "connect" /\ ~(isErrClosed /\ o.op = "restore") ->
                       [Idle EXCEPT !.at = "close", !.op = "discard", !.h = o.h]
                [] o.req = "leave" /\ o.op # "close" ->
                       [o EXCEPT !.at = "force"]
                [] OTHER -> Idle]

\* Mutant: the E-Tag is stored before the body is decoded.
FailsWithNewETag(g) ==
    /\ go[g].at \in {"sent", "answered"}
    /\ ReturnsError(g, FALSE)
    /\ etag' = IF go[g].status = "ok" /\ go[g].req # "put"
               THEN [etag EXCEPT ![go[g].h] = go[g].body.version] ELSE etag
    /\ UNCHANGED <<server, ref, cache, closed, sessions, subscribeMu, rtaVars,
                   history>>

\* The request does not get through, is refused, its answer is lost or
\* cannot be decoded, or the context ends.
Fails(g) ==
    /\ go[g].at \in {"sent", "answered"}
    /\ ReturnsError(g, FALSE)
    /\ UNCHANGED <<server, ref, cache, etag, closed, sessions, subscribeMu,
                   rtaVars, history>>

\* net.ErrClosed.
UpdateFindsClosed(g) ==
    /\ go[g].at \in {"update", "syncLocked"}
    /\ syncMu[go[g].h] = Nobody /\ closed[go[g].h]
    /\ ReturnsError(g, TRUE)
    /\ UNCHANGED <<server, ref, cache, etag, closed, sessions, subscribeMu,
                   rtaVars, history>>

-----------------------------------------------------------------------------
(* Sync, Close and the end of a Session.                                   *)

SyncLocks(g) ==
    /\ go[g].at = "sync" /\ closeMu[go[g].h] = Nobody
    /\ closeMu' = [closeMu EXCEPT ![go[g].h] = g]
    /\ go' = [go EXCEPT ![g].at = "syncLocked", ![g].req = "get"]
    /\ UNCHANGED <<server, sessionVars, syncMu, writer, readers, subscribeMu,
                   rtaVars, history>>

SyncSends(g) ==
    /\ go[g].at = "syncLocked" /\ syncMu[go[g].h] = Nobody /\ ~closed[go[g].h]
    /\ syncMu' = [syncMu EXCEPT ![go[g].h] = g]
    /\ Goto(g, "sent")
    /\ UNCHANGED <<server, sessionVars, closeMu, writer, readers, subscribeMu,
                   rtaVars, history>>

\* CloseContext of a Session that is closed does nothing.
CloseReturns(g) ==
    /\ go[g].at = "close" /\ closeMu[go[g].h] = Nobody /\ closed[go[g].h]
    /\ readers' = Without(readers, g)
    /\ Done(g)
    /\ UNCHANGED <<server, sessionVars, closeMu, syncMu, writer, subscribeMu,
                   rtaVars, history>>

\* Mutant: the close does not take closeMu.
CloseUnserialized(g) ==
    /\ go[g].at = "close" /\ ~closed[go[g].h]
    /\ go' = [go EXCEPT ![g].at = "update", ![g].req = "leave"]
    /\ UNCHANGED <<server, sessionVars, lockVars, rtaVars, history>>

\* CloseContext keeps closeMu until it returns.
CloseLocks(g) ==
    /\ go[g].at = "close" /\ closeMu[go[g].h] = Nobody /\ ~closed[go[g].h]
    /\ closeMu' = [closeMu EXCEPT ![go[g].h] = g]
    /\ go' = [go EXCEPT ![g].at = "update", ![g].req = "leave"]
    /\ UNCHANGED <<server, sessionVars, syncMu, writer, readers, subscribeMu,
                   rtaVars, history>>

\* closeLocked, or markDeletedLocked when the document went with the member.
CloseFinishes(g) ==
    LET h == go[g].h
    IN  /\ go[g].at \in {"closeLocked", "clearLocked"}
        /\ IF go[g].at = "clearLocked" THEN ClearCache(h)
                                       ELSE UNCHANGED <<cache, etag>>
        /\ Release(h)
        /\ left' = [left EXCEPT ![h] = @ + 1]
        /\ closeMu' = Unlocked(closeMu, h, g)
        /\ readers' = Without(readers, g)
        /\ Done(g)
        /\ UNCHANGED <<server, ref, owned, syncMu, writer, subscribeMu,
                       rtaVars, joined>>

\* markDeleted; a reconcile then gives up on the Session.
MarkDeleted(g) ==
    LET o == go[g]
    IN  /\ o.at = "markDeleted" /\ closeMu[o.h] = Nobody
        /\ ClearCache(o.h) /\ Release(o.h)
        /\ writer' = Freed(writer, g)
        /\ Gives(g, "failed")
        /\ go' = [go EXCEPT ![g] =
              IF o.req = "custom" THEN Idle
              ELSE [Idle EXCEPT !.at = "close", !.op = "discard", !.h = o.h]]
        /\ UNCHANGED <<server, ref, closeMu, syncMu, readers, subscribeMu,
                       rtaVars, history>>

\* The handlers close a Session locally when the directory cannot be told.
ForceClose(g) ==
    /\ go[g].at = "force" /\ closeMu[go[g].h] = Nobody
    /\ Release(go[g].h)
    /\ readers' = Without(readers, g)
    /\ Done(g)
    /\ UNCHANGED <<server, ref, cache, etag, owned, closeMu, syncMu, writer,
                   subscribeMu, rtaVars, history>>

-----------------------------------------------------------------------------
(* Publish, Join and createSession.                                        *)

\* Client.subscribe, called first by Publish and Join and again once the
\* Session is bound.
SubscribeLocks(g) ==
    /\ go[g].at = "subscribe" /\ subscribeMu = Nobody
    /\ subscribeMu' = g
    /\ Goto(g, "rta")
    /\ UNCHANGED <<server, sessionVars, closeMu, syncMu, writer, readers,
                   rtaVars, history>>

\* client.subscribe returns the connection id: the first time for the request
\* that creates the Session.
SubscribeReturns(g) ==
    /\ subscribeMu' = Nobody
    /\ go' = [go EXCEPT ![g] =
          IF @.req = "none"
          THEN [@ EXCEPT !.at = "sent", !.req = "put", !.connection = data']
          ELSE [@ EXCEPT !.at = "reconcile"]]

SubscriptionIsActive(g) ==
    /\ go[g].at = "rta" /\ opMu = Nobody /\ active
    /\ UNCHANGED data
    /\ SubscribeReturns(g)
    /\ UNCHANGED <<server, sessionVars, closeMu, syncMu, writer, readers,
                   active, opMu, connections, lost, history>>

SubscribeFails(g) ==
    /\ subscribeMu' = Freed(subscribeMu, g)
    /\ Gives(g, "failed")
    /\ go' = [go EXCEPT ![g] =
          IF @.req = "none" THEN Idle
          ELSE [Idle EXCEPT !.at = "close", !.op = "discard",
                            !.h = go[g].h]]

\* The activity handle is written and the Session bound, perhaps in place of
\* another one for the same document.
Bind(g) ==
    LET h == go[g].h
    IN  /\ go[g].at = "activity"
        /\ sessions' = [sessions EXCEPT ![ref[h]] = h]
        /\ Goto(g, "subscribe")
        /\ UNCHANGED <<server, ref, cache, etag, closed, owned, lockVars,
                       rtaVars, history>>

ActivityFails(g) ==
    /\ go[g].at = "activity"
    /\ Gives(g, "failed")
    /\ go' = [go EXCEPT ![g] =
          [Idle EXCEPT !.at = "close", !.op = "close", !.h = go[g].h]]
    /\ UNCHANGED <<server, ref, cache, etag, closed, sessions, lockVars,
                   rtaVars, history>>

\* Mutant: the connection id is the one that Publish or Join has used.
ReconcileWithOldId(g) ==
    /\ go[g].at = "reconcile" /\ writer = Nobody /\ readers = {}
    /\ writer' = g
    /\ Goto(g, "connect")
    /\ UNCHANGED <<server, sessionVars, closeMu, syncMu, readers, subscribeMu,
                   rtaVars, history>>

\* Client.reconcileSessionConnection takes reconcileMu.
ReconcileLocks(g) ==
    /\ go[g].at = "reconcile" /\ writer = Nobody /\ readers = {}
    /\ writer' = g
    /\ go' = [go EXCEPT ![g].at = "connect", ![g].connection = data]
    /\ UNCHANGED <<server, sessionVars, closeMu, syncMu, readers, subscribeMu,
                   rtaVars, history>>

\* reconcileSessionConnection, as createSession and HandleSubscribe call it.
AlreadyCurrent(g) ==
    /\ go[g].at = "connect"
    /\ cache[go[g].h].connection = go[g].connection
    /\ writer' = Freed(writer, g)
    /\ Gives(g, "returned")
    /\ Done(g)
    /\ UNCHANGED <<server, ref, cache, etag, closed, sessions, closeMu,
                   syncMu, readers, subscribeMu, rtaVars, history>>

Connect(g) ==
    /\ go[g].at = "connect"
    /\ cache[go[g].h].connection # go[g].connection
    /\ go' = [go EXCEPT ![g].at = "update", ![g].req = "connect"]
    /\ UNCHANGED <<server, sessionVars, lockVars, rtaVars, history>>

-----------------------------------------------------------------------------
(* The RTA subscription and its handlers.                                  *)

\* rta.Conn.Subscribe finds the subscription inactive, or the reconnect
\* restores it, and asks the service.
HandshakeStarts(g) ==
    /\ \/ go[g].at = "rta" /\ ~active
       \/ go[g].at = "dropped"
    /\ opMu = Nobody
    /\ opMu' = g
    /\ Goto(g, "handshake")
    /\ UNCHANGED <<server, sessionVars, lockVars, data, active, connections,
                   lost, history>>

\* The service hands out a new connection id.
HandshakeSucceeds(g) ==
    /\ go[g].at = "handshake" /\ connections < MaxConnections
    /\ connections' = connections + 1
    /\ active' = TRUE
    /\ go' = [go EXCEPT ![g].at = "handle", ![g].connection = connections']
    /\ UNCHANGED <<server, sessionVars, lockVars, data, opMu, lost, history>>

\* The handshake fails, or HandleSubscribe finds no connection id in the
\* answer: an active subscription is deactivated and HandleError started.
\* Bound: one HandleError is waiting to run at a time.
HandshakeFails(g) ==
    /\ go[g].at = "handshake" /\ ~lost
    /\ opMu' = Nobody /\ active' = FALSE
    /\ lost' \in {active, TRUE}
    /\ SubscribeFails(g)
    /\ UNCHANGED <<server, ref, cache, etag, closed, sessions, closeMu,
                   syncMu, writer, readers, data, connections, history>>

\* Mutant: the goroutines take reconcileMu, which their starter holds.
HandleSubscribeRelocks(g) ==
    /\ go[g].at = "handle" /\ writer = Nobody /\ readers = {}
    /\ writer' = g
    /\ data' = go[g].connection
    /\ go' = [k \in Goroutines |->
          IF k = g THEN [go[g] EXCEPT !.at = "restoring"]
          ELSE IF k \in {Restorer(h) : h \in Bound}
          THEN [Idle EXCEPT !.at = "reconcile", !.op = "restore", !.h = k[2]]
          ELSE go[k]]
    /\ UNCHANGED <<server, sessionVars, closeMu, syncMu, readers, subscribeMu,
                   active, opMu, connections, lost, history>>

\* HandleSubscribe stores the id and starts a goroutine for every Session.
HandleSubscribe(g) ==
    /\ go[g].at = "handle" /\ writer = Nobody /\ readers = {}
    /\ writer' = g
    /\ data' = go[g].connection
    /\ go' = [k \in Goroutines |->
          IF k = g THEN [go[g] EXCEPT !.at = "restoring"]
          ELSE IF k \in {Restorer(h) : h \in Bound}
          THEN [Idle EXCEPT !.at = "connect", !.op = "restore", !.h = k[2],
                            !.connection = data']
          ELSE go[k]]
    /\ UNCHANGED <<server, sessionVars, closeMu, syncMu, readers, subscribeMu,
                   active, opMu, connections, lost, history>>

\* All of them have ended.
HandleSubscribeReturns(g) ==
    /\ go[g].at = "restoring"
    /\ \A h \in Handles : go[Restorer(h)].at = "idle"
    /\ writer' = Nobody /\ opMu' = Nobody
    /\ UNCHANGED data
    /\ IF g = Rta THEN Done(g) /\ UNCHANGED subscribeMu
                  ELSE SubscribeReturns(g)
    /\ UNCHANGED <<server, sessionVars, closeMu, syncMu, readers, active,
                   connections, lost, history>>

\* RTA loses its connection: the subscription stays active meanwhile.
Drop ==
    /\ "drop" \in Workload
    /\ active /\ opMu = Nobody /\ go[Rta].at = "idle"
    /\ connections < MaxConnections
    /\ Goto(Rta, "dropped")
    /\ UNCHANGED <<server, sessionVars, lockVars, rtaVars, history>>

\* Client.CloseContext: rta.Conn.Unsubscribe succeeds.
Unsubscribe ==
    /\ "unsubscribe" \in Workload
    /\ active /\ opMu = Nobody /\ go[Rta].at = "idle" /\ ~lost
    /\ active' = FALSE /\ lost' = TRUE
    /\ UNCHANGED <<server, sessionVars, lockVars, data, opMu, connections, go,
                   history>>

\* HandleError starts a goroutine for every Session.
HandleError ==
    /\ lost /\ \A h \in Handles : go[Closer(h)].at = "idle"
    /\ lost' = FALSE
    /\ go' = [k \in Goroutines |->
          IF k \in {Closer(h) : h \in Bound}
          THEN [Idle EXCEPT !.at = "read", !.op = "lost", !.h = k[2]]
          ELSE go[k]]
    /\ UNCHANGED <<server, sessionVars, lockVars, data, active, opMu,
                   connections, history>>

\* HandleEvent or HandleResync, which may have been waiting since the
\* subscription was active, starts a goroutine for the Session h.
HandleEvent(h) ==
    /\ "event" \in Workload
    /\ h \in Bound /\ go[Tapper(h)].at = "idle"
    /\ go' = [go EXCEPT ![Tapper(h)] =
          [Idle EXCEPT !.at = "read", !.op = "tap", !.h = h,
                       !.seen = server[ref[h]].version]]
    /\ UNCHANGED <<server, sessionVars, lockVars, rtaVars, history>>

\* syncSession and the goroutines of HandleError share reconcileMu.
ReadLocks(g) ==
    /\ go[g].at = "read" /\ writer = Nobody
    /\ readers' = readers \cup {g}
    /\ Goto(g, IF go[g].op = "tap" THEN "sync" ELSE "close")
    /\ UNCHANGED <<server, sessionVars, closeMu, syncMu, writer, subscribeMu,
                   rtaVars, history>>

\* HandleSessionChange returns.
CallbackReturns(g) ==
    /\ go[g].at = "callback"
    /\ Done(g)
    /\ UNCHANGED <<server, sessionVars, lockVars, rtaVars, history>>

-----------------------------------------------------------------------------
(* The application, in its goroutines and in its callbacks, and the other  *)
(* members.                                                                *)

Free(g) == \/ g \in Callers /\ go[g].at = "idle"
           \/ go[g].at = "callback"

\* A method of a Session that the application has.
Call(g, h, op) ==
    /\ Free(g) /\ op \in Workload /\ owned[h] = "returned"
    /\ go' = [go EXCEPT ![g] =
          CASE op = "set" -> [Idle EXCEPT !.at = "update", !.op = "set",
                                          !.h = h, !.req = "custom"]
            [] OTHER -> [Idle EXCEPT !.at = op, !.op = op, !.h = h]]
    /\ UNCHANGED <<server, sessionVars, lockVars, rtaVars, history>>

\* Publish or Join, for the document r.
Create(g, h, r, op) ==
    /\ Free(g) /\ op \in Workload /\ owned[h] = "unused"
    /\ owned' = [owned EXCEPT ![h] = "creating"]
    /\ ref' = [ref EXCEPT ![h] = r]
    /\ go' = [go EXCEPT ![g] =
          [Idle EXCEPT !.at = "subscribe", !.op = op, !.h = h]]
    /\ UNCHANGED <<server, cache, etag, closed, sessions, lockVars, rtaVars,
                   history>>

\* Somebody else writes the document, or it ends.
OthersWrite(r) ==
    /\ "others" \in Workload /\ server[r].alive
    /\ \/ Write(r, server[r].connection)
       \/ server' = [server EXCEPT ![r].alive = FALSE,
                                   ![r].connection = NoConnection]
    /\ UNCHANGED <<sessionVars, lockVars, rtaVars, go, history>>

-----------------------------------------------------------------------------

Deliver(g) == DeliverUpdate(g) \/ DeliverPut(g) \/ DeliverGet(g)

Receive(g) ==
    \/ ReceiveOk(g) \/ ReceiveSame(g) \/ ReceiveDeleted(g)
    \/ ReceiveMissing(g) \/ JoinRetries(g) \/ Fails(g)

Proceed(g) ==
    \/ UpdateLocks(g) \/ UpdateFindsClosed(g) \/ MarkDeleted(g)
    \/ SyncLocks(g) \/ SyncSends(g)
    \/ CloseReturns(g) \/ CloseLocks(g) \/ CloseFinishes(g) \/ ForceClose(g)
    \/ SubscribeLocks(g) \/ SubscriptionIsActive(g)
    \/ Bind(g) \/ ActivityFails(g)
    \/ ReconcileLocks(g) \/ AlreadyCurrent(g) \/ Connect(g)
    \/ HandshakeStarts(g) \/ HandshakeSucceeds(g) \/ HandshakeFails(g)
    \/ HandleSubscribe(g) \/ HandleSubscribeReturns(g)
    \/ ReadLocks(g) \/ CallbackReturns(g)

Progress(g) == Deliver(g) \/ Receive(g) \/ Proceed(g)

Start ==
    \/ \E g \in Goroutines, h \in Handles :
        \/ \E op \in {"set", "sync", "close"} : Call(g, h, op)
        \/ \E r \in Refs, op \in {"publish", "join"} : Create(g, h, r, op)
    \/ \E h \in Handles : HandleEvent(h)
    \/ \E r \in Refs : OthersWrite(r)
    \/ Drop \/ Unsubscribe

\* Nothing is in progress.
Rest == (\A g \in Goroutines : go[g].at = "idle") /\ UNCHANGED vars

Next == (\E g \in Goroutines : Progress(g)) \/ HandleError \/ Start \/ Rest

Spec == Init /\ [][Next]_vars

\* Every goroutine is scheduled, strongly because Go's mutexes do not starve a
\* waiter; every request ends; HandleError, once started, runs.
Fairness ==
    /\ \A g \in Goroutines : SF_vars(Progress(g))
    /\ WF_vars(HandleError)

FairSpec == Spec /\ Fairness

-----------------------------------------------------------------------------
(* Properties.                                                             *)

\* "Stale responses cannot overwrite newer session data" (Session.syncMu): the
\* cache of a Session only moves to later versions of its document, until it
\* is cleared.
VersionsGrow ==
    [][\A h \in Handles : \/ cache'[h].version >= cache[h].version
                          \/ cache'[h] = Empty]_vars

\* HandleSessionChange is called when the change is in the cache, although
\* the sync may have been answered with 304, and although others write the
\* cache at the same time.
CallbackSeesChange ==
    \A h \in Handles : go[Tapper(h)].at = "callback" /\ ~closed[h]
        => cache[h].version >= go[Tapper(h)].seen

\* However many goroutines close a Session, it leaves its document once; and
\* "a failed session write may have reached MPSD, so it cannot be replayed"
\* (Join): it enters the document once.
EntersAndLeavesOnce ==
    \A h \in Handles : joined[h] <= 1 /\ left[h] <= 1

\* h is the only Session for its document.
Alone(h) == \A k \in Handles \ {h} : ref[k] # ref[h]

\* "Stale connection IDs cannot overwrite newer ones" (Client.reconcileMu):
\* while nobody reconciles, no bound Session advertises the id of a former
\* RTA connection, in whatever order it was created and RTA reconnected.
NoStaleConnection ==
    writer = Nobody =>
        \A h \in Bound : owned[h] = "returned" /\ Alone(h)
            => server[ref[h]].connection \in {NoConnection, data}

\* A Session is taken out of the table when it is closed or another one takes
\* its place, never by the end of another Session ("without unregistering a
\* newer Session at the same reference", handleSessionClose).
KeepsNewer ==
    [][\A r \in Refs : sessions[r] # NoHandle /\ sessions'[r] # sessions[r]
          => closed'[sessions[r]] \/ sessions'[r] # NoHandle]_vars

\* Every call and every handler returns: reconcileMu, subscribeMu, closeMu and
\* syncMu are never waited for in a circle and are released by every failure.
CallsReturn == \A g \in Goroutines : go[g].at # "idle" ~> go[g].at = "idle"

\* CloseContext "ensures the caller to leave the session": when it has
\* returned, the member stays out of the document.
LeaveIsFinal ==
    \A h \in Handles : left[h] > 0 /\ Alone(h)
        => server[ref[h]].connection = NoConnection
=============================================================================
