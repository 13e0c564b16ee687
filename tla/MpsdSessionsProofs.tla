------------------------- MODULE MpsdSessionsProofs -------------------------
(***************************************************************************)
(* The Sessions of mpsd.Client, for any number of goroutines, Sessions,    *)
(* documents and connection ids: the mutexes serialize what must not       *)
(* overlap, a Session enters and leaves its document once, its cache never *)
(* goes back, and no bound Session is left with a former connection id.    *)
(***************************************************************************)
EXTENDS MpsdSessions, TLAPS

Shaking == {"handshake", "handle", "restoring"}
Subscribing == {"subscribe", "rta"} \cup Shaking
Updating == {"update", "sent", "answered", "markDeleted"}
Leaving == {"update", "sent", "answered", "closeLocked", "clearLocked"}
Getting == {"syncLocked", "sent", "answered"}

\* Where a goroutine can be with its operation and its request.
Legal(o) ==
    \/ /\ o.op = "none" /\ o.req = "none" /\ o.h = NoHandle
       /\ o.at \in {"idle", "dropped"} \cup Shaking
    \/ /\ o.op \in {"publish", "join"}
       /\ \/ o.req = "none" /\ o.at \in Subscribing
          \/ /\ o.req = "put"
             /\ o.at \in Subscribing \cup {"sent", "answered", "activity",
                                           "reconcile", "connect"}
          \/ o.req = "connect" /\ o.at \in Updating
    \/ /\ o.op = "restore"
       /\ \/ o.req = "none" /\ o.at = "connect"
          \/ o.req = "connect" /\ o.at \in Updating
    \/ o.op = "set" /\ o.req = "custom" /\ o.at \in Updating
    \/ /\ o.op \in {"close", "discard", "lost"}
       /\ \/ o.req = "none" /\ o.at = "close"
          \/ o.req = "none" /\ o.op = "lost" /\ o.at = "read"
          \/ o.req = "leave" /\ o.at \in Leaving
          \/ o.req = "leave" /\ o.op # "close" /\ o.at = "force"
    \/ /\ o.op \in {"sync", "tap"}
       /\ \/ o.req = "none" /\ o.at = "sync"
          \/ o.req = "none" /\ o.op = "tap" /\ o.at = "read"
          \/ o.req = "get" /\ o.at \in Getting
          \/ o.req = "get" /\ o.op = "tap" /\ o.at = "callback"

\* The answers that the directory gives to a request.
Answers(req) ==
    CASE req = "put" -> {"ok", "conflict"}
      [] req = "get" -> {"ok", "same", "deleted"}
      [] OTHER -> {"ok", "deleted"}

Application == {"publish", "join", "set", "sync", "close", "discard"}

\* What a goroutine of each kind runs.
Runs(g, o) ==
    /\ g \in Callers => o.op \in Application \cup {"none"}
    /\ o.op = "none" => o.at = "idle" \/ g = Rta
    /\ g = Rta => o.op = "none"
    /\ \A h \in Handles :
          /\ g = Restorer(h) => o.op = "none" \/ (o.h = h /\ o.op \in {"restore", "discard"})
          /\ g = Closer(h) => o.op = "none" \/ (o.h = h /\ o.op = "lost")
          /\ g = Tapper(h) => \/ o.op \in Application \cup {"none"}
                              \/ o.h = h /\ o.op = "tap"

OperationOK(g, o) ==
    /\ Legal(o)
    /\ Runs(g, o)
    /\ o.at = "answered" => o.status \in Answers(o.req)
    /\ o.op # "none" => o.h \in Handles /\ owned[o.h] # "unused"

OperationsOK == \A g \in Goroutines : OperationOK(g, go[g])

\* Who is between taking a mutex and releasing it holds it.
NeedsSync(o) == o.at \in {"sent", "answered"} /\ o.req # "put"

NeedsClose(o) == \/ o.req = "leave" /\ o.at \in Leaving
                 \/ o.req = "get" /\ o.at \in Getting

NeedsWriter(o) ==
    \/ o.at = "restoring"
    \/ o.op \in {"publish", "join"} /\ (o.req = "connect" \/ o.at = "connect")

SyncHeld == \A g \in Goroutines :
    NeedsSync(go[g]) => syncMu[go[g].h] = g

CloseHeld == \A g \in Goroutines :
    NeedsClose(go[g]) => closeMu[go[g].h] = g

RtaHeld == \A g \in Goroutines :
    /\ go[g].at \in Shaking => opMu = g
    /\ NeedsWriter(go[g]) => writer = g
    /\ \A h \in Handles : g = Restorer(h) /\ go[g].at # "idle"
          => \E k \in Goroutines : go[k].at = "restoring"

\* A Session that is not in use is as New left it; one that is has a document.
HandlesOK == \A h \in Handles :
    /\ owned[h] # "unused" => ref[h] \in Refs
    /\ owned[h] = "unused" => /\ ref[h] = NoRef /\ cache[h] = Empty
                              /\ etag[h] = 0 /\ ~closed[h]
                              /\ left[h] = 0 /\ joined[h] = 0

TableOK == \A r \in Refs : \A h \in Handles :
    sessions[r] = h => ref[h] = r /\ owned[h] # "unused" /\ ~closed[h]

\* Whoever creates a Session is alone with it until it is bound.
Unbound(o) ==
    /\ o.op \in {"publish", "join"}
    /\ o.req = "none" \/ (o.req = "put" /\ o.at \in {"sent", "answered", "activity"})

Entering(o) ==
    /\ Unbound(o)
    /\ o.req = "none" \/ o.at = "sent" \/ (o.at = "answered" /\ o.status = "conflict")

CreatorsOK == \A g \in Goroutines :
    /\ Creating(g) =>
          /\ owned[go[g].h] = "creating"
          /\ \A k \in Goroutines : Creating(k) /\ go[k].h = go[g].h => k = g
    /\ Unbound(go[g]) =>
          /\ ~closed[go[g].h]
          /\ \A r \in Refs : sessions[r] # go[g].h
          /\ \A k \in Goroutines : go[k].h = go[g].h => k = g
          /\ go[g].at # "activity" => cache[go[g].h] = Empty /\ etag[go[g].h] = 0

HistoryOK ==
    /\ \A h \in Handles : left[h] = 0 \/ (left[h] = 1 /\ closed[h])
    /\ \A h \in Handles : joined[h] \in {0, 1}
    /\ \A g \in Goroutines : Entering(go[g]) => joined[go[g].h] = 0
    /\ \A g \in Goroutines :
          go[g].req = "leave" /\ go[g].at \in Leaving => ~closed[go[g].h]

\* No version is ahead of the document, and an answer is not behind the cache.
VersionsOK ==
    /\ \A h \in Handles :
          owned[h] # "unused" => /\ etag[h] <= cache[h].version
                                 /\ cache[h].version <= server[ref[h]].version
    /\ \A g \in Goroutines :
          LET o == go[g]
          IN  /\ o.at = "answered" /\ o.status = "ok" =>
                    /\ cache[o.h].version <= o.body.version
                    /\ o.body.version <= server[ref[o.h]].version

\* What an event has seen.
SeenOK == \A g \in Goroutines :
    LET o == go[g]
    IN  o.op = "tap" =>
          /\ o.seen <= server[ref[o.h]].version
          /\ o.at = "answered" /\ o.status = "ok" => o.seen <= o.body.version
          /\ o.at = "answered" /\ o.status = "same" => o.seen <= cache[o.h].version
          /\ o.at = "callback" /\ ~closed[o.h] => o.seen <= cache[o.h].version

\* Connection ids are used up to that of the current subscription.
ConnectionsOK ==
    /\ data <= connections
    /\ \A r \in Refs : server[r].connection <= data
    /\ \A h \in Handles : cache[h].connection <= data
    /\ \A g \in Goroutines :
          LET o == go[g]
          IN  /\ o.at = "handle" => o.connection = connections /\ data < connections
              /\ o.at # "handle" => o.connection <= data
              /\ o.at = "answered" /\ o.status = "ok" => o.body.connection <= data
              /\ o.req = "connect" \/ o.at = "connect" => o.connection = data
              /\ o.at = "answered" /\ o.status = "ok" /\ o.req = "connect"
                    => o.body.connection = data

Advertises(h) == server[ref[h]].connection \in {NoConnection, data}

\* A Session that is alone with its document.
AdvertisedOK == \A h \in Handles :
    owned[h] # "unused" /\ Alone(h) =>
        /\ cache[h].connection = data => Advertises(h)
        /\ \A g \in Goroutines :
              LET o == go[g]
              IN  o.h = h /\ o.at = "answered" /\ o.status = "ok" /\ o.body.connection = data
                    => Advertises(h)
        /\ owned[h] = "returned" /\ sessions[ref[h]] = h =>
              Advertises(h) \/ go[Restorer(h)].at # "idle"
-----------------------------------------------------------------------------
(* The table of operations.                                                *)

Statuses == {"none", "ok", "deleted", "same", "conflict"}

Typed(f) == f \in [Goroutines -> Operation]

\* The zero values have their types.
LEMMA ZeroTypes ==
    /\ Idle \in Operation /\ Empty \in Document
    /\ 0 \in Versions /\ NoConnection \in Connections
BY MpsdAssumption
   DEF Idle, Operation, Places, Operations, Requests, Empty, Document, Versions,
       Connections, NoConnection, joinMaxAttempts

\* The record updates that the actions perform give operations.
LEMMA UpdateType ==
    ASSUME NEW o \in Operation, NEW p \in Places
    PROVE  /\ [o EXCEPT !.at = p] \in Operation
           /\ \A s \in Statuses, b \in Document :
                [o EXCEPT !.at = p, !.status = s, !.body = b] \in Operation
           /\ \A r \in Requests : [o EXCEPT !.at = p, !.req = r] \in Operation
           /\ \A c \in Connections :
                [o EXCEPT !.at = p, !.connection = c] \in Operation
           /\ \A r \in Requests, c \in Connections :
                [o EXCEPT !.at = p, !.req = r, !.connection = c] \in Operation
<1>1. [o EXCEPT !.at = p] \in Operation
  BY DEF Operation
<1>2. ASSUME NEW s \in Statuses, NEW b \in Document
      PROVE  [o EXCEPT !.at = p, !.status = s, !.body = b] \in Operation
  BY DEF Operation, Statuses
<1>3. ASSUME NEW r \in Requests
      PROVE  [o EXCEPT !.at = p, !.req = r] \in Operation
  BY DEF Operation
<1>4. ASSUME NEW c \in Connections
      PROVE  [o EXCEPT !.at = p, !.connection = c] \in Operation
  BY DEF Operation
<1>5. ASSUME NEW r \in Requests, NEW c \in Connections
      PROVE  [o EXCEPT !.at = p, !.req = r, !.connection = c] \in Operation
  BY DEF Operation
<1> QED BY <1>1, <1>2, <1>3, <1>4, <1>5

\* So do those with which an operation begins.
LEMMA BeginType ==
    ASSUME NEW p \in Places, NEW q \in Operations, NEW h \in Handles
    PROVE  /\ [Idle EXCEPT !.at = p, !.op = q, !.h = h] \in Operation
           /\ \A r \in Requests :
                [Idle EXCEPT !.at = p, !.op = q, !.h = h, !.req = r] \in Operation
           /\ \A c \in Connections :
                [Idle EXCEPT !.at = p, !.op = q, !.h = h, !.connection = c]
                    \in Operation
           /\ \A v \in Versions :
                [Idle EXCEPT !.at = p, !.op = q, !.h = h, !.seen = v] \in Operation
<1> SUFFICES ASSUME NEW o \in Operation
             PROVE  /\ [o EXCEPT !.at = p, !.op = q, !.h = h] \in Operation
                    /\ \A r \in Requests :
                         [o EXCEPT !.at = p, !.op = q, !.h = h, !.req = r]
                            \in Operation
                    /\ \A c \in Connections :
                         [o EXCEPT !.at = p, !.op = q, !.h = h, !.connection = c]
                            \in Operation
                    /\ \A v \in Versions :
                         [o EXCEPT !.at = p, !.op = q, !.h = h, !.seen = v]
                            \in Operation
  BY ZeroTypes
<1>1. [o EXCEPT !.at = p, !.op = q, !.h = h] \in Operation
  BY DEF Operation
<1>2. ASSUME NEW r \in Requests
      PROVE  [o EXCEPT !.at = p, !.op = q, !.h = h, !.req = r] \in Operation
  BY DEF Operation
<1>3. ASSUME NEW c \in Connections
      PROVE  [o EXCEPT !.at = p, !.op = q, !.h = h, !.connection = c] \in Operation
  BY DEF Operation
<1>4. ASSUME NEW v \in Versions
      PROVE  [o EXCEPT !.at = p, !.op = q, !.h = h, !.seen = v] \in Operation
  BY DEF Operation
<1> QED BY <1>1, <1>2, <1>3, <1>4

\* And the one with which a join tries again.
LEMMA RetryType ==
    ASSUME NEW o \in Operation, o.attempt < joinMaxAttempts,
           NEW v \in Versions, NEW b \in Document
    PROVE  [o EXCEPT !.at = "sent", !.status = "none", !.attempt = @ + 1,
                     !.match = v, !.body = b] \in Operation
<1> DEFINE a == o.attempt + 1
<1>1. a \in 1..joinMaxAttempts
  BY DEF joinMaxAttempts, Operation
<1>2. \A c \in 1..joinMaxAttempts :
        [o EXCEPT !.at = "sent", !.status = "none", !.attempt = c,
                  !.match = v, !.body = b] \in Operation
  BY DEF Operation, Places
<1>3. [o EXCEPT !.at = "sent", !.status = "none", !.attempt = a,
                !.match = v, !.body = b] \in Operation
  BY <1>1, <1>2
<1> QED BY <1>3

\* Goroutine g gets to p with operation q on h and request r; nobody else
\* moves.
Moved(g, p, q, h, r) ==
    /\ Typed(go')
    /\ \A k \in Goroutines : k # g => go'[k] = go[k]
    /\ go'[g].at = p /\ go'[g].op = q /\ go'[g].h = h /\ go'[g].req = r

\* What else it carries.
Carries(g, connection, seen, status, body) ==
    /\ go'[g].connection = connection /\ go'[g].seen = seen
    /\ go'[g].status = status /\ go'[g].body = body

\* A goroutine gets to another place.
LEMMA GotoMoves ==
    ASSUME Typed(go), NEW g \in Goroutines, NEW p \in Places, Goto(g, p)
    PROVE  LET o == go[g]
           IN  /\ Moved(g, p, o.op, o.h, o.req)
               /\ Carries(g, o.connection, o.seen, o.status, o.body)
<1>1. [go[g] EXCEPT !.at = p] \in Operation
  BY UpdateType DEF Typed
<1>2. go[g] \in Operation
  BY DEF Typed
<1> QED BY <1>1, <1>2 DEF Goto, Typed, Moved, Carries, Operation

\* It ends.
LEMMA DoneMoves ==
    ASSUME Typed(go), NEW g \in Goroutines, go' = [go EXCEPT ![g] = Idle]
    PROVE  /\ Moved(g, "idle", "none", NoHandle, "none")
           /\ Carries(g, NoConnection, 0, "none", Empty)
BY ZeroTypes DEF Typed, Moved, Carries, Idle

\* It is answered.
LEMMA AnsweredMoves ==
    ASSUME Typed(go), NEW g \in Goroutines, NEW s \in Statuses,
           NEW b \in Document, Answered(g, s, b)
    PROVE  LET o == go[g]
           IN  /\ Moved(g, "answered", o.op, o.h, o.req)
               /\ Carries(g, o.connection, o.seen, s, b)
<1>1. [go[g] EXCEPT !.at = "answered", !.status = s, !.body = b] \in Operation
  BY UpdateType DEF Typed, Places
<1>2. go[g] \in Operation
  BY DEF Typed
<1> QED BY <1>1, <1>2 DEF Answered, Typed, Moved, Carries, Operation

\* It makes a request.
LEMMA RequestMoves ==
    ASSUME Typed(go), NEW g \in Goroutines, NEW p \in Places, NEW r \in Requests,
           go' = [go EXCEPT ![g].at = p, ![g].req = r]
    PROVE  LET o == go[g]
           IN  /\ Moved(g, p, o.op, o.h, r)
               /\ Carries(g, o.connection, o.seen, o.status, o.body)
<1>1. [go[g] EXCEPT !.at = p, !.req = r] \in Operation
  BY UpdateType DEF Typed
<1>2. go[g] \in Operation
  BY DEF Typed
<1> QED BY <1>1, <1>2 DEF Typed, Moved, Carries, Operation

\* It gets to know a connection id.
LEMMA ConnectionMoves ==
    ASSUME Typed(go), NEW g \in Goroutines, NEW p \in Places, NEW c \in Connections,
           go' = [go EXCEPT ![g].at = p, ![g].connection = c]
    PROVE  LET o == go[g]
           IN  /\ Moved(g, p, o.op, o.h, o.req)
               /\ Carries(g, c, o.seen, o.status, o.body)
<1>1. [go[g] EXCEPT !.at = p, !.connection = c] \in Operation
  BY UpdateType DEF Typed
<1>2. go[g] \in Operation
  BY DEF Typed
<1> QED BY <1>1, <1>2 DEF Typed, Moved, Carries, Operation

\* It begins an operation.
LEMMA BeginMoves ==
    ASSUME Typed(go), NEW g \in Goroutines, NEW p \in Places,
           NEW q \in Operations, NEW h \in Handles,
           go' = [go EXCEPT ![g] = [Idle EXCEPT !.at = p, !.op = q, !.h = h]]
    PROVE  /\ Moved(g, p, q, h, "none")
           /\ Carries(g, NoConnection, 0, "none", Empty)
<1>1. [Idle EXCEPT !.at = p, !.op = q, !.h = h] \in Operation
  BY BeginType
<1> QED BY <1>1 DEF Typed, Moved, Carries, Idle

\* An update, a sync or the request of Publish and Join returns an error.
LEMMA ErrorMoves ==
    ASSUME Typed(go), NEW g \in Goroutines, NEW isErrClosed \in BOOLEAN,
           go[g].h \in Handles, ReturnsError(g, isErrClosed)
    PROVE  LET o == go[g]
           IN  \/ /\ Moved(g, "close", "discard", o.h, "none")
                  /\ Carries(g, NoConnection, 0, "none", Empty)
                  /\ o.req = "connect" /\ ~(isErrClosed /\ o.op = "restore")
               \/ /\ Moved(g, "force", o.op, o.h, o.req)
                  /\ Carries(g, o.connection, o.seen, o.status, o.body)
                  /\ o.req = "leave" /\ o.op # "close"
               \/ /\ Moved(g, "idle", "none", NoHandle, "none")
                  /\ Carries(g, NoConnection, 0, "none", Empty)
                  /\ ~(o.req = "connect" /\ ~(isErrClosed /\ o.op = "restore"))
<1> DEFINE o == go[g]
<1>1. CASE o.req = "connect" /\ ~(isErrClosed /\ o.op = "restore")
  <2>1. go' = [go EXCEPT ![g] =
                 [Idle EXCEPT !.at = "close", !.op = "discard", !.h = go[g].h]]
    BY <1>1 DEF ReturnsError
  <2> QED BY <1>1, <2>1, BeginMoves DEF Places, Operations
<1>2. CASE o.req = "leave" /\ o.op # "close"
  <2>1. Goto(g, "force")
    BY <1>2 DEF ReturnsError, Goto, Typed
  <2> QED BY <1>2, <2>1, GotoMoves DEF Places
<1>3. CASE /\ ~(o.req = "connect" /\ ~(isErrClosed /\ o.op = "restore"))
           /\ ~(o.req = "leave" /\ o.op # "close")
  <2>1. go' = [go EXCEPT ![g] = Idle]
    BY <1>3 DEF ReturnsError
  <2> QED BY <1>3, <2>1, DoneMoves
<1> QED BY <1>1, <1>2, <1>3

\* Client.subscribe returns.
LEMMA SubscribeReturnsMoves ==
    ASSUME Typed(go), NEW g \in Goroutines, data' \in Connections, SubscribeReturns(g)
    PROVE  LET o == go[g]
           IN  \/ /\ o.req = "none"
                  /\ Moved(g, "sent", o.op, o.h, "put")
                  /\ Carries(g, data', o.seen, o.status, o.body)
               \/ /\ o.req # "none"
                  /\ Moved(g, "reconcile", o.op, o.h, o.req)
                  /\ Carries(g, o.connection, o.seen, o.status, o.body)
<1> DEFINE o == go[g]
<1>0. o \in Operation
  BY DEF Typed
<1>1. CASE o.req = "none"
  <2>1. [o EXCEPT !.at = "sent", !.req = "put", !.connection = data'] \in Operation
    BY <1>0, UpdateType DEF Places, Requests
  <2>2. go' = [go EXCEPT ![g] = [o EXCEPT !.at = "sent", !.req = "put",
                                          !.connection = data']]
    BY <1>1 DEF SubscribeReturns
  <2> QED BY <1>0, <1>1, <2>1, <2>2 DEF Typed, Moved, Carries, Operation
<1>2. CASE o.req # "none"
  <2>1. Goto(g, "reconcile")
    BY <1>2 DEF SubscribeReturns, Goto, Typed
  <2> QED BY <1>2, <2>1, GotoMoves DEF Places
<1> QED BY <1>1, <1>2

\* It fails.
LEMMA SubscribeFailsMoves ==
    ASSUME Typed(go), NEW g \in Goroutines, SubscribeFails(g),
           go[g].req # "none" => go[g].h \in Handles
    PROVE  LET o == go[g]
           IN  \/ /\ o.req = "none"
                  /\ Moved(g, "idle", "none", NoHandle, "none")
                  /\ Carries(g, NoConnection, 0, "none", Empty)
               \/ /\ o.req # "none"
                  /\ Moved(g, "close", "discard", o.h, "none")
                  /\ Carries(g, NoConnection, 0, "none", Empty)
<1> DEFINE o == go[g]
<1>1. CASE o.req = "none"
  <2>1. go' = [go EXCEPT ![g] = Idle]
    BY <1>1 DEF SubscribeFails
  <2> QED BY <1>1, <2>1, DoneMoves
<1>2. CASE o.req # "none"
  <2>1. go' = [go EXCEPT ![g] =
                 [Idle EXCEPT !.at = "close", !.op = "discard", !.h = go[g].h]]
    BY <1>2 DEF SubscribeFails
  <2> QED BY <1>2, <2>1, BeginMoves DEF Places, Operations
<1> QED BY <1>1, <1>2

\* The goroutines of the handlers are different from those of the
\* application, and from each other.
LEMMA GoroutineKinds ==
    /\ Callers \subseteq Goroutines /\ Rta \in Goroutines \ Callers
    /\ \A h \in Handles :
          /\ {Restorer(h), Closer(h), Tapper(h)} \subseteq Goroutines
          /\ {Restorer(h), Closer(h), Tapper(h)} \cap (Callers \cup {Rta}) = {}
          /\ Restorer(h)[2] = h /\ Closer(h)[2] = h
          /\ \A k \in Handles :
                /\ Restorer(h) # Closer(k) /\ Restorer(h) # Tapper(k)
                /\ Closer(h) # Tapper(k)
                /\ Restorer(h) = Restorer(k) => h = k
                /\ Closer(h) = Closer(k) => h = k
                /\ Tapper(h) = Tapper(k) => h = k
    /\ \A g \in Goroutines :
          \/ g \in Callers \/ g = Rta
          \/ \E h \in Handles : g = Restorer(h) \/ g = Closer(h) \/ g = Tapper(h)
    /\ Nobody \notin Goroutines
<1>1. \A h \in Handles :
          {Restorer(h), Closer(h), Tapper(h)} \subseteq Handlers
  BY DEF Handlers, Restorer, Closer, Tapper
<1>2. \A g \in Handlers :
          \E h \in Handles : g = Restorer(h) \/ g = Closer(h) \/ g = Tapper(h)
  BY DEF Handlers, Restorer, Closer, Tapper
<1>3. \A h \in Handles :
          /\ Restorer(h)[2] = h /\ Closer(h)[2] = h
          /\ \A k \in Handles :
                /\ Restorer(h) # Closer(k) /\ Restorer(h) # Tapper(k)
                /\ Closer(h) # Tapper(k)
                /\ Restorer(h) = Restorer(k) => h = k
                /\ Closer(h) = Closer(k) => h = k
                /\ Tapper(h) = Tapper(k) => h = k
  BY DEF Restorer, Closer, Tapper
<1> QED BY <1>1, <1>2, <1>3, MpsdAssumption DEF Goroutines

\* A goroutine that moves keeps the operations of all within the table.
LEMMA OperationsKept ==
    ASSUME OperationsOK, NEW g \in Goroutines,
           \A k \in Goroutines : k # g => go'[k] = go[k],
           \A h \in Handles : owned[h] # "unused" => owned'[h] # "unused",
           OperationOK(g, go[g])'
    PROVE  OperationsOK'
BY DEF OperationsOK, OperationOK

\* Who goes on with what it runs may run it.
LEMMA RunsOn ==
    ASSUME NEW g \in Goroutines, NEW o, NEW n, Runs(g, o), n.op = o.op,
           n.h = o.h, o.op # "none"
    PROVE  Runs(g, n)
BY DEF Runs

\* Any goroutine but Rta may be idle.
LEMMA RunsNothing ==
    ASSUME NEW g \in Goroutines, NEW n, n.op = "none", n.at = "idle"
    PROVE  Runs(g, n)
BY GoroutineKinds DEF Runs, Application

\* Publish and Join hand out a Session that is in use.
LEMMA GivesInUse ==
    ASSUME owned \in [Handles -> {"unused", "creating", "returned", "failed"}],
           NEW g, NEW result \in {"returned", "failed"}, Gives(g, result)
    PROVE  /\ owned' \in [Handles -> {"unused", "creating", "returned", "failed"}]
           /\ \A h \in Handles : owned[h] # "unused" => owned'[h] # "unused"
BY DEF Gives

\* handleSessionClose keeps the table and the flags typed.
LEMMA ReleaseType ==
    ASSUME TypeOK, NEW h, Release(h)
    PROVE  /\ sessions' \in [Refs -> Handles \cup {NoHandle}]
           /\ closed' \in [Handles -> BOOLEAN]
BY DEF TypeOK, Release

\* A cache that is cleared is a document.
LEMMA ClearType ==
    ASSUME TypeOK, NEW h, ClearCache(h)
    PROVE  cache' \in [Handles -> Document] /\ etag' \in [Handles -> Versions]
BY ZeroTypes DEF TypeOK, ClearCache

\* A mutex that is unlocked is held by somebody or nobody.
LEMMA UnlockType ==
    ASSUME NEW mu \in [Handles -> Goroutines \cup {Nobody}], NEW h, NEW g
    PROVE  Unlocked(mu, h, g) \in [Handles -> Goroutines \cup {Nobody}]
BY DEF Unlocked

\* Whoever runs something is busy with a Session that is in use.
LEMMA Busy ==
    ASSUME TypeOK, OperationsOK, HandlesOK, NEW g \in Goroutines,
           go[g].op # "none"
    PROVE  /\ go[g].h \in Handles /\ owned[go[g].h] # "unused"
           /\ ref[go[g].h] \in Refs
BY DEF OperationsOK, OperationOK, HandlesOK

\* Only handshakes are made for nobody.
LEMMA Something ==
    ASSUME OperationsOK, NEW g \in Goroutines,
           go[g].at \notin {"idle", "dropped"} \cup Shaking
    PROVE  go[g].op # "none"
BY DEF OperationsOK, OperationOK, Legal, Shaking

\* Whoever gives up on a Session may be the one who creates or restores it.
LEMMA RunsAgain ==
    ASSUME NEW g \in Goroutines, NEW o, NEW n, Runs(g, o), n.h = o.h,
           \/ o.op \in {"publish", "join", "restore"} /\ n.op = "discard"
           \/ o.op \in {"publish", "join"} /\ n.op = "close"
    PROVE  Runs(g, n)
<1>1. n.op \in Application /\ n.op # "none" /\ o.op # "none"
  BY DEF Application
<1>2. g # Rta /\ \A h \in Handles : g # Closer(h)
  BY <1>1 DEF Runs
<1>3. ASSUME NEW h \in Handles, g = Restorer(h)
      PROVE  o.h = h /\ n.op = "discard"
  BY <1>1, <1>3 DEF Runs
<1> QED BY <1>1, <1>2, <1>3 DEF Runs

\* What the directory sends back is a document.
LEMMA WriteType ==
    ASSUME TypeOK, NEW r \in Refs, NEW c \in Connections, Write(r, c)
    PROVE  /\ server' \in [Refs -> [alive : BOOLEAN, version : Versions,
                                    connection : Connections]]
           /\ server'[r].version = server[r].version + 1
           /\ server'[r].connection = c
           /\ \A s \in Refs : s # r => server'[s] = server[s]
           /\ [version |-> server'[r].version, connection |-> c] \in Document
<1>1. server[r].version + 1 \in Versions
  BY MpsdAssumption DEF Write, TypeOK, Versions
<1>2. [alive |-> TRUE, version |-> server[r].version + 1, connection |-> c]
        \in [alive : BOOLEAN, version : Versions, connection : Connections]
  BY <1>1
<1> QED BY <1>1, <1>2 DEF Write, TypeOK, Document

\* A document that ends is one.
LEMMA EndType ==
    ASSUME TypeOK, NEW r \in Refs,
           server' = [server EXCEPT ![r].alive = FALSE,
                                    ![r].connection = NoConnection]
    PROVE  /\ server' \in [Refs -> [alive : BOOLEAN, version : Versions,
                                    connection : Connections]]
           /\ server'[r].version = server[r].version
           /\ server'[r].connection = NoConnection
           /\ \A s \in Refs : s # r => server'[s] = server[s]
<1> DEFINE D == [alive : BOOLEAN, version : Versions, connection : Connections]
           d == server[r]
<1>0. server \in [Refs -> D] /\ d \in D
  BY DEF TypeOK
<1>1. \A e \in D : [e EXCEPT !.alive = FALSE, !.connection = NoConnection] \in D
  BY ZeroTypes
<1>2. \A e \in D :
        LET n == [e EXCEPT !.alive = FALSE, !.connection = NoConnection]
        IN  n.version = e.version /\ n.connection = NoConnection
  OBVIOUS
<1> HIDE DEF D
<1>3. server' \in [Refs -> D]
      /\ server'[r] = [d EXCEPT !.alive = FALSE, !.connection = NoConnection]
      /\ \A s \in Refs : s # r => server'[s] = server[s]
  BY <1>0, <1>1
<1> QED BY <1>0, <1>2, <1>3 DEF D

-----------------------------------------------------------------------------
(* What the actions of a goroutine do to its operation.                    *)

\* It stays with its operation and gets to p.
Stays(g, p) ==
    LET o == go[g]
    IN  Moved(g, p, o.op, o.h, o.req)
        /\ Carries(g, o.connection, o.seen, o.status, o.body)

\* It makes the request r.
Asks(g, p, r) ==
    LET o == go[g]
    IN  Moved(g, p, o.op, o.h, r)
        /\ Carries(g, o.connection, o.seen, o.status, o.body)

\* It gets to know the connection id c.
Learns(g, p, c) ==
    LET o == go[g]
    IN  Moved(g, p, o.op, o.h, o.req)
        /\ Carries(g, c, o.seen, o.status, o.body)

\* It creates or joins the document, with the connection id c.
Puts(g, c) ==
    LET o == go[g]
    IN  Moved(g, "sent", o.op, o.h, "put")
        /\ Carries(g, c, o.seen, o.status, o.body)

\* It is answered.
Gets(g, s, b) ==
    LET o == go[g]
    IN  Moved(g, "answered", o.op, o.h, o.req)
        /\ Carries(g, o.connection, o.seen, s, b)

\* It starts operation q on h, at p.
Begins(g, p, q, h, r) ==
    Moved(g, p, q, h, r) /\ Carries(g, NoConnection, 0, "none", Empty)

Ends(g) == Begins(g, "idle", "none", NoHandle, "none")

\* It closes the Session that it cannot create or reconcile.
GivesUp(g, q) == Begins(g, "close", q, go[g].h, "none")

\* It has got hold of the subscription.
Subscribed(g) ==
    \/ go[g].req = "none" /\ Puts(g, data')
    \/ go[g].req # "none" /\ Stays(g, "reconcile")

\* The connection id that a request writes.
Written(o) ==
    CASE o.req \in {"connect", "put"} -> o.connection
      [] o.req = "leave" -> NoConnection
      [] OTHER -> server[ref[o.h]].connection

\* The directory has written the document r, or not.
Rewritten(r, version, connection) ==
    /\ server' \in [Refs -> [alive : BOOLEAN, version : Versions,
                             connection : Connections]]
    /\ server'[r].version = version /\ server'[r].connection = connection
    /\ \A s \in Refs : s # r => server'[s] = server[s]

\* The requests.
LEMMA DeliveryEffects ==
    ASSUME TypeOK, OperationsOK, HandlesOK, NEW g \in Goroutines
    PROVE  LET o == go[g]
               d == server[ref[o.h]]
           IN  /\ DeliverUpdate(g) \/ DeliverPut(g) =>
                    \/ /\ Rewritten(ref[o.h], d.version + 1, Written(o))
                       /\ Gets(g, "ok", [version |-> d.version + 1,
                                         connection |-> Written(o)])
                       /\ [version |-> d.version + 1, connection |-> Written(o)]
                             \in Document
                    \/ /\ Rewritten(ref[o.h], d.version, NoConnection)
                       /\ o.req # "put" /\ Gets(g, "deleted", Empty)
                    \/ /\ o.req = "put" /\ UNCHANGED server
                       /\ \E b \in Document : Gets(g, "conflict", b)
               /\ DeliverGet(g) =>
                    \/ Gets(g, "deleted", Empty)
                    \/ Gets(g, "same", Empty) /\ d.version = etag[o.h]
                    \/ /\ Gets(g, "ok", [version |-> d.version,
                                         connection |-> d.connection])
                       /\ [version |-> d.version, connection |-> d.connection]
                             \in Document
<1> DEFINE o == go[g]
           d == server[ref[o.h]]
           r == ref[o.h]
<1>0. Typed(go) /\ o \in Operation /\ OperationOK(g, o)
  BY DEF TypeOK, Typed, OperationsOK
<1>1. ASSUME DeliverUpdate(g)
      PROVE  \/ /\ Rewritten(r, d.version + 1, Written(o))
                /\ Gets(g, "ok", [version |-> d.version + 1,
                                  connection |-> Written(o)])
                /\ [version |-> d.version + 1, connection |-> Written(o)]
                      \in Document
             \/ /\ Rewritten(r, d.version, NoConnection)
                /\ o.req # "put" /\ Gets(g, "deleted", Empty)
  <2>1. o.h \in Handles /\ r \in Refs /\ Written(o) \in Connections
    BY <1>0, <1>1, Busy, Something, ZeroTypes
       DEF DeliverUpdate, TypeOK, Operation, Written, Shaking
  <2>2. o.req # "put"
    BY <1>1 DEF DeliverUpdate
  <2>3. \/ /\ Write(r, Written(o))
           /\ Answered(g, "ok", [version |-> server'[r].version,
                                 connection |-> Written(o)])
        \/ /\ server' = [server EXCEPT ![r].alive = FALSE,
                                       ![r].connection = NoConnection]
           /\ Answered(g, "deleted", Empty)
    BY <1>1, <2>2 DEF DeliverUpdate, Written
  <2>4. CASE /\ Write(r, Written(o))
             /\ Answered(g, "ok", [version |-> server'[r].version,
                                   connection |-> Written(o)])
    <3>1. Rewritten(r, d.version + 1, Written(o))
      BY <2>1, <2>4, WriteType DEF Rewritten
    <3> QED BY <1>0, <2>1, <2>4, <3>1, WriteType, AnsweredMoves
            DEF Statuses, Gets, Rewritten
  <2>5. CASE /\ server' = [server EXCEPT ![r].alive = FALSE,
                                         ![r].connection = NoConnection]
             /\ Answered(g, "deleted", Empty)
    <3>1. Rewritten(r, d.version, NoConnection)
      BY <2>1, <2>5, EndType DEF Rewritten
    <3> QED BY <1>0, <2>2, <2>5, <3>1, ZeroTypes, AnsweredMoves
            DEF Statuses, Gets
  <2> QED BY <2>3, <2>4, <2>5
<1>2. ASSUME DeliverPut(g)
      PROVE  \/ /\ Rewritten(r, d.version + 1, Written(o))
                /\ Gets(g, "ok", [version |-> d.version + 1,
                                  connection |-> Written(o)])
                /\ [version |-> d.version + 1, connection |-> Written(o)]
                      \in Document
             \/ /\ o.req = "put" /\ UNCHANGED server
                /\ \E b \in Document : Gets(g, "conflict", b)
  <2>1. o.h \in Handles /\ r \in Refs /\ o.connection \in Connections
    BY <1>0, <1>2, Busy, Something DEF DeliverPut, TypeOK, Operation, Shaking
  <2>2. o.req = "put" /\ Written(o) = o.connection
    BY <1>2 DEF DeliverPut, Written
  <2>3. \/ /\ Write(r, o.connection)
           /\ Answered(g, "ok", [version |-> server'[r].version,
                                 connection |-> o.connection])
        \/ /\ \E v \in {0, server[r].version} :
                Answered(g, "conflict", [Empty EXCEPT !.version = v])
           /\ UNCHANGED server
    BY <1>2 DEF DeliverPut
  <2>4. CASE /\ Write(r, o.connection)
             /\ Answered(g, "ok", [version |-> server'[r].version,
                                   connection |-> o.connection])
    <3>1. Rewritten(r, d.version + 1, Written(o))
      BY <2>1, <2>2, <2>4, WriteType DEF Rewritten
    <3> QED BY <1>0, <2>1, <2>2, <2>4, <3>1, WriteType, AnsweredMoves
            DEF Statuses, Gets, Rewritten
  <2>5. ASSUME NEW v \in {0, server[r].version},
               Answered(g, "conflict", [Empty EXCEPT !.version = v])
        PROVE  \E b \in Document : Gets(g, "conflict", b)
    <3>1. [Empty EXCEPT !.version = v] \in Document
      BY <2>1, ZeroTypes DEF TypeOK, Document, Empty
    <3> QED BY <1>0, <2>5, <3>1, AnsweredMoves DEF Statuses, Gets
  <2> QED BY <2>2, <2>3, <2>4, <2>5
<1>3. ASSUME DeliverGet(g)
      PROVE  \/ Gets(g, "deleted", Empty)
             \/ Gets(g, "same", Empty) /\ d.version = etag[o.h]
             \/ /\ Gets(g, "ok", [version |-> d.version,
                                  connection |-> d.connection])
                /\ [version |-> d.version, connection |-> d.connection] \in Document
  <2>1. [version |-> d.version, connection |-> d.connection] \in Document
    BY <1>0, <1>3, Busy, Something DEF DeliverGet, TypeOK, Document, Shaking
  <2>2. \/ Answered(g, "deleted", Empty)
        \/ Answered(g, "same", Empty) /\ d.version = etag[o.h]
        \/ Answered(g, "ok", [version |-> d.version, connection |-> d.connection])
    BY <1>3 DEF DeliverGet
  <2> QED BY <1>0, <2>1, <2>2, ZeroTypes, AnsweredMoves DEF Statuses, Gets
<1> QED BY <1>1, <1>2, <1>3

\* The answers to update, Sync and the requests of Publish and Join.
LEMMA ReceiveEffects ==
    ASSUME TypeOK, OperationsOK, HandlesOK, NEW g \in Goroutines
    PROVE  LET o == go[g]
           IN  /\ ReceiveOk(g) =>
                    \/ o.req = "put" /\ Stays(g, "activity")
                    \/ o.req = "leave" /\ Stays(g, "closeLocked")
                    \/ o.req = "get" /\ o.op = "tap" /\ Stays(g, "callback")
                    \/ /\ o.req # "put" /\ o.req # "leave" /\ o.op # "tap"
                       /\ Ends(g)
               /\ ReceiveSame(g) =>
                    \/ o.op = "tap" /\ Stays(g, "callback")
                    \/ o.op # "tap" /\ Ends(g)
               /\ ReceiveDeleted(g) =>
                    \/ o.req = "leave" /\ Stays(g, "clearLocked")
                    \/ o.req # "leave" /\ Stays(g, "markDeleted")
               /\ ReceiveMissing(g) => Ends(g)
               /\ JoinRetries(g) => /\ Moved(g, "sent", o.op, o.h, o.req)
                                    /\ Carries(g, o.connection, o.seen, "none", Empty)
               /\ Fails(g) =>
                    \/ o.req = "connect" /\ GivesUp(g, "discard")
                    \/ o.req = "leave" /\ o.op # "close" /\ Stays(g, "force")
                    \/ o.req # "connect" /\ Ends(g)
               /\ UpdateFindsClosed(g) =>
                    \/ o.req = "connect" /\ o.op # "restore" /\ GivesUp(g, "discard")
                    \/ o.req = "leave" /\ o.op # "close" /\ Stays(g, "force")
                    \/ o.req = "connect" /\ o.op = "restore" /\ Ends(g)
                    \/ o.req # "connect" /\ Ends(g)
<1> DEFINE o == go[g]
<1>0. Typed(go) /\ o \in Operation /\ OperationOK(g, o)
  BY DEF TypeOK, Typed, OperationsOK
<1> USE DEF Stays, Ends, Begins, GivesUp
<1>1. ASSUME ReceiveOk(g)
      PROVE  \/ o.req = "put" /\ Stays(g, "activity")
             \/ o.req = "leave" /\ Stays(g, "closeLocked")
             \/ o.req = "get" /\ o.op = "tap" /\ Stays(g, "callback")
             \/ /\ o.req # "put" /\ o.req # "leave" /\ o.op # "tap"
                /\ Ends(g)
  <2>1. \/ o.req = "put" /\ Goto(g, "activity")
        \/ o.req = "leave" /\ Goto(g, "closeLocked")
        \/ o.req = "get" /\ o.op = "tap" /\ Goto(g, "callback")
        \/ /\ o.req # "put" /\ o.req # "leave" /\ o.op # "tap"
           /\ go' = [go EXCEPT ![g] = Idle]
    BY <1>0, <1>1 DEF ReceiveOk, Goto, OperationOK, Legal, Getting
  <2> QED BY <1>0, <2>1, GotoMoves, DoneMoves DEF Places
<1>2. ASSUME ReceiveSame(g)
      PROVE  \/ o.op = "tap" /\ Stays(g, "callback")
             \/ o.op # "tap" /\ Ends(g)
  BY <1>0, <1>2, GotoMoves, DoneMoves DEF ReceiveSame, Done, Places
<1>3. ASSUME ReceiveDeleted(g)
      PROVE  \/ o.req = "leave" /\ Stays(g, "clearLocked")
             \/ o.req # "leave" /\ Stays(g, "markDeleted")
  BY <1>0, <1>3, GotoMoves DEF ReceiveDeleted, Places
<1>4. ASSUME ReceiveMissing(g) PROVE Ends(g)
  BY <1>0, <1>4, DoneMoves DEF ReceiveMissing, Done
<1>5. ASSUME JoinRetries(g)
      PROVE  /\ Moved(g, "sent", o.op, o.h, o.req)
             /\ Carries(g, o.connection, o.seen, "none", Empty)
  <2> DEFINE n == [o EXCEPT !.at = "sent", !.status = "none", !.attempt = @ + 1,
                            !.match = o.body.version, !.body = Empty]
  <2>1. n \in Operation
    BY <1>0, <1>5, RetryType, ZeroTypes DEF JoinRetries, Operation, Document
  <2>2. n.at = "sent" /\ n.op = o.op /\ n.h = o.h /\ n.req = o.req
        /\ n.connection = o.connection /\ n.seen = o.seen
        /\ n.status = "none" /\ n.body = Empty
    BY <1>0 DEF Operation
  <2> HIDE DEF n
  <2>3. go' = [go EXCEPT ![g] = n]
    BY <1>5 DEF JoinRetries, n
  <2> QED BY <1>0, <2>1, <2>2, <2>3 DEF Moved, Carries, Typed
<1>6. ASSUME Fails(g)
      PROVE  \/ o.req = "connect" /\ GivesUp(g, "discard")
             \/ o.req = "leave" /\ o.op # "close" /\ Stays(g, "force")
             \/ o.req # "connect" /\ Ends(g)
  <2>1. o.h \in Handles
    BY <1>6, Busy, Something DEF Fails, Shaking
  <2>2. ReturnsError(g, FALSE)
    BY <1>6 DEF Fails
  <2> QED BY <1>0, <2>1, <2>2, ErrorMoves
<1>7. ASSUME UpdateFindsClosed(g)
      PROVE  \/ o.req = "connect" /\ o.op # "restore" /\ GivesUp(g, "discard")
             \/ o.req = "leave" /\ o.op # "close" /\ Stays(g, "force")
             \/ o.req = "connect" /\ o.op = "restore" /\ Ends(g)
             \/ o.req # "connect" /\ Ends(g)
  <2>1. o.h \in Handles
    BY <1>7, Busy, Something DEF UpdateFindsClosed, Shaking
  <2>2. ReturnsError(g, TRUE)
    BY <1>7 DEF UpdateFindsClosed
  <2> QED BY <1>0, <2>1, <2>2, ErrorMoves
<1> QED BY <1>1, <1>2, <1>3, <1>4, <1>5, <1>6, <1>7

\* The steps within the process, but for HandleSubscribe and HandleError.
LEMMA ProceedEffects ==
    ASSUME TypeOK, OperationsOK, HandlesOK, NEW g \in Goroutines
    PROVE  LET o == go[g]
           IN  /\ UpdateLocks(g) \/ SyncSends(g) => Stays(g, "sent")
               /\ MarkDeleted(g) => \/ o.req = "custom" /\ Ends(g)
                                    \/ o.req = "connect" /\ GivesUp(g, "discard")
               /\ SyncLocks(g) => Asks(g, "syncLocked", "get")
               /\ CloseLocks(g) => Asks(g, "update", "leave")
               /\ Connect(g) => Asks(g, "update", "connect")
               /\ CloseReturns(g) => Ends(g)
               /\ CloseFinishes(g) => Ends(g)
               /\ ForceClose(g) => Ends(g)
               /\ AlreadyCurrent(g) => Ends(g)
               /\ CallbackReturns(g) => Ends(g)
               /\ SubscribeLocks(g) => Stays(g, "rta")
               /\ SubscriptionIsActive(g) => Subscribed(g)
               /\ Bind(g) => Stays(g, "subscribe")
               /\ ActivityFails(g) => GivesUp(g, "close")
               /\ ReconcileLocks(g) => Learns(g, "connect", data)
               /\ HandshakeStarts(g) => Stays(g, "handshake")
               /\ HandshakeSucceeds(g) => Learns(g, "handle", connections')
               /\ HandshakeFails(g) => \/ o.req = "none" /\ Ends(g)
                                       \/ o.req = "put" /\ GivesUp(g, "discard")
               /\ HandleSubscribeReturns(g) => \/ g = Rta /\ Ends(g)
                                               \/ g # Rta /\ Subscribed(g)
               /\ ReadLocks(g) => \/ o.op = "tap" /\ Stays(g, "sync")
                                  \/ o.op = "lost" /\ Stays(g, "close")
<1> DEFINE o == go[g]
<1>0. Typed(go) /\ o \in Operation /\ OperationOK(g, o)
  BY DEF TypeOK, Typed, OperationsOK
<1> USE DEF Stays, Ends, Begins, GivesUp
<1>1. UpdateLocks(g) \/ SyncSends(g) => Stays(g, "sent")
  BY <1>0, GotoMoves DEF UpdateLocks, SyncSends, Places
<1>2. ASSUME MarkDeleted(g)
      PROVE  \/ o.req = "custom" /\ Ends(g)
             \/ o.req = "connect" /\ GivesUp(g, "discard")
  <2>1. o.h \in Handles /\ o.req \in {"custom", "connect"}
    BY <1>0, <1>2, Busy, Something
       DEF MarkDeleted, OperationOK, Legal, Subscribing, Shaking, Updating,
           Leaving, Getting
  <2>2. CASE o.req = "custom"
    BY <1>0, <1>2, <2>2, DoneMoves DEF MarkDeleted
  <2>3. CASE o.req = "connect"
    <3>1. go' = [go EXCEPT ![g] =
                   [Idle EXCEPT !.at = "close", !.op = "discard", !.h = o.h]]
      BY <1>2, <2>3 DEF MarkDeleted
    <3> QED BY <1>0, <2>1, <2>3, <3>1, BeginMoves DEF Places, Operations
  <2> QED BY <2>1, <2>2, <2>3
<1>3. /\ SyncLocks(g) => Asks(g, "syncLocked", "get")
      /\ CloseLocks(g) => Asks(g, "update", "leave")
      /\ Connect(g) => Asks(g, "update", "connect")
  BY <1>0, RequestMoves
     DEF SyncLocks, CloseLocks, Connect, Places, Requests, Asks
<1>4. /\ CloseReturns(g) => Ends(g)
      /\ CloseFinishes(g) => Ends(g)
      /\ ForceClose(g) => Ends(g)
      /\ AlreadyCurrent(g) => Ends(g)
      /\ CallbackReturns(g) => Ends(g)
  BY <1>0, DoneMoves
     DEF CloseReturns, CloseFinishes, ForceClose, AlreadyCurrent,
         CallbackReturns, Done
<1>5. SubscribeLocks(g) => Stays(g, "rta")
  BY <1>0, GotoMoves DEF SubscribeLocks, Places
<1>6. SubscriptionIsActive(g) => Subscribed(g)
  BY <1>0, SubscribeReturnsMoves
     DEF SubscriptionIsActive, TypeOK, Subscribed, Puts
<1>7. Bind(g) => Stays(g, "subscribe")
  BY <1>0, GotoMoves DEF Bind, Places
<1>8. ASSUME ActivityFails(g) PROVE GivesUp(g, "close")
  <2>1. o.h \in Handles
    BY <1>8, Busy, Something DEF ActivityFails, Shaking
  <2> QED BY <1>0, <1>8, <2>1, BeginMoves DEF ActivityFails, Places, Operations
<1>9. ReconcileLocks(g) => Learns(g, "connect", data)
  BY <1>0, ConnectionMoves DEF ReconcileLocks, Places, TypeOK, Learns
<1>10. HandshakeStarts(g) => Stays(g, "handshake")
  BY <1>0, GotoMoves DEF HandshakeStarts, Places
<1>11. ASSUME HandshakeSucceeds(g) PROVE Learns(g, "handle", connections')
  <2>1. connections' \in Connections
    BY <1>11, MpsdAssumption
       DEF HandshakeSucceeds, TypeOK, Connections, NoConnection
  <2> QED BY <1>0, <1>11, <2>1, ConnectionMoves
          DEF HandshakeSucceeds, Places, Learns
<1>12. ASSUME HandshakeFails(g)
       PROVE  \/ o.req = "none" /\ Ends(g)
              \/ o.req = "put" /\ GivesUp(g, "discard")
  <2>1. o.req \in {"none", "put"}
        /\ (o.req # "none" => o.op \in {"publish", "join"} /\ o.h \in Handles)
    BY <1>0, <1>12
       DEF HandshakeFails, OperationOK, Legal, Subscribing, Shaking, Updating,
           Leaving, Getting
  <2> QED BY <1>0, <1>12, <2>1, SubscribeFailsMoves DEF HandshakeFails
<1>13. HandleSubscribeReturns(g) => \/ g = Rta /\ Ends(g)
                                    \/ g # Rta /\ Subscribed(g)
  BY <1>0, SubscribeReturnsMoves, DoneMoves
     DEF HandleSubscribeReturns, TypeOK, Subscribed, Puts, Done
<1>14. ASSUME ReadLocks(g)
       PROVE  \/ o.op = "tap" /\ Stays(g, "sync")
              \/ o.op = "lost" /\ Stays(g, "close")
  <2>1. o.op \in {"tap", "lost"}
    BY <1>0, <1>14
       DEF ReadLocks, OperationOK, Legal, Subscribing, Shaking, Updating,
           Leaving, Getting
  <2> QED BY <1>0, <1>14, <2>1, GotoMoves DEF ReadLocks, Places
<1> QED BY <1>1, <1>2, <1>3, <1>4, <1>5, <1>6, <1>7, <1>8, <1>9, <1>10, <1>11,
           <1>12, <1>13, <1>14

\* The goroutine k is h's in what HandleSubscribe, or HandleError, starts.
Started(k, p, q, h, c) ==
    LET n == go'[k]
    IN  /\ n.at = p /\ n.op = q /\ n.h = h /\ n.req = "none"
        /\ n.connection = c /\ n.seen = 0 /\ n.status = "none" /\ n.body = Empty

\* HandleSubscribe starts a goroutine for each Session in the table.
Restores(g) ==
    /\ Typed(go')
    /\ LET o == go[g]
       IN  /\ go'[g].at = "restoring" /\ go'[g].op = o.op /\ go'[g].h = o.h
           /\ go'[g].req = o.req
           /\ Carries(g, o.connection, o.seen, o.status, o.body)
    /\ \A k \in Goroutines : k # g =>
          \/ \E h \in Bound : /\ k = Restorer(h)
                              /\ Started(k, "connect", "restore", h, go[g].connection)
          \/ go'[k] = go[k] /\ \A h \in Bound : k # Restorer(h)

\* So does HandleError.
Closes ==
    /\ Typed(go')
    /\ \A k \in Goroutines :
          \/ \E h \in Bound : /\ k = Closer(h)
                              /\ Started(k, "read", "lost", h, NoConnection)
          \/ go'[k] = go[k]

\* The handlers of the subscription.
LEMMA HandlerEffects ==
    ASSUME TypeOK
    PROVE  /\ \A g \in Goroutines : HandleSubscribe(g) => Restores(g)
           /\ HandleError => Closes
<1>0. Typed(go) /\ Bound \subseteq Handles
  BY DEF TypeOK, Typed, Bound
<1>1. ASSUME NEW g \in Goroutines, HandleSubscribe(g) PROVE Restores(g)
  <2> DEFINE o == go[g]
             restore(h) == [Idle EXCEPT !.at = "connect", !.op = "restore",
                                        !.h = h, !.connection = data']
             n == [o EXCEPT !.at = "restoring"]
  <2>1. data' \in Connections /\ data' = o.connection
    BY <1>0, <1>1 DEF HandleSubscribe, Operation, Typed
  <2>2. ASSUME NEW h \in Handles PROVE restore(h) \in Operation
    <3>1. "connect" \in Places /\ "restore" \in Operations
      BY DEF Places, Operations
    <3> QED BY <2>1, <3>1, BeginType
  <2>3. ASSUME NEW h \in Handles
        PROVE  /\ restore(h).at = "connect" /\ restore(h).op = "restore"
               /\ restore(h).h = h /\ restore(h).req = "none"
               /\ restore(h).connection = data' /\ restore(h).seen = 0
               /\ restore(h).status = "none" /\ restore(h).body = Empty
    BY DEF Idle
  <2>4. n \in Operation
    BY <1>0, UpdateType DEF Places, Typed
  <2>5. /\ n.at = "restoring" /\ n.op = o.op /\ n.h = o.h /\ n.req = o.req
        /\ n.connection = o.connection /\ n.seen = o.seen
        /\ n.status = o.status /\ n.body = o.body
    <3>1. \A e \in Operation :
            LET m == [e EXCEPT !.at = "restoring"]
            IN  /\ m.at = "restoring" /\ m.op = e.op /\ m.h = e.h /\ m.req = e.req
                /\ m.connection = e.connection /\ m.seen = e.seen
                /\ m.status = e.status /\ m.body = e.body
      BY DEF Operation
    <3>2. o \in Operation
      BY <1>0 DEF Typed
    <3> QED BY <3>1, <3>2
  <2> HIDE DEF restore, n
  <2>6. \A k \in Goroutines :
          go'[k] = IF k = g THEN n
                   ELSE IF k \in {Restorer(h) : h \in Bound} THEN restore(k[2])
                   ELSE go[k]
    BY <1>1 DEF HandleSubscribe, restore, n
  <2>7. \A h \in Bound : Restorer(h)[2] = h
    BY <1>0, GoroutineKinds
  <2>8. \A k \in Goroutines : k # g =>
            \/ \E h \in Bound : k = Restorer(h) /\ go'[k] = restore(h)
            \/ go'[k] = go[k] /\ \A h \in Bound : k # Restorer(h)
    BY <2>6, <2>7
  <2>9. Typed(go')
    <3>1. go' = [k \in Goroutines |-> go'[k]]
      BY <1>1 DEF HandleSubscribe
    <3>2. \A k \in Goroutines : go'[k] \in Operation
      BY <1>0, <2>2, <2>4, <2>6, <2>8 DEF Typed
    <3> QED BY <3>1, <3>2 DEF Typed
  <2>10. go'[g] = n
    BY <2>6
  <2>11. ASSUME NEW h \in Bound, go'[Restorer(h)] = restore(h)
         PROVE  Started(Restorer(h), "connect", "restore", h, go[g].connection)
    BY <1>0, <2>1, <2>3, <2>11 DEF Started
  <2> QED BY <2>5, <2>8, <2>9, <2>10, <2>11 DEF Restores, Carries
<1>2. ASSUME HandleError PROVE Closes
  <2> DEFINE close(h) == [Idle EXCEPT !.at = "read", !.op = "lost", !.h = h]
  <2>1. ASSUME NEW h \in Handles PROVE close(h) \in Operation
    <3>1. "read" \in Places /\ "lost" \in Operations
      BY DEF Places, Operations
    <3> QED BY <3>1, BeginType
  <2>2. ASSUME NEW h \in Handles
        PROVE  /\ close(h).at = "read" /\ close(h).op = "lost"
               /\ close(h).h = h /\ close(h).req = "none"
               /\ close(h).connection = NoConnection /\ close(h).seen = 0
               /\ close(h).status = "none" /\ close(h).body = Empty
    BY DEF Idle
  <2> HIDE DEF close
  <2>3. \A k \in Goroutines :
          go'[k] = IF k \in {Closer(h) : h \in Bound} THEN close(k[2]) ELSE go[k]
    BY <1>2 DEF HandleError, close
  <2>4. \A h \in Bound : Closer(h)[2] = h
    BY <1>0, GoroutineKinds
  <2>5. \A k \in Goroutines :
            \/ \E h \in Bound : k = Closer(h) /\ go'[k] = close(h)
            \/ go'[k] = go[k]
    BY <2>3, <2>4
  <2>6. Typed(go')
    <3>1. go' = [k \in Goroutines |-> go'[k]]
      BY <1>2 DEF HandleError
    <3>2. \A k \in Goroutines : go'[k] \in Operation
      BY <1>0, <2>1, <2>5 DEF Typed
    <3> QED BY <3>1, <3>2 DEF Typed
  <2>7. ASSUME NEW h \in Bound, go'[Closer(h)] = close(h)
        PROVE  Started(Closer(h), "read", "lost", h, NoConnection)
    BY <1>0, <2>2, <2>7 DEF Started
  <2> QED BY <2>5, <2>6, <2>7 DEF Closes
<1> QED BY <1>1, <1>2

\* The application, the events and RTA.
LEMMA StartEffects ==
    ASSUME TypeOK, OperationsOK, HandlesOK, TableOK
    PROVE  /\ \A g \in Goroutines, h \in Handles :
                /\ \A op \in {"set", "sync", "close"} : Call(g, h, op) =>
                      \/ op = "set" /\ Begins(g, "update", op, h, "custom")
                      \/ op # "set" /\ Begins(g, op, op, h, "none")
                /\ \A r \in Refs, op \in {"publish", "join"} :
                      Create(g, h, r, op) => Begins(g, "subscribe", op, h, "none")
           /\ \A h \in Handles : HandleEvent(h) =>
                 /\ Moved(Tapper(h), "read", "tap", h, "none")
                 /\ Carries(Tapper(h), NoConnection, server[ref[h]].version,
                            "none", Empty)
           /\ Drop => Stays(Rta, "dropped")
           /\ \A r \in Refs : OthersWrite(r) =>
                 \/ Rewritten(r, server[r].version + 1, server[r].connection)
                 \/ Rewritten(r, server[r].version, NoConnection)
<1>0. Typed(go)
  BY DEF TypeOK, Typed
<1>1. ASSUME NEW g \in Goroutines, NEW h \in Handles,
             NEW op \in {"set", "sync", "close"}, Call(g, h, op)
      PROVE  \/ op = "set" /\ Begins(g, "update", op, h, "custom")
             \/ op # "set" /\ Begins(g, op, op, h, "none")
  <2>1. CASE op = "set"
    <3> DEFINE n == [Idle EXCEPT !.at = "update", !.op = "set", !.h = h,
                                 !.req = "custom"]
    <3>1. n \in Operation
      <4>1. "update" \in Places /\ "set" \in Operations /\ "custom" \in Requests
        BY DEF Places, Operations, Requests
      <4> QED BY <4>1, BeginType
    <3>2. go' = [go EXCEPT ![g] = n]
      BY <1>1, <2>1 DEF Call
    <3> QED BY <1>0, <2>1, <3>1, <3>2 DEF Begins, Moved, Carries, Typed, Idle
  <2>2. CASE op # "set"
    <3>1. go' = [go EXCEPT ![g] = [Idle EXCEPT !.at = op, !.op = op, !.h = h]]
      BY <1>1, <2>2 DEF Call
    <3>2. op \in Places /\ op \in Operations
      BY <2>2 DEF Places, Operations
    <3> QED BY <1>0, <2>2, <3>1, <3>2, BeginMoves DEF Begins
  <2> QED BY <2>1, <2>2
<1>2. ASSUME NEW g \in Goroutines, NEW h \in Handles, NEW r \in Refs,
             NEW op \in {"publish", "join"}, Create(g, h, r, op)
      PROVE  Begins(g, "subscribe", op, h, "none")
  <2>1. go' = [go EXCEPT ![g] =
                 [Idle EXCEPT !.at = "subscribe", !.op = op, !.h = h]]
    BY <1>2 DEF Create
  <2>2. "subscribe" \in Places /\ op \in Operations
    BY DEF Places, Operations
  <2> QED BY <1>0, <2>1, <2>2, BeginMoves DEF Begins
<1>3. ASSUME NEW h \in Handles, HandleEvent(h)
      PROVE  /\ Moved(Tapper(h), "read", "tap", h, "none")
             /\ Carries(Tapper(h), NoConnection, server[ref[h]].version,
                        "none", Empty)
  <2> DEFINE g == Tapper(h)
             v == server[ref[h]].version
             n == [Idle EXCEPT !.at = "read", !.op = "tap", !.h = h, !.seen = v]
  <2>1. ref[h] \in Refs
    BY <1>3 DEF HandleEvent, Bound, TableOK, TypeOK, HandlesOK
  <2>2. n \in Operation
    <3>1. "read" \in Places /\ "tap" \in Operations /\ v \in Versions
      BY <2>1 DEF Places, Operations, TypeOK
    <3> QED BY <3>1, BeginType
  <2>3. n.at = "read" /\ n.op = "tap" /\ n.h = h /\ n.req = "none"
        /\ n.connection = NoConnection /\ n.seen = v /\ n.status = "none"
        /\ n.body = Empty
    BY DEF Idle
  <2> HIDE DEF n
  <2>4. g \in Goroutines
    BY GoroutineKinds
  <2>5. go' = [go EXCEPT ![g] = n]
    BY <1>3 DEF HandleEvent, n
  <2> QED BY <1>0, <2>2, <2>3, <2>4, <2>5 DEF Moved, Carries, Typed
<1>4. ASSUME Drop PROVE Stays(Rta, "dropped")
  BY <1>0, <1>4, GoroutineKinds, GotoMoves DEF Drop, Places, Stays
<1>5. ASSUME NEW r \in Refs, OthersWrite(r)
      PROVE  \/ Rewritten(r, server[r].version + 1, server[r].connection)
             \/ Rewritten(r, server[r].version, NoConnection)
  <2>1. server[r].connection \in Connections
    BY DEF TypeOK
  <2> QED BY <1>5, <2>1, WriteType, EndType DEF OthersWrite, Rewritten
<1> QED BY <1>1, <1>2, <1>3, <1>4, <1>5
-----------------------------------------------------------------------------
(* Types.                                                                  *)

\* A Session that is in use stays in use, with its document; one that is
\* closed stays closed; documents only get new versions.
Grows ==
    /\ \A h \in Handles : owned[h] # "unused" => owned'[h] # "unused" /\ ref'[h] = ref[h]
    /\ \A h \in Handles : closed[h] => closed'[h]
    /\ \A r \in Refs :
          server'[r].version \in {server[r].version, server[r].version + 1}

\* Whatever a goroutine does, the table of operations stays typed.
LEMMA EffectType ==
    ASSUME NEW g
    PROVE  /\ \A p : Stays(g, p) => Typed(go')
           /\ \A p, r : Asks(g, p, r) => Typed(go')
           /\ \A p, c : Learns(g, p, c) => Typed(go')
           /\ \A q : GivesUp(g, q) => Typed(go')
           /\ \A s, b : Gets(g, s, b) => Typed(go')
           /\ \A p, q, h, r : Begins(g, p, q, h, r) => Typed(go')
           /\ \A p, q, h, r : Moved(g, p, q, h, r) => Typed(go')
           /\ Subscribed(g) => Typed(go')
           /\ Ends(g) => Typed(go')
           /\ Restores(g) => Typed(go')
BY DEF Stays, Asks, Learns, GivesUp, Gets, Begins, Subscribed, Puts, Ends,
       Restores, Moved

\* Every step of a goroutine keeps the types and only lets grow.
LEMMA ProgressType ==
    ASSUME TypeOK, OperationsOK, HandlesOK, TableOK,
           NEW g \in Goroutines, Progress(g)
    PROVE  TypeOK' /\ Grows
<1> DEFINE o == go[g]
<1>0. o \in Operation /\ OperationOK(g, o)
  BY DEF TypeOK, OperationsOK
<1> USE DEF sessionVars, lockVars, rtaVars, history
<1>1. ASSUME UpdateLocks(g) PROVE TypeOK' /\ Grows
  <2>1. Typed(go')
    BY <1>1, ProceedEffects, EffectType
  <2>2. TypeOK'
    BY <1>0, <1>1, <2>1 DEF UpdateLocks, TypeOK, Typed
  <2> QED BY <1>1, <2>1, <2>2 DEF UpdateLocks, Grows
<1>2. ASSUME DeliverUpdate(g) PROVE TypeOK' /\ Grows
  <2>1. Typed(go')
    BY <1>2, DeliveryEffects, EffectType DEF DeliverUpdate
  <2>2. /\ server' \in [Refs -> [alive : BOOLEAN, version : Versions,
                                 connection : Connections]]
        /\ \A r \in Refs : 
              server'[r].version \in {server[r].version, server[r].version + 1}
    BY <1>2, <1>0, Busy, Something, DeliveryEffects
       DEF DeliverUpdate, Rewritten, Shaking, TypeOK
  <2>3. TypeOK'
    BY <1>0, <1>2, <2>1, <2>2 DEF DeliverUpdate, TypeOK, Typed
  <2> QED BY <1>2, <2>1, <2>2, <2>3 DEF DeliverUpdate, Grows
<1>3. ASSUME DeliverPut(g) PROVE TypeOK' /\ Grows
  <2>1. Typed(go')
    BY <1>3, DeliveryEffects, EffectType DEF DeliverPut
  <2>2. /\ server' \in [Refs -> [alive : BOOLEAN, version : Versions,
                                 connection : Connections]]
        /\ \A r \in Refs : 
              server'[r].version \in {server[r].version, server[r].version + 1}
    BY <1>3, <1>0, Busy, Something, DeliveryEffects
       DEF DeliverPut, Rewritten, Shaking, TypeOK
  <2>3. joined' \in [Handles -> Nat]
    BY <1>3, Busy, Something DEF DeliverPut, TypeOK, Shaking
  <2>4. TypeOK'
    BY <1>0, <1>3, <2>1, <2>2, <2>3 DEF DeliverPut, TypeOK, Typed
  <2> QED BY <1>3, <2>1, <2>2, <2>3, <2>4 DEF DeliverPut, Grows
<1>4. ASSUME DeliverGet(g) PROVE TypeOK' /\ Grows
  <2>1. Typed(go')
    BY <1>4, DeliveryEffects, EffectType
  <2>2. TypeOK'
    BY <1>0, <1>4, <2>1 DEF DeliverGet, TypeOK, Typed
  <2> QED BY <1>4, <2>1, <2>2 DEF DeliverGet, Grows
<1>5. ASSUME ReceiveOk(g) PROVE TypeOK' /\ Grows
  <2>1. Typed(go')
    BY <1>5, ReceiveEffects, EffectType
  <2>2. /\ owned' \in [Handles -> {"unused", "creating", "returned", "failed"}]
        /\ \A h \in Handles : owned[h] # "unused" => owned'[h] # "unused"
    BY <1>5, GivesInUse DEF ReceiveOk, TypeOK
  <2>3. o.body \in Document /\ o.body.version \in Versions
    BY <1>5, <1>0 DEF Operation, Document
  <2>4. cache' \in [Handles -> Document] /\ etag' \in [Handles -> Versions]
    BY <1>5, <2>3 DEF ReceiveOk, Store, TypeOK
  <2>5. TypeOK'
    BY <1>0, <1>5, <2>1, <2>2, <2>3, <2>4, UnlockType
       DEF ReceiveOk, TypeOK, Typed, Freed, Without
  <2> QED BY <1>5, <2>1, <2>2, <2>3, <2>4, <2>5 DEF ReceiveOk, Grows
<1>6. ASSUME ReceiveSame(g) PROVE TypeOK' /\ Grows
  <2>1. Typed(go')
    BY <1>6, ReceiveEffects, EffectType
  <2>2. TypeOK'
    BY <1>0, <1>6, <2>1, UnlockType DEF ReceiveSame, TypeOK, Typed, Without
  <2> QED BY <1>6, <2>1, <2>2 DEF ReceiveSame, Grows
<1>7. ASSUME ReceiveDeleted(g) PROVE TypeOK' /\ Grows
  <2>1. Typed(go')
    BY <1>7, ReceiveEffects, EffectType
  <2>2. TypeOK'
    BY <1>0, <1>7, <2>1, UnlockType DEF ReceiveDeleted, TypeOK, Typed
  <2> QED BY <1>7, <2>1, <2>2 DEF ReceiveDeleted, Grows
<1>8. ASSUME ReceiveMissing(g) PROVE TypeOK' /\ Grows
  <2>1. Typed(go')
    BY <1>8, ReceiveEffects, EffectType
  <2>2. /\ sessions' \in [Refs -> Handles \cup {NoHandle}]
        /\ closed' \in [Handles -> BOOLEAN]
        /\ \A h \in Handles : closed[h] => closed'[h]
    BY <1>8, ReleaseType DEF ReceiveMissing, Release, TypeOK
  <2>3. cache' \in [Handles -> Document] /\ etag' \in [Handles -> Versions]
    BY <1>8, ClearType DEF ReceiveMissing, TypeOK
  <2>4. TypeOK'
    BY <1>0, <1>8, <2>1, <2>2, <2>3, UnlockType
       DEF ReceiveMissing, TypeOK, Typed, Without
  <2> QED BY <1>8, <2>1, <2>2, <2>3, <2>4 DEF ReceiveMissing, Grows
<1>9. ASSUME JoinRetries(g) PROVE TypeOK' /\ Grows
  <2>1. Typed(go')
    BY <1>9, ReceiveEffects, EffectType
  <2>2. TypeOK'
    BY <1>0, <1>9, <2>1 DEF JoinRetries, TypeOK, Typed
  <2> QED BY <1>9, <2>1, <2>2 DEF JoinRetries, Grows
<1>10. ASSUME Fails(g) PROVE TypeOK' /\ Grows
  <2>1. Typed(go')
    BY <1>10, ReceiveEffects, EffectType
  <2>2. /\ owned' \in [Handles -> {"unused", "creating", "returned", "failed"}]
        /\ \A h \in Handles : owned[h] # "unused" => owned'[h] # "unused"
    BY <1>10, GivesInUse DEF Fails, ReturnsError, TypeOK
  <2>3. TypeOK'
    BY <1>0, <1>10, <2>1, <2>2, UnlockType
       DEF Fails, TypeOK, Typed, ReturnsError, Freed, Without
  <2> QED BY <1>10, <2>1, <2>2, <2>3 DEF Fails, Grows
<1>11. ASSUME UpdateFindsClosed(g) PROVE TypeOK' /\ Grows
  <2>1. Typed(go')
    BY <1>11, ReceiveEffects, EffectType
  <2>2. /\ owned' \in [Handles -> {"unused", "creating", "returned", "failed"}]
        /\ \A h \in Handles : owned[h] # "unused" => owned'[h] # "unused"
    BY <1>11, GivesInUse DEF UpdateFindsClosed, ReturnsError, TypeOK
  <2>3. TypeOK'
    BY <1>0, <1>11, <2>1, <2>2, UnlockType
       DEF UpdateFindsClosed, TypeOK, Typed, ReturnsError, Freed, Without
  <2> QED BY <1>11, <2>1, <2>2, <2>3 DEF UpdateFindsClosed, Grows
<1>12. ASSUME MarkDeleted(g) PROVE TypeOK' /\ Grows
  <2>1. Typed(go')
    BY <1>12, ProceedEffects, EffectType
  <2>2. /\ sessions' \in [Refs -> Handles \cup {NoHandle}]
        /\ closed' \in [Handles -> BOOLEAN]
        /\ \A h \in Handles : closed[h] => closed'[h]
    BY <1>12, ReleaseType DEF MarkDeleted, Release, TypeOK
  <2>3. cache' \in [Handles -> Document] /\ etag' \in [Handles -> Versions]
    BY <1>12, ClearType DEF MarkDeleted, TypeOK
  <2>4. /\ owned' \in [Handles -> {"unused", "creating", "returned", "failed"}]
        /\ \A h \in Handles : owned[h] # "unused" => owned'[h] # "unused"
    BY <1>12, GivesInUse DEF MarkDeleted, TypeOK
  <2>5. TypeOK'
    BY <1>0, <1>12, <2>1, <2>2, <2>3, <2>4 DEF MarkDeleted, TypeOK, Typed, Freed
  <2> QED BY <1>12, <2>1, <2>2, <2>3, <2>4, <2>5 DEF MarkDeleted, Grows
<1>13. ASSUME SyncLocks(g) PROVE TypeOK' /\ Grows
  <2>1. Typed(go')
    BY <1>13, ProceedEffects, EffectType
  <2>2. TypeOK'
    BY <1>0, <1>13, <2>1 DEF SyncLocks, TypeOK, Typed
  <2> QED BY <1>13, <2>1, <2>2 DEF SyncLocks, Grows
<1>14. ASSUME SyncSends(g) PROVE TypeOK' /\ Grows
  <2>1. Typed(go')
    BY <1>14, ProceedEffects, EffectType
  <2>2. TypeOK'
    BY <1>0, <1>14, <2>1 DEF SyncSends, TypeOK, Typed
  <2> QED BY <1>14, <2>1, <2>2 DEF SyncSends, Grows
<1>15. ASSUME CloseReturns(g) PROVE TypeOK' /\ Grows
  <2>1. Typed(go')
    BY <1>15, ProceedEffects, EffectType
  <2>2. TypeOK'
    BY <1>0, <1>15, <2>1 DEF CloseReturns, TypeOK, Typed, Without
  <2> QED BY <1>15, <2>1, <2>2 DEF CloseReturns, Grows
<1>16. ASSUME CloseLocks(g) PROVE TypeOK' /\ Grows
  <2>1. Typed(go')
    BY <1>16, ProceedEffects, EffectType
  <2>2. TypeOK'
    BY <1>0, <1>16, <2>1 DEF CloseLocks, TypeOK, Typed
  <2> QED BY <1>16, <2>1, <2>2 DEF CloseLocks, Grows
<1>17. ASSUME CloseFinishes(g) PROVE TypeOK' /\ Grows
  <2>1. Typed(go')
    BY <1>17, ProceedEffects, EffectType
  <2>2. /\ sessions' \in [Refs -> Handles \cup {NoHandle}]
        /\ closed' \in [Handles -> BOOLEAN]
        /\ \A h \in Handles : closed[h] => closed'[h]
    BY <1>17, ReleaseType DEF CloseFinishes, Release, TypeOK
  <2>3. left' = [left EXCEPT ![o.h] = @ + 1]
    BY <1>17 DEF CloseFinishes
  <2>4. left \in [Handles -> Nat] /\ left[o.h] + 1 \in Nat
    BY <1>17, Busy, Something DEF TypeOK, CloseFinishes, Shaking
  <2>5. left' \in [Handles -> Nat]
    BY <1>17, <2>3, <2>4
  <2>6. cache' \in [Handles -> Document] /\ etag' \in [Handles -> Versions]
    BY <1>17, ClearType DEF CloseFinishes, TypeOK
  <2>7. TypeOK'
    BY <1>0, <1>17, <2>1, <2>2, <2>3, <2>4, <2>5, <2>6, UnlockType
       DEF CloseFinishes, TypeOK, Typed, Without
  <2> QED BY <1>17, <2>1, <2>2, <2>3, <2>4, <2>5, <2>6, <2>7
          DEF CloseFinishes, Grows
<1>18. ASSUME ForceClose(g) PROVE TypeOK' /\ Grows
  <2>1. Typed(go')
    BY <1>18, ProceedEffects, EffectType
  <2>2. /\ sessions' \in [Refs -> Handles \cup {NoHandle}]
        /\ closed' \in [Handles -> BOOLEAN]
        /\ \A h \in Handles : closed[h] => closed'[h]
    BY <1>18, ReleaseType DEF ForceClose, Release, TypeOK
  <2>3. TypeOK'
    BY <1>0, <1>18, <2>1, <2>2 DEF ForceClose, TypeOK, Typed, Without
  <2> QED BY <1>18, <2>1, <2>2, <2>3 DEF ForceClose, Grows
<1>19. ASSUME SubscribeLocks(g) PROVE TypeOK' /\ Grows
  <2>1. Typed(go')
    BY <1>19, ProceedEffects, EffectType
  <2>2. TypeOK'
    BY <1>0, <1>19, <2>1 DEF SubscribeLocks, TypeOK, Typed
  <2> QED BY <1>19, <2>1, <2>2 DEF SubscribeLocks, Grows
<1>20. ASSUME SubscriptionIsActive(g) PROVE TypeOK' /\ Grows
  <2>1. Typed(go')
    BY <1>20, ProceedEffects, EffectType
  <2>2. TypeOK'
    BY <1>0, <1>20, <2>1
       DEF SubscriptionIsActive, TypeOK, Typed, SubscribeReturns
  <2> QED BY <1>20, <2>1, <2>2 DEF SubscriptionIsActive, Grows
<1>21. ASSUME Bind(g) PROVE TypeOK' /\ Grows
  <2>1. Typed(go')
    BY <1>21, ProceedEffects, EffectType
  <2>2. o.h \in Handles /\ ref[o.h] \in Refs
    BY <1>21, Busy, Something DEF Bind, Shaking
  <2>3. TypeOK'
    BY <1>0, <1>21, <2>1, <2>2 DEF Bind, TypeOK, Typed
  <2> QED BY <1>21, <2>1, <2>2, <2>3 DEF Bind, Grows
<1>22. ASSUME ActivityFails(g) PROVE TypeOK' /\ Grows
  <2>1. Typed(go')
    BY <1>22, ProceedEffects, EffectType
  <2>2. /\ owned' \in [Handles -> {"unused", "creating", "returned", "failed"}]
        /\ \A h \in Handles : owned[h] # "unused" => owned'[h] # "unused"
    BY <1>22, GivesInUse DEF ActivityFails, TypeOK
  <2>3. TypeOK'
    BY <1>0, <1>22, <2>1, <2>2 DEF ActivityFails, TypeOK, Typed
  <2> QED BY <1>22, <2>1, <2>2, <2>3 DEF ActivityFails, Grows
<1>23. ASSUME ReconcileLocks(g) PROVE TypeOK' /\ Grows
  <2>1. Typed(go')
    BY <1>23, ProceedEffects, EffectType
  <2>2. TypeOK'
    BY <1>0, <1>23, <2>1 DEF ReconcileLocks, TypeOK, Typed
  <2> QED BY <1>23, <2>1, <2>2 DEF ReconcileLocks, Grows
<1>24. ASSUME AlreadyCurrent(g) PROVE TypeOK' /\ Grows
  <2>1. Typed(go')
    BY <1>24, ProceedEffects, EffectType
  <2>2. /\ owned' \in [Handles -> {"unused", "creating", "returned", "failed"}]
        /\ \A h \in Handles : owned[h] # "unused" => owned'[h] # "unused"
    BY <1>24, GivesInUse DEF AlreadyCurrent, TypeOK
  <2>3. TypeOK'
    BY <1>0, <1>24, <2>1, <2>2 DEF AlreadyCurrent, TypeOK, Typed, Freed
  <2> QED BY <1>24, <2>1, <2>2, <2>3 DEF AlreadyCurrent, Grows
<1>25. ASSUME Connect(g) PROVE TypeOK' /\ Grows
  <2>1. Typed(go')
    BY <1>25, ProceedEffects, EffectType
  <2>2. TypeOK'
    BY <1>0, <1>25, <2>1 DEF Connect, TypeOK, Typed
  <2> QED BY <1>25, <2>1, <2>2 DEF Connect, Grows
<1>26. ASSUME HandshakeStarts(g) PROVE TypeOK' /\ Grows
  <2>1. Typed(go')
    BY <1>26, ProceedEffects, EffectType
  <2>2. TypeOK'
    BY <1>0, <1>26, <2>1 DEF HandshakeStarts, TypeOK, Typed
  <2> QED BY <1>26, <2>1, <2>2 DEF HandshakeStarts, Grows
<1>27. ASSUME HandshakeSucceeds(g) PROVE TypeOK' /\ Grows
  <2>1. Typed(go')
    BY <1>27, ProceedEffects, EffectType
  <2>2. connections' \in Connections
    BY <1>27, MpsdAssumption
       DEF HandshakeSucceeds, TypeOK, Connections, NoConnection
  <2>3. TypeOK'
    BY <1>0, <1>27, <2>1, <2>2 DEF HandshakeSucceeds, TypeOK, Typed
  <2> QED BY <1>27, <2>1, <2>2, <2>3 DEF HandshakeSucceeds, Grows
<1>28. ASSUME HandshakeFails(g) PROVE TypeOK' /\ Grows
  <2>1. Typed(go')
    BY <1>28, ProceedEffects, EffectType
  <2>2. /\ owned' \in [Handles -> {"unused", "creating", "returned", "failed"}]
        /\ \A h \in Handles : owned[h] # "unused" => owned'[h] # "unused"
    BY <1>28, GivesInUse DEF HandshakeFails, SubscribeFails, TypeOK
  <2>3. TypeOK'
    BY <1>0, <1>28, <2>1, <2>2
       DEF HandshakeFails, TypeOK, Typed, SubscribeFails, Freed
  <2> QED BY <1>28, <2>1, <2>2, <2>3 DEF HandshakeFails, Grows, SubscribeFails
<1>29. ASSUME HandleSubscribe(g) PROVE TypeOK' /\ Grows
  <2>1. Typed(go')
    BY <1>29, HandlerEffects, EffectType
  <2>2. data' \in Connections
    BY <1>29, <1>0 DEF HandleSubscribe, Operation
  <2>3. TypeOK'
    BY <1>0, <1>29, <2>1, <2>2 DEF HandleSubscribe, TypeOK, Typed
  <2> QED BY <1>29, <2>1, <2>2, <2>3 DEF HandleSubscribe, Grows
<1>30. ASSUME HandleSubscribeReturns(g) PROVE TypeOK' /\ Grows
  <2>1. Typed(go')
    BY <1>30, ProceedEffects, EffectType
  <2>2. TypeOK'
    BY <1>0, <1>30, <2>1
       DEF HandleSubscribeReturns, TypeOK, Typed, SubscribeReturns
  <2> QED BY <1>30, <2>1, <2>2 DEF HandleSubscribeReturns, Grows
<1>31. ASSUME ReadLocks(g) PROVE TypeOK' /\ Grows
  <2>1. Typed(go')
    BY <1>31, ProceedEffects, EffectType
  <2>2. TypeOK'
    BY <1>0, <1>31, <2>1 DEF ReadLocks, TypeOK, Typed
  <2> QED BY <1>31, <2>1, <2>2 DEF ReadLocks, Grows
<1>32. ASSUME CallbackReturns(g) PROVE TypeOK' /\ Grows
  <2>1. Typed(go')
    BY <1>32, ProceedEffects, EffectType
  <2>2. TypeOK'
    BY <1>0, <1>32, <2>1 DEF CallbackReturns, TypeOK, Typed
  <2> QED BY <1>32, <2>1, <2>2 DEF CallbackReturns, Grows
<1> QED
  BY <1>1, <1>2, <1>3, <1>4, <1>5, <1>6, <1>7, <1>8, <1>9, <1>10, <1>11, <1>12,
     <1>13, <1>14, <1>15, <1>16, <1>17, <1>18, <1>19, <1>20, <1>21, <1>22,
     <1>23, <1>24, <1>25, <1>26, <1>27, <1>28, <1>29, <1>30, <1>31, <1>32
     DEF Progress, Deliver, Receive, Proceed

\* So does what the application, the other members and RTA do.
LEMMA StartType ==
    ASSUME TypeOK, OperationsOK, HandlesOK, TableOK,
           HandleError \/ Start \/ Rest
    PROVE  TypeOK' /\ Grows
<1> USE DEF sessionVars, lockVars, rtaVars, history, Typed
<1>1. ASSUME HandleError PROVE TypeOK' /\ Grows
  BY <1>1, HandlerEffects DEF Closes, HandleError, TypeOK, Grows
<1>2. ASSUME NEW g \in Goroutines, NEW h \in Handles,
             NEW op \in {"set", "sync", "close"}, Call(g, h, op)
      PROVE  TypeOK' /\ Grows
  <2>1. Typed(go')
    BY <1>2, StartEffects, EffectType
  <2> QED BY <1>2, <2>1 DEF Call, TypeOK, Grows
<1>3. ASSUME NEW g \in Goroutines, NEW h \in Handles, NEW r \in Refs,
             NEW op \in {"publish", "join"}, Create(g, h, r, op)
      PROVE  TypeOK' /\ Grows
  <2>1. Typed(go')
    BY <1>3, StartEffects, EffectType
  <2>2. TypeOK'
    BY <1>3, <2>1 DEF Create, TypeOK
  <2> QED BY <1>3, <2>2 DEF Create, TypeOK, Grows
<1>4. ASSUME NEW h \in Handles, HandleEvent(h) PROVE TypeOK' /\ Grows
  <2>1. Typed(go')
    BY <1>4, StartEffects, EffectType
  <2> QED BY <1>4, <2>1 DEF HandleEvent, TypeOK, Grows
<1>5. ASSUME NEW r \in Refs, OthersWrite(r) PROVE TypeOK' /\ Grows
  BY <1>5, StartEffects DEF OthersWrite, Rewritten, TypeOK, Grows
<1>6. ASSUME Drop PROVE TypeOK' /\ Grows
  <2>1. Typed(go')
    BY <1>6, StartEffects, EffectType
  <2> QED BY <1>6, <2>1 DEF Drop, TypeOK, Grows
<1>7. ASSUME Unsubscribe PROVE TypeOK' /\ Grows
  <2>1. TypeOK'
    BY <1>7 DEF Unsubscribe, TypeOK
  <2> QED BY <1>7, <2>1 DEF Unsubscribe, Grows
<1>8. ASSUME Rest PROVE TypeOK' /\ Grows
  BY <1>8 DEF Rest, vars, TypeOK, Grows
<1> QED BY <1>1, <1>2, <1>3, <1>4, <1>5, <1>6, <1>7, <1>8 DEF Start

-----------------------------------------------------------------------------
(* The table of operations.                                                *)

\* Whatever goroutine moves, nobody leaves the table.
LEMMA ProgressOperations ==
    ASSUME TypeOK, OperationsOK, HandlesOK, TableOK,
           NEW g \in Goroutines, Progress(g), Grows
    PROVE  OperationsOK'
<1> DEFINE o == go[g]
<1>0. OperationOK(g, o) /\ (o.op # "none" => owned'[o.h] # "unused")
  BY DEF OperationsOK, OperationOK, Grows
<1>a. ASSUME \A k \in Goroutines : k # g => go'[k] = go[k],
             OperationOK(g, go[g])'
      PROVE  OperationsOK'
  BY <1>a, OperationsKept DEF Grows
<1>b. ASSUME Ends(g) PROVE OperationsOK'
  <2>1. OperationOK(g, go[g])'
    BY <1>b, RunsNothing DEF Ends, Begins, Moved, Carries, OperationOK, Legal
  <2> QED BY <1>a, <1>b, <2>1 DEF Ends, Begins, Moved
<1>c. ASSUME NEW q \in {"discard", "close"}, GivesUp(g, q),
             o.op \in {"publish", "join"} \/ (o.op = "restore" /\ q = "discard")
      PROVE  OperationsOK'
  <2>1. Runs(g, go'[g])
    BY <1>0, <1>c, RunsAgain DEF GivesUp, Begins, Moved, OperationOK
  <2>2. OperationOK(g, go[g])'
    BY <1>0, <1>c, <2>1 DEF GivesUp, Begins, Moved, Carries, OperationOK, Legal
  <2> QED BY <1>a, <1>c, <2>2 DEF GivesUp, Begins, Moved
\* Whoever goes on does so within the table.
<1>d. ASSUME NEW p, NEW r, Moved(g, p, o.op, o.h, r), Legal(go'[g]),
             p = "answered" => go'[g].status \in Answers(r),
             o.op = "none" => g = Rta
      PROVE  OperationsOK'
  <2>1. Runs(g, go'[g])
    <3>1. CASE o.op = "none"
      BY <1>d, <3>1, GoroutineKinds DEF Moved, Runs
    <3>2. CASE o.op # "none"
      BY <1>0, <1>d, <3>2, RunsOn DEF Moved, OperationOK
    <3> QED BY <3>1, <3>2
  <2>2. OperationOK(g, go[g])'
    BY <1>0, <1>d, <2>1 DEF Moved, OperationOK
  <2> QED BY <1>a, <1>d, <2>2 DEF Moved
<1>e. o.op = "none" => o.at = "idle" \/ g = Rta
  BY <1>0 DEF OperationOK, Runs
<1>f. Legal(o) /\ (o.at = "answered" => o.status \in Answers(o.req))
  BY <1>0 DEF OperationOK
<1> USE DEF Legal, Subscribing, Shaking, Updating, Leaving, Getting
<1>1. ASSUME UpdateLocks(g) \/ SyncSends(g) PROVE OperationsOK'
  <2>1. Stays(g, "sent") /\ o.at \in {"update", "syncLocked"}
    BY <1>1, ProceedEffects DEF UpdateLocks, SyncSends
  <2> QED BY <1>d, <1>e, <1>f, <2>1 DEF Stays, Moved
<1>2. ASSUME DeliverUpdate(g) \/ DeliverPut(g) \/ DeliverGet(g)
      PROVE  OperationsOK'
  <2>1. o.at = "sent"
    BY <1>2 DEF DeliverUpdate, DeliverPut, DeliverGet
  <2>2. \E s \in Answers(o.req) : \E b : Gets(g, s, b)
    BY <1>2, DeliveryEffects DEF Answers, DeliverUpdate, DeliverPut, DeliverGet
  <2> QED BY <1>d, <1>e, <1>f, <2>1, <2>2 DEF Gets, Moved, Carries
<1>3. ASSUME ReceiveOk(g) PROVE OperationsOK'
  <2>1. o.at = "answered"
    BY <1>3 DEF ReceiveOk
  <2>2. \/ o.req = "put" /\ Stays(g, "activity")
        \/ o.req = "leave" /\ Stays(g, "closeLocked")
        \/ o.req = "get" /\ o.op = "tap" /\ Stays(g, "callback")
        \/ Ends(g)
    BY <1>3, ReceiveEffects
  <2> QED BY <1>b, <1>d, <1>e, <1>f, <2>1, <2>2 DEF Stays, Moved
<1>4. ASSUME ReceiveSame(g) PROVE OperationsOK'
  <2>1. o.at = "answered" /\ o.req = "get"
    BY <1>4, <1>f DEF ReceiveSame, Answers
  <2>2. (o.op = "tap" /\ Stays(g, "callback")) \/ Ends(g)
    BY <1>4, ReceiveEffects
  <2> QED BY <1>b, <1>d, <1>e, <1>f, <2>1, <2>2 DEF Stays, Moved
<1>5. ASSUME ReceiveDeleted(g) PROVE OperationsOK'
  <2>1. o.at = "answered" /\ o.req # "get" /\ o.req # "put"
    BY <1>5, <1>f DEF ReceiveDeleted, Answers
  <2>2. \/ o.req = "leave" /\ Stays(g, "clearLocked")
        \/ o.req # "leave" /\ Stays(g, "markDeleted")
    BY <1>5, ReceiveEffects
  <2> QED BY <1>d, <1>e, <1>f, <2>1, <2>2 DEF Stays, Moved
<1>6. ASSUME ReceiveMissing(g) PROVE OperationsOK'
  BY <1>6, <1>b, ReceiveEffects
<1>7. ASSUME JoinRetries(g) PROVE OperationsOK'
  <2>1. o.at = "answered" /\ o.req = "put"
    BY <1>7, <1>f DEF JoinRetries, Answers
  <2>2. Moved(g, "sent", o.op, o.h, o.req)
    BY <1>7, ReceiveEffects
  <2> QED BY <1>d, <1>e, <1>f, <2>1, <2>2 DEF Moved
<1>8. ASSUME Fails(g) \/ UpdateFindsClosed(g) PROVE OperationsOK'
  <2>1. o.at \in {"sent", "answered", "update", "syncLocked"}
    BY <1>8 DEF Fails, UpdateFindsClosed
  <2>2. \/ o.req = "connect" /\ GivesUp(g, "discard")
        \/ o.req = "leave" /\ o.op # "close" /\ Stays(g, "force")
        \/ Ends(g)
    BY <1>8, ReceiveEffects
  <2>3. CASE o.req = "connect" /\ GivesUp(g, "discard")
    BY <1>c, <1>f, <2>3
  <2>4. CASE o.req = "leave" /\ o.op # "close" /\ Stays(g, "force")
    BY <1>d, <1>e, <1>f, <2>1, <2>4 DEF Stays, Moved
  <2> QED BY <1>b, <2>2, <2>3, <2>4
<1>9. ASSUME MarkDeleted(g) PROVE OperationsOK'
  <2>1. Ends(g) \/ (o.req = "connect" /\ GivesUp(g, "discard"))
    BY <1>9, ProceedEffects
  <2> QED BY <1>b, <1>c, <1>f, <2>1
<1>10. ASSUME SyncLocks(g) \/ CloseLocks(g) \/ Connect(g) PROVE OperationsOK'
  <2>1. \/ o.at = "sync" /\ Asks(g, "syncLocked", "get")
        \/ o.at = "close" /\ Asks(g, "update", "leave")
        \/ o.at = "connect" /\ Asks(g, "update", "connect")
    BY <1>10, ProceedEffects DEF SyncLocks, CloseLocks, Connect
  <2> QED BY <1>d, <1>e, <1>f, <2>1 DEF Asks, Moved
<1>11. ASSUME \/ CloseReturns(g) \/ CloseFinishes(g) \/ ForceClose(g)
              \/ AlreadyCurrent(g) \/ CallbackReturns(g)
       PROVE  OperationsOK'
  BY <1>11, <1>b, ProceedEffects
<1>12. ASSUME SubscribeLocks(g) \/ Bind(g) PROVE OperationsOK'
  <2>1. \/ o.at = "subscribe" /\ Stays(g, "rta")
        \/ o.at = "activity" /\ Stays(g, "subscribe")
    BY <1>12, ProceedEffects DEF SubscribeLocks, Bind
  <2> QED BY <1>d, <1>e, <1>f, <2>1 DEF Stays, Moved
<1>13. ASSUME SubscriptionIsActive(g) \/ HandleSubscribeReturns(g)
       PROVE  OperationsOK'
  <2>1. o.at \in {"rta", "restoring"}
    BY <1>13 DEF SubscriptionIsActive, HandleSubscribeReturns
  <2>2. Ends(g) \/ ((g = Rta => o.at = "rta") /\ Subscribed(g))
    BY <1>13, <2>1, ProceedEffects DEF SubscriptionIsActive
  <2>3. CASE (g = Rta => o.at = "rta") /\ Subscribed(g)
    <3>1. o.op # "none"
      BY <1>e, <1>f, <2>1, <2>3
    <3> QED BY <1>d, <1>f, <2>1, <2>3, <3>1 DEF Subscribed, Puts, Stays, Moved
  <2> QED BY <1>b, <2>2, <2>3
<1>14. ASSUME ActivityFails(g) PROVE OperationsOK'
  <2>1. o.at = "activity" /\ GivesUp(g, "close")
    BY <1>14, ProceedEffects DEF ActivityFails
  <2> QED BY <1>c, <1>f, <2>1
<1>15. ASSUME ReconcileLocks(g) \/ HandshakeSucceeds(g) PROVE OperationsOK'
  <2>1. \/ o.at = "reconcile" /\ Learns(g, "connect", data)
        \/ o.at = "handshake" /\ Learns(g, "handle", connections')
    BY <1>15, ProceedEffects DEF ReconcileLocks, HandshakeSucceeds
  <2> QED BY <1>d, <1>e, <1>f, <2>1 DEF Learns, Moved
<1>16. ASSUME HandshakeStarts(g) PROVE OperationsOK'
  <2>1. o.at \in {"rta", "dropped"} /\ Stays(g, "handshake")
    BY <1>16, ProceedEffects DEF HandshakeStarts
  <2> QED BY <1>d, <1>e, <1>f, <2>1 DEF Stays, Moved
<1>17. ASSUME HandshakeFails(g) PROVE OperationsOK'
  <2>1. Ends(g) \/ (o.req = "put" /\ GivesUp(g, "discard"))
    BY <1>17, ProceedEffects
  <2> QED BY <1>b, <1>c, <1>f, <2>1
<1>18. ASSUME HandleSubscribe(g) PROVE OperationsOK'
  <2>1. Restores(g) /\ o.at = "handle"
    BY <1>18, HandlerEffects DEF HandleSubscribe
  <2>2. OperationOK(g, go[g])'
    <3>1. Runs(g, go'[g])
      <4>1. CASE o.op = "none"
        BY <1>e, <2>1, <4>1, GoroutineKinds DEF Restores, Runs
      <4>2. CASE o.op # "none"
        BY <1>0, <2>1, <4>2, RunsOn DEF Restores, OperationOK
      <4> QED BY <4>1, <4>2
    <3> QED BY <1>0, <1>f, <2>1, <3>1 DEF Restores, OperationOK
  <2>3. ASSUME NEW k \in Goroutines, NEW h \in Bound, k = Restorer(h),
               Started(k, "connect", "restore", h, o.connection)
        PROVE  OperationOK(k, go[k])'
    <3>1. h \in Handles /\ owned[h] # "unused" /\ owned'[h] # "unused"
      BY DEF Bound, TableOK, TypeOK, Grows
    <3>2. Runs(k, go'[k])
      BY <2>3, <3>1, GoroutineKinds DEF Runs, Started
    <3> QED BY <2>3, <3>1, <3>2 DEF OperationOK, Started
  <2>4. ASSUME NEW k \in Goroutines, go'[k] = go[k]
        PROVE  OperationOK(k, go[k])'
    BY <2>4 DEF OperationsOK, OperationOK, Grows
  <2> QED BY <2>1, <2>2, <2>3, <2>4 DEF Restores, OperationsOK
<1>19. ASSUME ReadLocks(g) PROVE OperationsOK'
  <2>1. /\ o.at = "read"
        /\ \/ o.op = "tap" /\ Stays(g, "sync")
           \/ o.op = "lost" /\ Stays(g, "close")
    BY <1>19, ProceedEffects DEF ReadLocks
  <2> QED BY <1>d, <1>f, <2>1 DEF Stays, Moved
<1> QED BY <1>1, <1>2, <1>3, <1>4, <1>5, <1>6, <1>7, <1>8, <1>9, <1>10, <1>11,
           <1>12, <1>13, <1>14, <1>15, <1>16, <1>17, <1>18, <1>19
        DEF Progress, Deliver, Receive, Proceed

\* Whatever is started, it is in the table.
LEMMA StartOperations ==
    ASSUME TypeOK, OperationsOK, HandlesOK, TableOK,
           HandleError \/ Start \/ Rest, Grows
    PROVE  OperationsOK'
<1>a. ASSUME NEW k \in Goroutines, go'[k] = go[k] PROVE OperationOK(k, go[k])'
  BY <1>a DEF OperationsOK, OperationOK, Grows
<1>b. ASSUME NEW g \in Goroutines, NEW p, NEW q \in Application, NEW h \in Handles,
             NEW r, owned'[h] # "unused", Begins(g, p, q, h, r), Legal(go'[g]),
             p # "answered",
             (g \in Callers /\ go[g].at = "idle") \/ go[g].at = "callback"
      PROVE  OperationsOK'
  <2>1. g # Rta /\ \A k \in Handles : g # Restorer(k) /\ g # Closer(k)
    <3>1. OperationOK(g, go[g])
      BY DEF OperationsOK
    <3>2. go[g].at # "callback" \/ go[g].op = "tap"
      BY <3>1
         DEF OperationOK, Legal, Subscribing, Shaking, Updating, Leaving,
             Getting
    <3> QED BY <1>b, <3>1, <3>2, GoroutineKinds DEF OperationOK, Runs
  <2>2. Runs(g, go'[g])
    BY <1>b, <2>1 DEF Runs, Begins, Moved, Application
  <2>3. OperationOK(g, go[g])'
    BY <1>b, <2>2 DEF Begins, Moved, OperationOK
  <2> QED BY <1>b, <2>3, OperationsKept DEF Begins, Moved, Grows
<1>1. ASSUME HandleError PROVE OperationsOK'
  <2>1. Closes
    BY <1>1, HandlerEffects
  <2>2. ASSUME NEW k \in Goroutines, NEW h \in Bound, k = Closer(h),
               Started(k, "read", "lost", h, NoConnection)
        PROVE  OperationOK(k, go[k])'
    <3>1. h \in Handles /\ owned[h] # "unused" /\ owned'[h] # "unused"
      BY DEF Bound, TableOK, TypeOK, Grows
    <3>2. Runs(k, go'[k])
      BY <2>2, <3>1, GoroutineKinds DEF Runs, Started
    <3> QED BY <2>2, <3>1, <3>2 DEF OperationOK, Started, Legal
  <2> QED BY <1>a, <2>1, <2>2 DEF Closes, OperationsOK
<1>2. ASSUME NEW g \in Goroutines, NEW h \in Handles,
             NEW op \in {"set", "sync", "close"}, Call(g, h, op)
      PROVE  OperationsOK'
  <2>1. /\ owned'[h] # "unused" /\ op \in Application
        /\ (g \in Callers /\ go[g].at = "idle") \/ go[g].at = "callback"
    BY <1>2 DEF Call, Free, Application, sessionVars
  <2>2. \/ op = "set" /\ Begins(g, "update", op, h, "custom")
        \/ op # "set" /\ Begins(g, op, op, h, "none")
    BY <1>2, StartEffects
  <2>3. Legal(go'[g])
    BY <2>2 DEF Begins, Moved, Legal, Updating
  <2> QED BY <1>b, <2>1, <2>2, <2>3
<1>3. ASSUME NEW g \in Goroutines, NEW h \in Handles, NEW r \in Refs,
             NEW op \in {"publish", "join"}, Create(g, h, r, op)
      PROVE  OperationsOK'
  <2>1. /\ owned'[h] # "unused" /\ op \in Application
        /\ (g \in Callers /\ go[g].at = "idle") \/ go[g].at = "callback"
    BY <1>3 DEF Create, Free, Application, TypeOK
  <2>2. Begins(g, "subscribe", op, h, "none")
    BY <1>3, StartEffects
  <2>3. Legal(go'[g])
    BY <2>2 DEF Begins, Moved, Legal, Subscribing
  <2> QED BY <1>b, <2>1, <2>2, <2>3
<1>4. ASSUME NEW h \in Handles, HandleEvent(h) PROVE OperationsOK'
  <2> DEFINE g == Tapper(h)
  <2>1. g \in Goroutines /\ Moved(g, "read", "tap", h, "none")
    BY <1>4, StartEffects, GoroutineKinds
  <2>2. owned[h] # "unused"
    BY <1>4 DEF HandleEvent, Bound, TableOK, TypeOK
  <2>3. Runs(g, go'[g]) /\ Legal(go'[g])
    BY <2>1, GoroutineKinds DEF Runs, Moved, Application, Legal
  <2>4. OperationOK(g, go[g])'
    BY <2>1, <2>2, <2>3 DEF Moved, OperationOK, Grows
  <2> QED BY <2>1, <2>4, OperationsKept DEF Moved, Grows
<1>5. ASSUME NEW r \in Refs, OthersWrite(r) PROVE OperationsOK'
  BY <1>5, <1>a DEF OthersWrite, OperationsOK
<1>6. ASSUME Drop PROVE OperationsOK'
  <2>1. Stays(Rta, "dropped") /\ Rta \in Goroutines /\ go[Rta].at = "idle"
    BY <1>6, StartEffects, GoroutineKinds DEF Drop
  <2>2. Legal(go[Rta]) /\ go[Rta].op = "none"
    BY <2>1 DEF OperationsOK, OperationOK, Runs
  <2>3. OperationOK(Rta, go[Rta])'
    BY <2>1, <2>2, GoroutineKinds
       DEF Stays, Moved, OperationOK, Runs, Legal, Subscribing, Shaking,
           Updating, Leaving, Getting
  <2> QED BY <2>1, <2>3, OperationsKept DEF Stays, Moved, Grows
<1>7. ASSUME Unsubscribe PROVE OperationsOK'
  BY <1>7, <1>a DEF Unsubscribe, OperationsOK
<1>8. ASSUME Rest PROVE OperationsOK'
  BY <1>8, <1>a DEF Rest, vars, OperationsOK
<1> QED BY <1>1, <1>2, <1>3, <1>4, <1>5, <1>6, <1>7, <1>8 DEF Start
-----------------------------------------------------------------------------
(* A goroutine changes only the Session that it works on.                  *)

\* What belongs to the Session h.
Untouched(h) ==
    /\ cache'[h] = cache[h] /\ etag'[h] = etag[h] /\ closed'[h] = closed[h]
    /\ owned'[h] = owned[h] /\ left'[h] = left[h] /\ joined'[h] = joined[h]

\* The cache of a Session changes when a request succeeds and when the
\* Session is deleted, the table when a Session is bound or closed.
OwnOnly(g) ==
    LET h == go[g].h
    IN  /\ ref' = ref
        /\ \A k \in Handles : k # h \/ go[g].op = "none" => Untouched(k)
        /\ \/ UNCHANGED <<cache, etag>>
           \/ ReceiveOk(g)
           \/ ClearCache(h) /\ Release(h)
        /\ \/ UNCHANGED <<sessions, closed>>
           \/ Bind(g)
           \/ go[g].op # "none" /\ Release(h)

\* Every step of a goroutine does so.
LEMMA OwnStep ==
    ASSUME TypeOK, OperationsOK, HandlesOK, NEW g \in Goroutines, Progress(g)
    PROVE  OwnOnly(g)
<1> DEFINE o == go[g]
<1> USE DEF sessionVars, lockVars, rtaVars, history, OwnOnly, Untouched
<1>0. o.at \notin {"idle", "dropped"} \cup Shaking => o.op # "none"
  BY Something
<1>1. ASSUME UpdateLocks(g) \/ DeliverUpdate(g) \/ DeliverGet(g) \/
             ReceiveSame(g) \/ ReceiveDeleted(g)
      PROVE  OwnOnly(g)
  BY <1>0, <1>1
     DEF UpdateLocks, DeliverUpdate, DeliverGet, ReceiveSame, ReceiveDeleted,
         TypeOK, Shaking
<1>2. ASSUME JoinRetries(g) \/ SyncLocks(g) \/ SyncSends(g) \/
             CloseReturns(g) \/ CloseLocks(g)
      PROVE  OwnOnly(g)
  BY <1>0, <1>2
     DEF JoinRetries, SyncLocks, SyncSends, CloseReturns, CloseLocks, TypeOK,
         Shaking
<1>3. ASSUME SubscribeLocks(g) \/ SubscriptionIsActive(g) \/
             ReconcileLocks(g) \/ Connect(g) \/ HandshakeStarts(g)
      PROVE  OwnOnly(g)
  BY <1>0, <1>3
     DEF SubscribeLocks, SubscriptionIsActive, ReconcileLocks, Connect,
         HandshakeStarts, TypeOK, Shaking
<1>4. ASSUME HandshakeSucceeds(g) \/ HandleSubscribe(g) \/
             HandleSubscribeReturns(g) \/ ReadLocks(g) \/ CallbackReturns(g)
      PROVE  OwnOnly(g)
  BY <1>0, <1>4
     DEF HandshakeSucceeds, HandleSubscribe, HandleSubscribeReturns, ReadLocks,
         CallbackReturns, TypeOK, Shaking
<1>5. ASSUME DeliverPut(g) PROVE OwnOnly(g)
  BY <1>0, <1>5 DEF DeliverPut, TypeOK, Shaking
<1>6. ASSUME Bind(g) PROVE OwnOnly(g)
  BY <1>0, <1>6 DEF Bind, TypeOK, Shaking
<1>7. ASSUME ReceiveOk(g) PROVE OwnOnly(g)
  BY <1>0, <1>7 DEF ReceiveOk, Gives, Store, TypeOK, Shaking
<1>8. ASSUME ReceiveMissing(g) PROVE OwnOnly(g)
  BY <1>0, <1>8 DEF ReceiveMissing, Release, ClearCache, TypeOK, Shaking
<1>9. ASSUME Fails(g) PROVE OwnOnly(g)
  BY <1>0, <1>9 DEF Fails, ReturnsError, Gives, TypeOK, Shaking
<1>10. ASSUME UpdateFindsClosed(g) PROVE OwnOnly(g)
  BY <1>0, <1>10 DEF UpdateFindsClosed, ReturnsError, Gives, TypeOK, Shaking
<1>11. ASSUME MarkDeleted(g) PROVE OwnOnly(g)
  BY <1>0, <1>11 DEF MarkDeleted, Release, ClearCache, Gives, TypeOK, Shaking
<1>12. ASSUME CloseFinishes(g) PROVE OwnOnly(g)
  BY <1>0, <1>12 DEF CloseFinishes, Release, ClearCache, TypeOK, Shaking
<1>13. ASSUME ForceClose(g) PROVE OwnOnly(g)
  BY <1>0, <1>13 DEF ForceClose, Release, TypeOK, Shaking
<1>14. ASSUME ActivityFails(g) PROVE OwnOnly(g)
  BY <1>0, <1>14 DEF ActivityFails, Gives, TypeOK, Shaking
<1>15. ASSUME AlreadyCurrent(g) PROVE OwnOnly(g)
  BY <1>0, <1>15 DEF AlreadyCurrent, Gives, TypeOK, Shaking
<1>16. ASSUME HandshakeFails(g) PROVE OwnOnly(g)
  BY <1>0, <1>16
     DEF HandshakeFails, SubscribeFails, Gives, Creating, TypeOK, Shaking
<1> QED
  BY <1>1, <1>2, <1>3, <1>4, <1>5, <1>6, <1>7, <1>8, <1>9, <1>10, <1>11, <1>12,
     <1>13, <1>14, <1>15, <1>16
     DEF Progress, Deliver, Receive, Proceed

\* When a goroutine moves, the others stay where they are, but for those that
\* HandleSubscribe starts.
LEMMA OthersStay ==
    ASSUME TypeOK, OperationsOK, HandlesOK, NEW g \in Goroutines, Progress(g),
           NEW k \in Goroutines, k # g
    PROVE  \/ go'[k] = go[k]
           \/ /\ HandleSubscribe(g)
              /\ \E h \in Bound : /\ k = Restorer(h)
                                  /\ Started(k, "connect", "restore", h, go[g].connection)
<1>1. CASE HandleSubscribe(g)
  BY <1>1, HandlerEffects DEF Restores
<1>2. CASE ~HandleSubscribe(g)
  <2>1. \E p, q, h, r : Moved(g, p, q, h, r)
    BY <1>2, DeliveryEffects, ReceiveEffects, ProceedEffects
       DEF Progress, Deliver, Receive, Proceed, Stays, Asks, Learns, Puts, Gets,
           Begins, Ends, GivesUp, Subscribed
  <2> QED BY <2>1 DEF Moved
<1> QED BY <1>1, <1>2
-----------------------------------------------------------------------------
(* The Sessions and the table.                                             *)

\* Sessions are bound before they are closed, by whoever creates them, and
\* leave the table when they are closed.
LEMMA ProgressTable ==
    ASSUME TypeOK, OperationsOK, HandlesOK, TableOK, CreatorsOK,
           NEW g \in Goroutines, Progress(g), Grows
    PROVE  HandlesOK' /\ TableOK'
<1> DEFINE o == go[g]
<1>0. OwnOnly(g)
  BY OwnStep
<1>1. o.op # "none" => o.h \in Handles /\ owned[o.h] # "unused" /\ ref[o.h] \in Refs
  BY Busy
<1>2. HandlesOK'
  BY <1>0, <1>1 DEF OwnOnly, Untouched, HandlesOK, Grows
<1>a. ref' = ref /\ \A h \in Handles : owned[h] # "unused" => owned'[h] # "unused"
  BY <1>0 DEF OwnOnly, Grows
<1>b. \A r \in Refs, h \in Handles :
        sessions[r] = h => ref[h] = r /\ owned[h] # "unused" /\ ~closed[h]
  BY DEF TableOK
<1>3. CASE UNCHANGED <<sessions, closed>>
  BY <1>2, <1>a, <1>b, <1>3 DEF TableOK
<1>4. CASE o.op # "none" /\ Release(o.h)
  <2>1. \A r \in Refs, h \in Handles :
          sessions'[r] = h => sessions[r] = h /\ h # o.h
    BY <1>1, <1>b, <1>4, MpsdAssumption DEF Release, TypeOK
  <2>2. \A h \in Handles : h # o.h => closed'[h] = closed[h]
    BY <1>4 DEF Release, TypeOK
  <2> QED BY <1>2, <1>a, <1>b, <2>1, <2>2 DEF TableOK
<1>5. CASE Bind(g)
  <2>1. o.op # "none" /\ o.at = "activity" /\ OperationOK(g, o)
    BY <1>5, Something DEF Bind, Shaking, OperationsOK
  <2>2. Unbound(o) /\ ~closed[o.h]
    BY <2>1
       DEF OperationOK, Legal, Subscribing, Shaking, Updating, Leaving, Getting,
           Unbound, CreatorsOK
  <2>3. sessions' = [sessions EXCEPT ![ref[o.h]] = o.h] /\ closed' = closed
        /\ owned' = owned
    BY <1>5 DEF Bind
  <2>4. \A r \in Refs, h \in Handles :
          sessions'[r] = h => sessions[r] = h \/ (h = o.h /\ r = ref[o.h])
    BY <1>1, <2>1, <2>3 DEF TypeOK
  <2> QED BY <1>1, <1>2, <1>a, <1>b, <2>1, <2>2, <2>3, <2>4 DEF TableOK
<1> QED BY <1>0, <1>2, <1>3, <1>4, <1>5 DEF OwnOnly

\* Nothing else changes them, but for a Session that is put to use.
LEMMA StartTable ==
    ASSUME TypeOK, HandlesOK, TableOK, HandleError \/ Start \/ Rest
    PROVE  HandlesOK' /\ TableOK'
<1> USE DEF sessionVars, lockVars, rtaVars, history
<1>1. ASSUME NEW g \in Goroutines, NEW h \in Handles, NEW r \in Refs,
             NEW op \in {"publish", "join"}, Create(g, h, r, op)
      PROVE  HandlesOK' /\ TableOK'
  <2>1. /\ owned[h] = "unused" /\ owned' = [owned EXCEPT ![h] = "creating"]
        /\ ref' = [ref EXCEPT ![h] = r]
        /\ UNCHANGED <<cache, etag, closed, sessions, left, joined>>
    BY <1>1 DEF Create
  <2>2. HandlesOK'
    BY <2>1 DEF HandlesOK, TypeOK
  <2>3. TableOK'
    BY <2>1 DEF TableOK, TypeOK
  <2> QED BY <2>2, <2>3
<1>2. CASE UNCHANGED <<sessionVars, history>>
  BY <1>2 DEF HandlesOK, TableOK
<1>3. HandleError \/ Rest \/ Drop \/ Unsubscribe => UNCHANGED <<sessionVars, history>>
  BY DEF HandleError, Rest, Drop, Unsubscribe, vars
<1>4. \A h \in Handles : HandleEvent(h) => UNCHANGED <<sessionVars, history>>
  BY DEF HandleEvent
<1>5. \A r \in Refs : OthersWrite(r) => UNCHANGED <<sessionVars, history>>
  BY DEF OthersWrite
<1>6. \A g, h, op : Call(g, h, op) => UNCHANGED <<sessionVars, history>>
  BY DEF Call
<1> QED BY <1>1, <1>2, <1>3, <1>4, <1>5, <1>6 DEF Start
-----------------------------------------------------------------------------
(* Whoever creates a Session is alone with it.                             *)

\* A goroutine goes on with its Session, or leaves it; whoever still creates
\* one has not told anybody, and while it is not bound only the request that
\* creates it fills its cache.
Onward(g) ==
    LET o == go[g]
        n == go'[g]
    IN  /\ n.h = o.h \/ n.h = NoHandle
        /\ Creating(g)' => Creating(g) /\ n.h = o.h /\ owned' = owned
        /\ Unbound(n) => /\ Unbound(o) /\ n.h = o.h /\ UNCHANGED <<closed, sessions>>
                         /\ n.at # "activity" =>
                               o.at # "activity" /\ UNCHANGED <<cache, etag>>
        /\ Entering(n) => Entering(o) /\ UNCHANGED joined

\* Every step of a goroutine takes it onward.
LEMMA ProgressOnward ==
    ASSUME TypeOK, OperationsOK, HandlesOK, NEW g \in Goroutines, Progress(g)
    PROVE  Onward(g)
<1> DEFINE o == go[g]
           n == go'[g]
<1>0. Legal(o) /\ (o.at = "answered" => o.status \in Answers(o.req))
  BY DEF OperationsOK, OperationOK
<1>a. ASSUME Ends(g) PROVE Onward(g)
  BY <1>a DEF Ends, Begins, Moved, Onward, Creating, Unbound, Entering
<1>b. ASSUME NEW q \in {"discard", "close"}, GivesUp(g, q) PROVE Onward(g)
  BY <1>b DEF GivesUp, Begins, Moved, Onward, Creating, Unbound, Entering
<1>c. ASSUME NEW p, NEW r, Moved(g, p, o.op, o.h, r), owned' = owned,
             o.op \notin {"publish", "join"} \/ r = "connect"
                \/ (r = "put" /\ p \notin {"sent", "answered", "activity"})
      PROVE  Onward(g)
  BY <1>c DEF Moved, Onward, Creating, Unbound, Entering
<1>d. ASSUME NEW p, NEW r, Moved(g, p, o.op, o.h, r), owned' = owned,
             Unbound(o) \/ o.op \notin {"publish", "join"}, p # "activity", o.at # "activity",
             Entering(n) => Entering(o), UNCHANGED <<closed, sessions, cache, etag, joined>>
      PROVE  Onward(g)
  BY <1>d DEF Moved, Onward, Creating, Unbound
<1>e. UNCHANGED <<sessionVars, history>>
        => UNCHANGED <<owned, closed, sessions, cache, etag, joined>>
  BY DEF sessionVars, history
<1> USE DEF Legal, Subscribing, Shaking, Updating, Leaving, Getting
<1>1. ASSUME UpdateLocks(g) PROVE Onward(g)
  <2>1. Stays(g, "sent") /\ o.at = "update" /\ owned' = owned
    BY <1>1, <1>e, ProceedEffects DEF UpdateLocks
  <2>2. o.op \notin {"publish", "join"} \/ o.req = "connect"
    BY <1>0, <2>1
  <2> QED BY <1>c, <2>1, <2>2 DEF Stays
<1>2. ASSUME SyncSends(g) PROVE Onward(g)
  <2>1. Stays(g, "sent") /\ o.at = "syncLocked" /\ owned' = owned
    BY <1>2, <1>e, ProceedEffects DEF SyncSends
  <2>2. o.op \notin {"publish", "join"} \/ o.req = "connect"
    BY <1>0, <2>1
  <2> QED BY <1>c, <2>1, <2>2 DEF Stays
<1>3. ASSUME DeliverUpdate(g) \/ DeliverGet(g) PROVE Onward(g)
  <2>1. o.at = "sent" /\ o.req # "put" /\ owned' = owned
    BY <1>3, <1>e DEF DeliverUpdate, DeliverGet
  <2>2. \E s, b : Gets(g, s, b)
    BY <1>3, DeliveryEffects
  <2>3. o.op \notin {"publish", "join"} \/ o.req = "connect"
    BY <1>0, <2>1
  <2> QED BY <1>c, <2>1, <2>2, <2>3 DEF Gets
<1>4. ASSUME DeliverPut(g) PROVE Onward(g)
  <2>1. o.at = "sent" /\ o.req = "put"
        /\ UNCHANGED <<owned, closed, sessions, cache, etag>>
    BY <1>4 DEF DeliverPut, sessionVars
  <2>2. /\ \E s, b : Gets(g, s, b)
        /\ n.status = "ok" \/ UNCHANGED joined
    <3>1. \/ \E b : Answered(g, "ok", b)
          \/ UNCHANGED joined
      BY <1>4 DEF DeliverPut
    <3>2. go \in [Goroutines -> Operation]
      BY DEF TypeOK
    <3>3. (\E b : Answered(g, "ok", b)) => n.status = "ok"
      BY <3>2 DEF Answered, Operation
    <3> QED BY <1>4, <3>1, <3>3, DeliveryEffects
  <2>3. Unbound(o) /\ Entering(o)
    BY <1>0, <2>1 DEF Unbound, Entering
  <2> QED BY <2>1, <2>2, <2>3
          DEF Gets, Moved, Carries, Onward, Creating, Unbound, Entering
<1>5. ASSUME ReceiveOk(g) PROVE Onward(g)
  <2>1. o.at = "answered" /\ o.status = "ok" /\ UNCHANGED <<closed, sessions, joined>>
        /\ (o.req # "connect" => owned' = owned)
    BY <1>5 DEF ReceiveOk, history
  <2>2. \/ o.req = "put" /\ Stays(g, "activity")
        \/ o.req = "leave" /\ Stays(g, "closeLocked")
        \/ o.req = "get" /\ o.op = "tap" /\ Stays(g, "callback")
        \/ Ends(g)
    BY <1>5, ReceiveEffects
  <2>3. CASE o.req = "put" /\ Stays(g, "activity")
    BY <1>0, <2>1, <2>3 DEF Stays, Moved, Onward, Creating, Unbound, Entering
  <2>4. CASE \/ o.req = "leave" /\ Stays(g, "closeLocked")
             \/ o.req = "get" /\ Stays(g, "callback")
    BY <1>0, <1>c, <2>1, <2>4 DEF Stays
  <2> QED BY <1>a, <2>2, <2>3, <2>4
<1>6. ASSUME ReceiveSame(g) PROVE Onward(g)
  <2>1. o.at = "answered" /\ owned' = owned
    BY <1>6, <1>e DEF ReceiveSame, sessionVars
  <2>2. (o.op = "tap" /\ Stays(g, "callback")) \/ Ends(g)
    BY <1>6, ReceiveEffects
  <2> QED BY <1>a, <1>c, <2>1, <2>2 DEF Stays
<1>7. ASSUME ReceiveDeleted(g) PROVE Onward(g)
  <2>1. o.at = "answered" /\ o.req # "put" /\ owned' = owned
    BY <1>7, <1>0, <1>e DEF ReceiveDeleted, sessionVars, Answers
  <2>2. Stays(g, "clearLocked") \/ Stays(g, "markDeleted")
    BY <1>7, ReceiveEffects
  <2>3. o.op \notin {"publish", "join"} \/ o.req = "connect"
    BY <1>0, <2>1
  <2> QED BY <1>c, <2>1, <2>2, <2>3 DEF Stays
<1>8. ASSUME ReceiveMissing(g) PROVE Onward(g)
  BY <1>8, <1>a, ReceiveEffects
<1>9. ASSUME JoinRetries(g) PROVE Onward(g)
  <2>1. o.at = "answered" /\ o.status = "conflict" /\ o.req = "put"
        /\ UNCHANGED <<owned, closed, sessions, cache, etag, joined>>
    BY <1>9, <1>0, <1>e DEF JoinRetries, sessionVars, history, Answers
  <2>2. Moved(g, "sent", o.op, o.h, o.req)
    BY <1>9, ReceiveEffects
  <2>3. Unbound(o) /\ Entering(o)
    BY <1>0, <2>1 DEF Unbound, Entering
  <2> QED BY <1>d, <2>1, <2>2, <2>3
<1>10. ASSUME Fails(g) \/ UpdateFindsClosed(g) PROVE Onward(g)
  <2>1. \/ o.req = "connect" /\ GivesUp(g, "discard")
        \/ o.req = "leave" /\ o.op # "close" /\ Stays(g, "force")
        \/ Ends(g)
    BY <1>10, ReceiveEffects
  <2>2. CASE o.req = "leave" /\ Stays(g, "force")
    <3>1. o.op \notin {"publish", "join"}
      BY <1>0, <2>2
    <3>2. owned' = owned
      BY <1>10, <3>1 DEF Fails, UpdateFindsClosed, ReturnsError, Gives, Creating
    <3> QED BY <1>c, <2>2, <3>1, <3>2 DEF Stays
  <2> QED BY <1>a, <1>b, <2>1, <2>2
<1>11. ASSUME MarkDeleted(g) PROVE Onward(g)
  BY <1>11, <1>a, <1>b, ProceedEffects
<1>12. ASSUME SyncLocks(g) \/ CloseLocks(g) \/ Connect(g) PROVE Onward(g)
  <2>1. /\ owned' = owned
        /\ \/ o.at = "sync" /\ Asks(g, "syncLocked", "get")
           \/ o.at = "close" /\ Asks(g, "update", "leave")
           \/ o.at = "connect" /\ Asks(g, "update", "connect")
    BY <1>12, <1>e, ProceedEffects
       DEF SyncLocks, CloseLocks, Connect, sessionVars
  <2>2. o.at \in {"sync", "close"} => o.op \notin {"publish", "join"}
    BY <1>0
  <2> QED BY <1>c, <2>1, <2>2 DEF Asks
<1>13. ASSUME \/ CloseReturns(g) \/ CloseFinishes(g) \/ ForceClose(g)
              \/ AlreadyCurrent(g) \/ CallbackReturns(g)
       PROVE  Onward(g)
  BY <1>13, <1>a, ProceedEffects
<1>14. ASSUME SubscribeLocks(g) PROVE Onward(g)
  <2>1. Stays(g, "rta") /\ o.at = "subscribe"
        /\ UNCHANGED <<owned, closed, sessions, cache, etag, joined>>
    BY <1>14, ProceedEffects DEF SubscribeLocks, sessionVars, history
  <2> QED BY <1>0, <2>1 DEF Stays, Moved, Onward, Creating, Unbound, Entering
<1>15. ASSUME SubscriptionIsActive(g) \/ HandleSubscribeReturns(g)
       PROVE  Onward(g)
  <2>1. o.at \in {"rta", "restoring"}
        /\ UNCHANGED <<owned, closed, sessions, cache, etag, joined>>
    BY <1>15
       DEF SubscriptionIsActive, HandleSubscribeReturns, sessionVars, history
  <2>2. Ends(g) \/ Subscribed(g)
    BY <1>15, ProceedEffects
  <2>3. CASE o.req = "none" /\ Puts(g, data')
    BY <1>0, <2>1, <2>3 DEF Puts, Moved, Onward, Creating, Unbound, Entering
  <2>4. CASE o.req # "none" /\ Stays(g, "reconcile")
    BY <1>0, <2>1, <2>4 DEF Stays, Moved, Onward, Creating, Unbound, Entering
  <2> QED BY <1>a, <2>2, <2>3, <2>4 DEF Subscribed
<1>16. ASSUME Bind(g) PROVE Onward(g)
  <2>1. Stays(g, "subscribe") /\ o.at = "activity" /\ owned' = owned
    BY <1>16, ProceedEffects DEF Bind
  <2> QED BY <1>0, <1>c, <2>1 DEF Stays
<1>17. ASSUME ActivityFails(g) PROVE Onward(g)
  BY <1>17, <1>b, ProceedEffects
<1>18. ASSUME ReconcileLocks(g) PROVE Onward(g)
  <2>1. Learns(g, "connect", data) /\ o.at = "reconcile" /\ owned' = owned
    BY <1>18, ProceedEffects DEF ReconcileLocks, sessionVars
  <2> QED BY <1>0, <1>c, <2>1 DEF Learns
<1>19. ASSUME HandshakeStarts(g) \/ HandshakeSucceeds(g) PROVE Onward(g)
  <2>1. /\ o.at \in {"rta", "dropped", "handshake"}
        /\ Stays(g, "handshake") \/ Learns(g, "handle", connections')
        /\ UNCHANGED <<owned, closed, sessions, cache, etag, joined>>
    BY <1>19, ProceedEffects
       DEF HandshakeStarts, HandshakeSucceeds, sessionVars, history
  <2> QED BY <1>0, <2>1
          DEF Stays, Learns, Moved, Onward, Creating, Unbound, Entering
<1>20. ASSUME HandshakeFails(g) PROVE Onward(g)
  BY <1>20, <1>a, <1>b, ProceedEffects
<1>21. ASSUME HandleSubscribe(g) PROVE Onward(g)
  <2>1. /\ o.at = "handle" /\ Restores(g)
        /\ UNCHANGED <<owned, closed, sessions, cache, etag, joined>>
    BY <1>21, HandlerEffects DEF HandleSubscribe, sessionVars, history
  <2> QED BY <1>0, <2>1 DEF Restores, Onward, Creating, Unbound, Entering
<1>22. ASSUME ReadLocks(g) PROVE Onward(g)
  <2>1. /\ o.at = "read" /\ owned' = owned
        /\ \/ o.op = "tap" /\ Stays(g, "sync")
           \/ o.op = "lost" /\ Stays(g, "close")
    BY <1>22, ProceedEffects DEF ReadLocks, sessionVars
  <2> QED BY <1>c, <2>1 DEF Stays
<1> QED BY <1>1, <1>2, <1>3, <1>4, <1>5, <1>6, <1>7, <1>8, <1>9, <1>10, <1>11,
           <1>12, <1>13, <1>14, <1>15, <1>16, <1>17, <1>18, <1>19, <1>20, <1>21,
           <1>22
        DEF Progress, Deliver, Receive, Proceed

\* Who does not create a Session hands none out.
LEMMA OwnedStep ==
    ASSUME NEW g \in Goroutines, Progress(g), ~Creating(g)
    PROVE  owned' = owned
<1> USE DEF sessionVars
<1>1. ASSUME UpdateLocks(g) \/ DeliverUpdate(g) \/ DeliverPut(g) \/
             DeliverGet(g) \/ ReceiveSame(g)
      PROVE  owned' = owned
  BY <1>1 DEF UpdateLocks, DeliverUpdate, DeliverPut, DeliverGet, ReceiveSame
<1>2. ASSUME ReceiveDeleted(g) \/ ReceiveMissing(g) \/ JoinRetries(g) \/
             SyncLocks(g) \/ SyncSends(g)
      PROVE  owned' = owned
  BY <1>2 DEF ReceiveDeleted, ReceiveMissing, JoinRetries, SyncLocks, SyncSends
<1>3. ASSUME CloseReturns(g) \/ CloseLocks(g) \/ CloseFinishes(g) \/
             ForceClose(g) \/ SubscribeLocks(g)
      PROVE  owned' = owned
  BY <1>3
     DEF CloseReturns, CloseLocks, CloseFinishes, ForceClose, SubscribeLocks
<1>4. ASSUME SubscriptionIsActive(g) \/ Bind(g) \/ ReconcileLocks(g) \/
             Connect(g) \/ HandshakeStarts(g)
      PROVE  owned' = owned
  BY <1>4
     DEF SubscriptionIsActive, Bind, ReconcileLocks, Connect, HandshakeStarts
<1>5. ASSUME HandshakeSucceeds(g) \/ HandleSubscribe(g) \/
             HandleSubscribeReturns(g) \/ ReadLocks(g) \/ CallbackReturns(g)
      PROVE  owned' = owned
  BY <1>5
     DEF HandshakeSucceeds, HandleSubscribe, HandleSubscribeReturns, ReadLocks,
         CallbackReturns
<1>6. ASSUME ReceiveOk(g) PROVE owned' = owned
  BY <1>6 DEF ReceiveOk, Gives
<1>7. ASSUME MarkDeleted(g) PROVE owned' = owned
  BY <1>7 DEF MarkDeleted, Gives
<1>8. ASSUME ActivityFails(g) PROVE owned' = owned
  BY <1>8 DEF ActivityFails, Gives
<1>9. ASSUME AlreadyCurrent(g) PROVE owned' = owned
  BY <1>9 DEF AlreadyCurrent, Gives
<1>10. ASSUME Fails(g) PROVE owned' = owned
  BY <1>10 DEF Fails, ReturnsError, Gives
<1>11. ASSUME UpdateFindsClosed(g) PROVE owned' = owned
  BY <1>11 DEF UpdateFindsClosed, ReturnsError, Gives
<1>12. ASSUME HandshakeFails(g) PROVE owned' = owned
  BY <1>12 DEF HandshakeFails, SubscribeFails, Gives
<1> QED
  BY <1>1, <1>2, <1>3, <1>4, <1>5, <1>6, <1>7, <1>8, <1>9, <1>10, <1>11, <1>12
     DEF Progress, Deliver, Receive, Proceed

\* Whoever creates a Session stays alone with it.
LEMMA ProgressCreators ==
    ASSUME TypeOK, OperationsOK, HandlesOK, TableOK, CreatorsOK,
           NEW g \in Goroutines, Progress(g)
    PROVE  CreatorsOK'
<1> DEFINE o == go[g]
           n == go'[g]
<1>1. Onward(g) /\ OwnOnly(g)
  BY ProgressOnward, OwnStep
\* The others have not moved, but for those that HandleSubscribe starts.
<1>2. \A k \in Goroutines : k # g =>
          \/ go'[k] = go[k]
          \/ go'[k].op = "restore" /\ \E r \in Refs : sessions[r] = go'[k].h
  BY OthersStay DEF Started, Bound
<1>3. \A k \in Goroutines : Creating(k)' =>
          Creating(k) /\ go'[k].h = go[k].h /\ owned'[go[k].h] = owned[go[k].h]
                      /\ go[k].h \in Handles
  <2> SUFFICES ASSUME NEW k \in Goroutines, Creating(k)'
               PROVE  /\ Creating(k) /\ go'[k].h = go[k].h
                      /\ owned'[go[k].h] = owned[go[k].h] /\ go[k].h \in Handles
    OBVIOUS
  <2>1. CASE k = g
    BY <1>1, <2>1 DEF Onward, Creating, OperationsOK, OperationOK
  <2>2. CASE k # g
    <3>1. Creating(k) /\ go'[k] = go[k] /\ go[k].h \in Handles
      BY <1>2, <2>2 DEF Creating, OperationsOK, OperationOK
    <3>2. CASE o.h # go[k].h \/ o.op = "none"
      BY <1>1, <3>1, <3>2 DEF OwnOnly, Untouched
    <3>3. CASE o.h = go[k].h /\ o.op # "none"
      <4>1. ~Creating(g)
        BY <2>2, <3>1, <3>3 DEF CreatorsOK
      <4>2. owned' = owned
        BY <1>1, <4>1, OwnedStep
      <4> QED BY <3>1, <4>2
    <3> QED BY <3>2, <3>3
  <2> QED BY <2>1, <2>2
<1>4. ASSUME NEW k \in Goroutines, Creating(k)'
      PROVE  /\ owned'[go'[k].h] = "creating"
             /\ \A j \in Goroutines : Creating(j)' /\ go'[j].h = go'[k].h => j = k
  BY <1>3, <1>4 DEF CreatorsOK
<1>5. ASSUME NEW k \in Goroutines, Unbound(go'[k])
      PROVE  /\ ~closed'[go'[k].h]
             /\ \A r \in Refs : sessions'[r] # go'[k].h
             /\ \A j \in Goroutines : go'[j].h = go'[k].h => j = k
             /\ go'[k].at # "activity" =>
                    cache'[go'[k].h] = Empty /\ etag'[go'[k].h] = 0
  <2> DEFINE h == go[k].h
  <2>1. Unbound(go[k]) /\ go'[k].h = h /\ h \in Handles
        /\ (k = g => UNCHANGED <<closed, sessions>>)
    BY <1>1, <1>2, <1>3, <1>5 DEF Onward, Unbound, Creating
  <2>2. /\ ~closed[h] /\ \A r \in Refs : sessions[r] # h
        /\ \A j \in Goroutines : go[j].h = h => j = k
    BY <2>1 DEF CreatorsOK
  <2>3. \A j \in Goroutines : go'[j].h = h => j = k
    BY <1>1, <1>2, <2>1, <2>2, MpsdAssumption DEF Onward
  <2>4. CASE k = g
    BY <1>1, <1>5, <2>1, <2>2, <2>3, <2>4 DEF Onward, CreatorsOK
  <2>5. CASE k # g
    <3>1. Untouched(h) /\ o.h # h /\ go'[k] = go[k]
      BY <1>1, <1>2, <1>5, <2>1, <2>2, <2>5 DEF OwnOnly, Unbound
    <3>2. \A r \in Refs : sessions'[r] # h
      BY <1>1, <2>1, <2>2, <3>1, MpsdAssumption
         DEF OwnOnly, Bind, Release, TypeOK
    <3> QED BY <2>1, <2>2, <2>3, <3>1, <3>2 DEF Untouched, CreatorsOK
  <2> QED BY <2>4, <2>5
<1> QED BY <1>4, <1>5 DEF CreatorsOK

\* Nobody else is started on a Session that is being created.
LEMMA StartCreators ==
    ASSUME TypeOK, OperationsOK, HandlesOK, TableOK, CreatorsOK,
           HandleError \/ Start \/ Rest
    PROVE  CreatorsOK'
<1>0. \A k \in Goroutines : Creating(k) => go[k].h \in Handles
  BY DEF Creating, OperationsOK, OperationOK
<1>1. \A k \in Goroutines : Unbound(go[k]) =>
          Creating(k) /\ owned[go[k].h] = "creating" /\ \A r \in Refs : sessions[r] # go[k].h
  BY DEF Unbound, Creating, CreatorsOK
<1>a. ASSUME UNCHANGED sessionVars,
             \A k \in Goroutines : \/ go'[k] = go[k]
                                   \/ /\ go'[k].op \notin {"publish", "join"}
                                      /\ \A j \in Goroutines :
                                            Unbound(go[j]) => go'[k].h # go[j].h
      PROVE  CreatorsOK'
  <2>1. UNCHANGED <<owned, closed, sessions, cache, etag>>
    BY <1>a DEF sessionVars
  <2>2. \A k \in Goroutines : Creating(k)' \/ Unbound(go'[k]) => go'[k] = go[k]
    BY <1>a DEF Creating, Unbound
  <2>3. ASSUME NEW k \in Goroutines, Creating(k)'
        PROVE  /\ owned'[go'[k].h] = "creating"
               /\ \A j \in Goroutines : Creating(j)' /\ go'[j].h = go'[k].h => j = k
    BY <2>1, <2>2, <2>3 DEF Creating, CreatorsOK
  <2>4. ASSUME NEW k \in Goroutines, Unbound(go'[k])
        PROVE  /\ ~closed'[go'[k].h]
               /\ \A r \in Refs : sessions'[r] # go'[k].h
               /\ \A j \in Goroutines : go'[j].h = go'[k].h => j = k
               /\ go'[k].at # "activity" =>
                      cache'[go'[k].h] = Empty /\ etag'[go'[k].h] = 0
    BY <1>a, <2>1, <2>2, <2>4 DEF CreatorsOK
  <2> QED BY <2>3, <2>4 DEF CreatorsOK
<1>b. ASSUME NEW g \in Goroutines, \A k \in Goroutines : k # g => go'[k] = go[k],
             go'[g].op \notin {"publish", "join"}, UNCHANGED sessionVars,
             \A j \in Goroutines : Unbound(go[j]) => go'[g].h # go[j].h
      PROVE  CreatorsOK'
  BY <1>a, <1>b
<1>2. ASSUME HandleError PROVE CreatorsOK'
  <2>1. Closes /\ UNCHANGED sessionVars
    BY <1>2, HandlerEffects DEF HandleError
  <2> QED BY <1>1, <1>a, <2>1 DEF Closes, Started, Bound
<1>3. ASSUME NEW g \in Goroutines, NEW h \in Handles,
             NEW op \in {"set", "sync", "close"}, Call(g, h, op)
      PROVE  CreatorsOK'
  <2>1. UNCHANGED sessionVars /\ owned[h] = "returned"
    BY <1>3 DEF Call
  <2>2. \E p, r : Moved(g, p, op, h, r)
    BY <1>3, StartEffects DEF Begins
  <2> QED BY <1>1, <1>b, <2>1, <2>2 DEF Moved
<1>4. ASSUME NEW h \in Handles, HandleEvent(h) PROVE CreatorsOK'
  <2>1. UNCHANGED sessionVars /\ h \in Bound
    BY <1>4 DEF HandleEvent
  <2>2. Moved(Tapper(h), "read", "tap", h, "none") /\ Tapper(h) \in Goroutines
    BY <1>4, StartEffects, GoroutineKinds
  <2> QED BY <1>1, <1>b, <2>1, <2>2 DEF Moved, Bound
<1>5. ASSUME Drop PROVE CreatorsOK'
  <2>1. UNCHANGED sessionVars /\ Rta \in Goroutines
    BY <1>5, GoroutineKinds DEF Drop
  <2>2. Stays(Rta, "dropped") /\ OperationOK(Rta, go[Rta])
    BY <1>5, <2>1, StartEffects DEF OperationsOK
  <2>3. go[Rta].op = "none" /\ go[Rta].h = NoHandle
    BY <2>2, GoroutineKinds DEF OperationOK, Runs, Legal
  <2> QED BY <1>0, <1>1, <1>b, <2>1, <2>2, <2>3, MpsdAssumption DEF Stays, Moved
<1>6. ASSUME Unsubscribe \/ Rest PROVE CreatorsOK'
  <2>1. UNCHANGED <<sessionVars, go>>
    BY <1>6 DEF Unsubscribe, Rest, vars
  <2> QED BY <1>a, <2>1
<1>7. ASSUME NEW r \in Refs, OthersWrite(r) PROVE CreatorsOK'
  <2>1. UNCHANGED <<sessionVars, go>>
    BY <1>7 DEF OthersWrite
  <2> QED BY <1>a, <2>1
<1>8. ASSUME NEW g \in Goroutines, NEW h \in Handles, NEW r \in Refs,
             NEW op \in {"publish", "join"}, Create(g, h, r, op)
      PROVE  CreatorsOK'
  <2>1. /\ owned[h] = "unused" /\ owned' = [owned EXCEPT ![h] = "creating"]
        /\ UNCHANGED <<cache, etag, closed, sessions>>
    BY <1>8 DEF Create
  <2>2. Moved(g, "subscribe", op, h, "none")
    BY <1>8, StartEffects DEF Begins
  <2>3. \A k \in Goroutines : go[k].h # h
    <3>1. \A k \in Goroutines : go[k].op # "none" => owned[go[k].h] # "unused"
      BY DEF OperationsOK, OperationOK
    <3>2. \A k \in Goroutines : go[k].op = "none" => go[k].h = NoHandle
      BY DEF OperationsOK, OperationOK, Legal
    <3> QED BY <2>1, <3>1, <3>2, MpsdAssumption
  <2>4. ~closed[h] /\ cache[h] = Empty /\ etag[h] = 0
        /\ \A s \in Refs : sessions[s] # h
    BY <2>1 DEF HandlesOK, TableOK
  <2>5. \A k \in Goroutines : k # g => go'[k] = go[k] /\ go'[k].h # h
    BY <2>2, <2>3 DEF Moved
  <2>6. go'[g].h = h
    BY <2>2 DEF Moved
  <2>7. ASSUME NEW k \in Goroutines, Creating(k)'
        PROVE  /\ owned'[go'[k].h] = "creating"
               /\ \A j \in Goroutines : Creating(j)' /\ go'[j].h = go'[k].h => j = k
    <3>1. \A x \in Handles : x # h => owned'[x] = owned[x]
      BY <2>1 DEF TypeOK
    <3>2. owned'[h] = "creating"
      BY <2>1 DEF TypeOK
    <3>3. CASE k = g
      BY <2>5, <2>6, <3>2, <3>3
    <3>4. CASE k # g
      <4>1. Creating(k) /\ go'[k] = go[k] /\ go[k].h \in Handles /\ go[k].h # h
        BY <1>0, <2>3, <2>5, <2>7, <3>4 DEF Creating
      <4>2. \A j \in Goroutines : Creating(j)' /\ go'[j].h = go'[k].h =>
               Creating(j) /\ go[j].h = go[k].h
        BY <2>5, <2>6, <4>1 DEF Creating
      <4> QED BY <3>1, <4>1, <4>2 DEF CreatorsOK
    <3> QED BY <3>3, <3>4
  <2>8. ASSUME NEW k \in Goroutines, Unbound(go'[k])
        PROVE  /\ ~closed'[go'[k].h]
               /\ \A s \in Refs : sessions'[s] # go'[k].h
               /\ \A j \in Goroutines : go'[j].h = go'[k].h => j = k
               /\ go'[k].at # "activity" =>
                      cache'[go'[k].h] = Empty /\ etag'[go'[k].h] = 0
    BY <2>1, <2>4, <2>5, <2>6, <2>8 DEF CreatorsOK
  <2> QED BY <2>7, <2>8 DEF CreatorsOK
<1> QED BY <1>2, <1>3, <1>4, <1>5, <1>6, <1>7, <1>8 DEF Start
-----------------------------------------------------------------------------
(* The mutexes.                                                            *)

\* Session.syncMu, between a request and its answer.
SyncStep(g) ==
    LET o == go[g]
        n == go'[g]
    IN  /\ NeedsSync(n) => n.h = o.h /\ o.op # "none"
        /\ \/ syncMu' = syncMu /\ (NeedsSync(n) => NeedsSync(o))
           \/ syncMu[o.h] = Nobody /\ syncMu' = [syncMu EXCEPT ![o.h] = g]
           \/ syncMu' = Unlocked(syncMu, o.h, g) /\ ~NeedsSync(n)

\* Session.closeMu, during a sync and a close.
CloseStep(g) ==
    LET o == go[g]
        n == go'[g]
    IN  /\ NeedsClose(n) => n.h = o.h /\ o.op # "none"
        /\ \/ closeMu' = closeMu /\ (NeedsClose(n) => NeedsClose(o))
           \/ closeMu[o.h] = Nobody /\ closeMu' = [closeMu EXCEPT ![o.h] = g]
           \/ closeMu' = Unlocked(closeMu, o.h, g) /\ ~NeedsClose(n)

\* Client.reconcileMu, while a connection is reconciled.
WriterStep(g) ==
    LET o == go[g]
        n == go'[g]
    IN  /\ \/ writer' = writer /\ (NeedsWriter(n) => NeedsWriter(o))
           \/ writer = Nobody /\ writer' = g
           \/ writer' = Freed(writer, g) /\ ~NeedsWriter(n)
           \/ o.at = "restoring" /\ writer' = Nobody /\ ~NeedsWriter(n)
        /\ o.at = "restoring" =>
              n.at = "restoring" \/ \A h \in Handles : go[Restorer(h)].at = "idle"

\* rta.Subscription.opMu, during a handshake and HandleSubscribe.
ShakingStep(g) ==
    LET o == go[g]
        n == go'[g]
    IN  \/ opMu' = opMu /\ (n.at \in Shaking => o.at \in Shaking)
        \/ opMu = Nobody /\ opMu' = g
        \/ o.at \in Shaking /\ n.at \notin Shaking /\ opMu' = Nobody

\* A Session is closed under its closeMu, and is not when it is to be left.
ClosingStep(g) ==
    LET o == go[g]
        n == go'[g]
    IN  /\ \/ closed' = closed
           \/ NeedsClose(o)
           \/ closeMu[o.h] = Nobody
        /\ n.req = "leave" /\ n.at \in Leaving =>
              /\ closed' = closed
              /\ (o.req = "leave" /\ o.at \in Leaving) \/ ~closed[o.h]

LockStep(g) == SyncStep(g) /\ CloseStep(g) /\ WriterStep(g) /\ ShakingStep(g)
               /\ ClosingStep(g) /\ go[g].at # "idle"

\* Every step of a goroutine treats the mutexes so.
LEMMA LockSteps ==
    ASSUME TypeOK, OperationsOK, HandlesOK, NEW g \in Goroutines, Progress(g)
    PROVE  LockStep(g)
<1> DEFINE o == go[g]
<1>0. Legal(o) /\ (o.at = "answered" => o.status \in Answers(o.req))
  BY DEF OperationsOK, OperationOK
<1> USE DEF LockStep, SyncStep, CloseStep, WriterStep, ShakingStep, ClosingStep,
            NeedsSync, NeedsClose, NeedsWriter, Stays, Asks, Learns, Gets, Begins,
            Ends, GivesUp, Subscribed, Puts, Restores, Moved, Carries,
            sessionVars, lockVars, rtaVars, Legal, Subscribing, Shaking, Updating,
            Leaving, Getting, Answers
<1>1. ASSUME UpdateLocks(g) PROVE LockStep(g)
  <2>1. Stays(g, "sent")
    BY <1>1, ProceedEffects
  <2> QED BY <1>0, <1>1, <2>1 DEF UpdateLocks
<1>2. ASSUME SyncSends(g) PROVE LockStep(g)
  <2>1. Stays(g, "sent")
    BY <1>2, ProceedEffects
  <2> QED BY <1>0, <1>2, <2>1 DEF SyncSends
<1>3. ASSUME DeliverUpdate(g) \/ DeliverGet(g) PROVE LockStep(g)
  <2>1. \E s, b : Gets(g, s, b)
    BY <1>3, DeliveryEffects
  <2> QED BY <1>0, <1>3, <2>1 DEF DeliverUpdate, DeliverGet
<1>4. ASSUME DeliverPut(g) PROVE LockStep(g)
  <2>1. \E s, b : Gets(g, s, b)
    BY <1>4, DeliveryEffects
  <2> QED BY <1>0, <1>4, <2>1 DEF DeliverPut
<1>5. ASSUME ReceiveOk(g) PROVE LockStep(g)
  <2>1. \/ o.req = "put" /\ Stays(g, "activity")
        \/ o.req = "leave" /\ Stays(g, "closeLocked")
        \/ o.req = "get" /\ o.op = "tap" /\ Stays(g, "callback")
        \/ o.req # "put" /\ o.req # "leave" /\ Ends(g)
    BY <1>5, ReceiveEffects
  <2> QED BY <1>0, <1>5, <2>1 DEF ReceiveOk
<1>6. ASSUME ReceiveSame(g) PROVE LockStep(g)
  <2>1. Stays(g, "callback") \/ Ends(g)
    BY <1>6, ReceiveEffects
  <2> QED BY <1>0, <1>6, <2>1 DEF ReceiveSame
<1>7. ASSUME ReceiveDeleted(g) PROVE LockStep(g)
  <2>1. \/ o.req = "leave" /\ Stays(g, "clearLocked")
        \/ o.req # "leave" /\ Stays(g, "markDeleted")
    BY <1>7, ReceiveEffects
  <2> QED BY <1>0, <1>7, <2>1 DEF ReceiveDeleted
<1>8. ASSUME ReceiveMissing(g) PROVE LockStep(g)
  <2>1. Ends(g)
    BY <1>8, ReceiveEffects
  <2> QED BY <1>0, <1>8, <2>1 DEF ReceiveMissing, Release
<1>9. ASSUME JoinRetries(g) PROVE LockStep(g)
  <2>1. Moved(g, "sent", o.op, o.h, o.req)
    BY <1>9, ReceiveEffects
  <2> QED BY <1>0, <1>9, <2>1 DEF JoinRetries
<1>10. ASSUME Fails(g) PROVE LockStep(g)
  <2>1. \/ o.req = "connect" /\ GivesUp(g, "discard")
        \/ o.req = "leave" /\ o.op # "close" /\ Stays(g, "force")
        \/ o.req # "connect" /\ Ends(g)
    BY <1>10, ReceiveEffects
  <2> QED BY <1>0, <1>10, <2>1 DEF Fails, ReturnsError
<1>11. ASSUME UpdateFindsClosed(g) PROVE LockStep(g)
  <2>1. \/ GivesUp(g, "discard")
        \/ o.op # "close" /\ Stays(g, "force")
        \/ Ends(g)
    BY <1>11, ReceiveEffects
  <2> QED BY <1>0, <1>11, <2>1 DEF UpdateFindsClosed, ReturnsError
<1>12. ASSUME MarkDeleted(g) PROVE LockStep(g)
  <2>1. Ends(g) \/ GivesUp(g, "discard")
    BY <1>12, ProceedEffects
  <2> QED BY <1>0, <1>12, <2>1 DEF MarkDeleted, Release
<1>13. ASSUME SyncLocks(g) PROVE LockStep(g)
  <2>1. Asks(g, "syncLocked", "get")
    BY <1>13, ProceedEffects
  <2> QED BY <1>0, <1>13, <2>1 DEF SyncLocks
<1>14. ASSUME CloseLocks(g) PROVE LockStep(g)
  <2>1. Asks(g, "update", "leave")
    BY <1>14, ProceedEffects
  <2> QED BY <1>0, <1>14, <2>1 DEF CloseLocks
<1>15. ASSUME Connect(g) PROVE LockStep(g)
  <2>1. Asks(g, "update", "connect")
    BY <1>15, ProceedEffects
  <2> QED BY <1>0, <1>15, <2>1 DEF Connect
<1>16. ASSUME CloseReturns(g) \/ CallbackReturns(g) PROVE LockStep(g)
  <2>1. Ends(g)
    BY <1>16, ProceedEffects
  <2> QED BY <1>0, <1>16, <2>1 DEF CloseReturns, CallbackReturns
<1>17. ASSUME CloseFinishes(g) PROVE LockStep(g)
  <2>1. Ends(g)
    BY <1>17, ProceedEffects
  <2> QED BY <1>0, <1>17, <2>1 DEF CloseFinishes, Release
<1>18. ASSUME ForceClose(g) PROVE LockStep(g)
  <2>1. Ends(g)
    BY <1>18, ProceedEffects
  <2> QED BY <1>0, <1>18, <2>1 DEF ForceClose, Release
<1>19. ASSUME AlreadyCurrent(g) PROVE LockStep(g)
  <2>1. Ends(g)
    BY <1>19, ProceedEffects
  <2> QED BY <1>0, <1>19, <2>1 DEF AlreadyCurrent
<1>20. ASSUME SubscribeLocks(g) PROVE LockStep(g)
  <2>1. Stays(g, "rta")
    BY <1>20, ProceedEffects
  <2> QED BY <1>0, <1>20, <2>1 DEF SubscribeLocks
<1>21. ASSUME SubscriptionIsActive(g) PROVE LockStep(g)
  <2>1. Subscribed(g)
    BY <1>21, ProceedEffects
  <2> QED BY <1>0, <1>21, <2>1 DEF SubscriptionIsActive, SubscribeReturns
<1>22. ASSUME Bind(g) PROVE LockStep(g)
  <2>1. Stays(g, "subscribe")
    BY <1>22, ProceedEffects
  <2> QED BY <1>0, <1>22, <2>1 DEF Bind
<1>23. ASSUME ActivityFails(g) PROVE LockStep(g)
  <2>1. GivesUp(g, "close")
    BY <1>23, ProceedEffects
  <2> QED BY <1>0, <1>23, <2>1 DEF ActivityFails
<1>24. ASSUME ReconcileLocks(g) PROVE LockStep(g)
  <2>1. Learns(g, "connect", data)
    BY <1>24, ProceedEffects
  <2> QED BY <1>0, <1>24, <2>1 DEF ReconcileLocks
<1>25. ASSUME HandshakeStarts(g) PROVE LockStep(g)
  <2>1. Stays(g, "handshake")
    BY <1>25, ProceedEffects
  <2> QED BY <1>0, <1>25, <2>1 DEF HandshakeStarts
<1>26. ASSUME HandshakeSucceeds(g) PROVE LockStep(g)
  <2>1. Learns(g, "handle", connections')
    BY <1>26, ProceedEffects
  <2> QED BY <1>0, <1>26, <2>1 DEF HandshakeSucceeds
<1>27. ASSUME HandshakeFails(g) PROVE LockStep(g)
  <2>1. Ends(g) \/ GivesUp(g, "discard")
    BY <1>27, ProceedEffects
  <2> QED BY <1>0, <1>27, <2>1 DEF HandshakeFails, SubscribeFails
<1>28. ASSUME HandleSubscribe(g) PROVE LockStep(g)
  <2>1. Restores(g)
    BY <1>28, HandlerEffects
  <2> QED BY <1>0, <1>28, <2>1 DEF HandleSubscribe
<1>29. ASSUME HandleSubscribeReturns(g) PROVE LockStep(g)
  <2>1. Ends(g) \/ Subscribed(g)
    BY <1>29, ProceedEffects
  <2> QED BY <1>0, <1>29, <2>1 DEF HandleSubscribeReturns, SubscribeReturns
<1>30. ASSUME ReadLocks(g) PROVE LockStep(g)
  <2>1. \/ o.op = "tap" /\ Stays(g, "sync")
        \/ o.op = "lost" /\ Stays(g, "close")
    BY <1>30, ProceedEffects
  <2> QED BY <1>0, <1>30, <2>1 DEF ReadLocks
<1> QED BY <1>1, <1>2, <1>3, <1>4, <1>5, <1>6, <1>7, <1>8, <1>9, <1>10,
           <1>11, <1>12, <1>13, <1>14, <1>15, <1>16, <1>17, <1>18, <1>19,
           <1>20, <1>21, <1>22, <1>23, <1>24, <1>25, <1>26, <1>27, <1>28,
           <1>29, <1>30
        DEF Progress, Deliver, Receive, Proceed

\* What HandleError, an event, RTA or the application starts at k.
Fresh(k) ==
    LET n == go'[k]
    IN  /\ go[k].at \notin Shaking /\ \A h \in Handles : k # Restorer(h)
        /\ n.at \in {"subscribe", "update", "sync", "close", "read", "dropped"}
        /\ n.req \in {"none", "custom"}
        /\ n.connection \in {NoConnection, go[k].connection}
        /\ n.op \in {"publish", "join"} => n.h \in Handles /\ owned[n.h] = "unused"
        /\ n.op = "tap" => /\ n.h \in Bound /\ n.seen = server[ref[n.h]].version
                           /\ n.at = "read" /\ UNCHANGED <<server, ref>>

\* Nothing else that a goroutine of theirs has or holds changes.
LEMMA StartMoves ==
    ASSUME TypeOK, OperationsOK, HandlesOK, TableOK, HandleError \/ Start \/ Rest
    PROVE  /\ UNCHANGED <<cache, etag, closed, sessions, closeMu, syncMu, writer,
                          data, opMu, connections, left, joined>>
           /\ \A k \in Goroutines : go'[k] = go[k] \/ Fresh(k)
<1> USE DEF sessionVars, lockVars, rtaVars, history
<1> DEFINE same == UNCHANGED <<cache, etag, closed, sessions, closeMu, syncMu,
                               writer, data, opMu, connections, left, joined>>
<1>a. ASSUME NEW g \in Goroutines, \E p, q, h, r : Moved(g, p, q, h, r), Fresh(g)
      PROVE  \A k \in Goroutines : go'[k] = go[k] \/ Fresh(k)
  BY <1>a DEF Moved
<1>1. ASSUME HandleError
      PROVE  same /\ \A k \in Goroutines : go'[k] = go[k] \/ Fresh(k)
  <2>1. same /\ \A h \in Handles : go[Closer(h)].at = "idle"
    BY <1>1 DEF HandleError
  <2>2. Closes /\ Bound \subseteq Handles
    BY <1>1, HandlerEffects DEF Bound, TypeOK
  <2> QED BY <2>1, <2>2, GoroutineKinds DEF Closes, Started, Fresh, Shaking
<1>2. ASSUME NEW g \in Goroutines, Free(g)
      PROVE  go[g].at \notin Shaking /\ \A h \in Handles : g # Restorer(h)
  <2>1. Legal(go[g]) /\ Runs(g, go[g])
    BY DEF OperationsOK, OperationOK
  <2>2. go[g].at = "callback" => go[g].op = "tap"
    BY <2>1 DEF Legal, Subscribing, Shaking, Updating, Leaving, Getting
  <2> QED BY <1>2, <2>1, <2>2, GoroutineKinds DEF Free, Runs, Shaking
<1>3. ASSUME NEW g \in Goroutines, NEW h \in Handles,
             NEW op \in {"set", "sync", "close"}, Call(g, h, op)
      PROVE  same /\ \A k \in Goroutines : go'[k] = go[k] \/ Fresh(k)
  <2>1. \/ Begins(g, "update", op, h, "custom")
        \/ op # "set" /\ Begins(g, op, op, h, "none")
    BY <1>3, StartEffects
  <2>2. same /\ Free(g)
    BY <1>3 DEF Call
  <2>3. Fresh(g)
    BY <1>2, <2>1, <2>2 DEF Begins, Moved, Carries, Fresh
  <2> QED BY <1>a, <2>1, <2>2, <2>3 DEF Begins
<1>4. ASSUME NEW g \in Goroutines, NEW h \in Handles, NEW r \in Refs,
             NEW op \in {"publish", "join"}, Create(g, h, r, op)
      PROVE  same /\ \A k \in Goroutines : go'[k] = go[k] \/ Fresh(k)
  <2>1. Begins(g, "subscribe", op, h, "none")
    BY <1>4, StartEffects
  <2>2. same /\ Free(g) /\ owned[h] = "unused"
    BY <1>4 DEF Create
  <2>3. Fresh(g)
    BY <1>2, <2>1, <2>2 DEF Begins, Moved, Carries, Fresh
  <2> QED BY <1>a, <2>1, <2>2, <2>3 DEF Begins
<1>5. ASSUME NEW h \in Handles, HandleEvent(h)
      PROVE  same /\ \A k \in Goroutines : go'[k] = go[k] \/ Fresh(k)
  <2>1. /\ Moved(Tapper(h), "read", "tap", h, "none")
        /\ Carries(Tapper(h), NoConnection, server[ref[h]].version, "none", Empty)
    BY <1>5, StartEffects
  <2>2. same
    BY <1>5 DEF HandleEvent
  <2>3. go[Tapper(h)].at = "idle" /\ h \in Bound /\ UNCHANGED <<server, ref>>
    BY <1>5 DEF HandleEvent
  <2>4. Fresh(Tapper(h))
    BY <2>1, <2>3, GoroutineKinds DEF Moved, Carries, Fresh, Shaking
  <2> QED BY <1>a, <2>1, <2>2, <2>4, GoroutineKinds
<1>6. ASSUME Drop
      PROVE  same /\ \A k \in Goroutines : go'[k] = go[k] \/ Fresh(k)
  <2>1. Stays(Rta, "dropped") /\ OperationOK(Rta, go[Rta])
    BY <1>6, StartEffects, GoroutineKinds DEF OperationsOK
  <2>2. same /\ go[Rta].at = "idle"
    BY <1>6 DEF Drop
  <2>3. go[Rta].op = "none" /\ go[Rta].req = "none"
    BY <2>1, GoroutineKinds DEF OperationOK, Runs, Legal
  <2>4. Fresh(Rta)
    BY <2>1, <2>2, <2>3, GoroutineKinds
       DEF Stays, Moved, Carries, Fresh, Shaking
  <2> QED BY <1>a, <2>1, <2>2, <2>4, GoroutineKinds DEF Stays
<1>7. ASSUME Unsubscribe
      PROVE  same /\ \A k \in Goroutines : go'[k] = go[k] \/ Fresh(k)
  BY <1>7 DEF Unsubscribe
<1>8. ASSUME NEW r \in Refs, OthersWrite(r)
      PROVE  same /\ \A k \in Goroutines : go'[k] = go[k] \/ Fresh(k)
  BY <1>8 DEF OthersWrite
<1>9. ASSUME Rest
      PROVE  same /\ \A k \in Goroutines : go'[k] = go[k] \/ Fresh(k)
  BY <1>9 DEF Rest, vars
<1> QED BY <1>1, <1>3, <1>4, <1>5, <1>6, <1>7, <1>8, <1>9 DEF Start

\* A Session may be put to use, and somebody may write a document, but never
\* with another connection id.
LEMMA StartSessions ==
    ASSUME TypeOK, OperationsOK, HandlesOK, TableOK, HandleError \/ Start \/ Rest
    PROVE  /\ \A h \in Handles : \/ owned'[h] = owned[h] /\ ref'[h] = ref[h]
                                 \/ owned[h] = "unused" /\ ref'[h] \in Refs
           /\ \A r \in Refs :
                 server'[r].connection \in {server[r].connection, NoConnection}
<1> USE DEF sessionVars
<1>1. ASSUME NEW g \in Goroutines, NEW h \in Handles, NEW r \in Refs,
             NEW op \in {"publish", "join"}, Create(g, h, r, op)
      PROVE  /\ UNCHANGED server
             /\ \A k \in Handles : \/ owned'[k] = owned[k] /\ ref'[k] = ref[k]
                                   \/ owned[k] = "unused" /\ ref'[k] \in Refs
  BY <1>1 DEF Create, TypeOK
<1>2. ASSUME NEW s \in Refs, OthersWrite(s)
      PROVE  /\ UNCHANGED <<owned, ref>>
             /\ \A r \in Refs :
                   server'[r].connection \in {server[r].connection, NoConnection}
  <2>1. UNCHANGED <<owned, ref>>
    BY <1>2 DEF OthersWrite
  <2> QED BY <1>2, <2>1, StartEffects DEF Rewritten
<1>3. HandleError \/ Rest \/ Drop \/ Unsubscribe => UNCHANGED <<server, owned, ref>>
  BY DEF HandleError, Rest, Drop, Unsubscribe, vars
<1>4. \A h \in Handles : HandleEvent(h) => UNCHANGED <<server, owned, ref>>
  BY DEF HandleEvent
<1>5. \A g, h, op : Call(g, h, op) => UNCHANGED <<server, owned, ref>>
  BY DEF Call
<1> QED BY <1>1, <1>2, <1>3, <1>4, <1>5 DEF Start

\* A goroutine that moves takes away no mutex that another holds.
LEMMA ProgressHeld ==
    ASSUME TypeOK, OperationsOK, HandlesOK, SyncHeld, CloseHeld,
           NEW g \in Goroutines, Progress(g)
    PROVE  SyncHeld' /\ CloseHeld'
<1> DEFINE o == go[g]
<1>0. LockStep(g) /\ (o.op # "none" => o.h \in Handles)
  BY LockSteps, Busy
<1>1. \A k \in Goroutines : k # g /\ (NeedsSync(go'[k]) \/ NeedsClose(go'[k])) =>
          go'[k] = go[k] /\ go[k].h \in Handles
  <2>1. ASSUME NEW k \in Goroutines, k # g, NeedsSync(go'[k]) \/ NeedsClose(go'[k])
        PROVE  go'[k] = go[k]
    BY <2>1, OthersStay DEF Started, NeedsSync, NeedsClose, Leaving, Getting
  <2>2. ASSUME NEW k \in Goroutines, NeedsSync(go[k]) \/ NeedsClose(go[k])
        PROVE  go[k].h \in Handles
    BY <2>2, Busy, Something
       DEF NeedsSync, NeedsClose, Leaving, Getting, Shaking
  <2> QED BY <2>1, <2>2
<1>2. SyncHeld'
  <2>1. SyncStep(g)
    BY <1>0 DEF LockStep
  <2>2. ASSUME NEW k \in Goroutines, k # g, NeedsSync(go'[k])
        PROVE  syncMu'[go'[k].h] = k
    <3>1. go'[k] = go[k] /\ go[k].h \in Handles /\ syncMu[go[k].h] = k
      BY <1>1, <2>2 DEF SyncHeld
    <3> QED BY <2>1, <2>2, <3>1, MpsdAssumption DEF SyncStep, Unlocked, TypeOK
  <2>3. NeedsSync(go'[g]) => syncMu'[go'[g].h] = g
    BY <1>0, <2>1, MpsdAssumption DEF SyncStep, SyncHeld, TypeOK
  <2> QED BY <2>2, <2>3 DEF SyncHeld, NeedsSync
<1>3. CloseHeld'
  <2>1. CloseStep(g)
    BY <1>0 DEF LockStep
  <2>2. ASSUME NEW k \in Goroutines, k # g, NeedsClose(go'[k])
        PROVE  closeMu'[go'[k].h] = k
    <3>1. go'[k] = go[k] /\ go[k].h \in Handles /\ closeMu[go[k].h] = k
      BY <1>1, <2>2 DEF CloseHeld
    <3> QED BY <2>1, <2>2, <3>1, MpsdAssumption DEF CloseStep, Unlocked, TypeOK
  <2>3. NeedsClose(go'[g]) => closeMu'[go'[g].h] = g
    BY <1>0, <2>1, MpsdAssumption DEF CloseStep, CloseHeld, TypeOK
  <2> QED BY <2>2, <2>3 DEF CloseHeld, NeedsClose
<1> QED BY <1>2, <1>3

\* While a handler restores connections, it holds reconcileMu and the
\* subscription.
LEMMA ProgressRtaHeld ==
    ASSUME TypeOK, OperationsOK, HandlesOK, RtaHeld,
           NEW g \in Goroutines, Progress(g)
    PROVE  RtaHeld'
<1> DEFINE o == go[g]
           n == go'[g]
<1>0. /\ WriterStep(g) /\ ShakingStep(g) /\ o.at # "idle"
      /\ Nobody \notin Goroutines
  BY LockSteps, MpsdAssumption DEF LockStep
<1>1. ASSUME NEW k \in Goroutines, k # g
      PROVE  /\ go'[k].at \in Shaking \/ NeedsWriter(go'[k]) => go'[k] = go[k]
             /\ go'[k] = go[k] \/ (n.at = "restoring" /\ HandleSubscribe(g))
  BY <1>1, OthersStay, HandlerEffects
     DEF Started, NeedsWriter, Shaking, Restores
<1>2. ASSUME NEW k \in Goroutines, go'[k].at \in Shaking
      PROVE  opMu' = k
  BY <1>0, <1>1, <1>2 DEF ShakingStep, RtaHeld
<1>3. ASSUME NEW k \in Goroutines, NeedsWriter(go'[k])
      PROVE  writer' = k
  <2>1. CASE k = g
    BY <1>0, <1>3, <2>1 DEF WriterStep, RtaHeld
  <2>2. CASE k # g
    <3>1. NeedsWriter(go[k]) /\ writer = k
      BY <1>1, <1>3, <2>2 DEF RtaHeld
    <3>2. o.at # "restoring"
      BY <2>2, <3>1 DEF RtaHeld, NeedsWriter
    <3> QED BY <1>0, <2>2, <3>1, <3>2 DEF WriterStep, Freed
  <2> QED BY <2>1, <2>2
<1>4. ASSUME NEW h \in Handles, Restorer(h) \in Goroutines,
             go'[Restorer(h)].at # "idle"
      PROVE  \E k \in Goroutines : go'[k].at = "restoring"
  <2>1. CASE HandleSubscribe(g)
    BY <2>1, HandlerEffects DEF Restores
  <2>2. CASE ~HandleSubscribe(g)
    <3>1. go[Restorer(h)].at # "idle"
      BY <1>0, <1>1, <1>4, <2>2
    <3>2. PICK k \in Goroutines : go[k].at = "restoring"
      BY <1>4, <3>1 DEF RtaHeld
    <3>3. go'[k].at = "restoring"
      BY <1>0, <1>1, <2>2, <3>1, <3>2 DEF WriterStep
    <3> QED BY <3>3
  <2> QED BY <2>1, <2>2
<1> QED BY <1>2, <1>3, <1>4 DEF RtaHeld

\* What is started holds no mutex.
LEMMA StartHeld ==
    ASSUME TypeOK, OperationsOK, HandlesOK, TableOK, SyncHeld, CloseHeld, RtaHeld,
           HandleError \/ Start \/ Rest
    PROVE  SyncHeld' /\ CloseHeld' /\ RtaHeld'
<1>1. /\ UNCHANGED <<closeMu, syncMu, writer, opMu>>
      /\ \A k \in Goroutines : go'[k] = go[k] \/ Fresh(k)
  BY StartMoves
<1>2. \A k \in Goroutines :
        NeedsSync(go'[k]) \/ NeedsClose(go'[k]) \/ NeedsWriter(go'[k])
           \/ go'[k].at \in Shaking => go'[k] = go[k]
  BY <1>1
     DEF Fresh, NeedsSync, NeedsClose, NeedsWriter, Leaving, Getting, Shaking
<1>3. SyncHeld' /\ CloseHeld'
  BY <1>1, <1>2 DEF SyncHeld, CloseHeld
<1>4. \A k \in Goroutines : go[k].at = "restoring" => go'[k].at = "restoring"
  BY <1>1 DEF Fresh, Shaking
<1>5. \A h \in Handles : Restorer(h) \in Goroutines => go'[Restorer(h)] = go[Restorer(h)]
  BY <1>1 DEF Fresh
<1>6. RtaHeld'
  BY <1>1, <1>2, <1>4, <1>5 DEF RtaHeld
<1> QED BY <1>3, <1>6
-----------------------------------------------------------------------------
(* What has happened to a Session.                                         *)

\* Whoever is in the middle of leaving a Session is not overtaken, and who
\* creates one asks the directory once.
LEMMA ProgressHistory ==
    ASSUME TypeOK, OperationsOK, HandlesOK, CreatorsOK, CloseHeld, HistoryOK,
           NEW g \in Goroutines, Progress(g), Grows
    PROVE  HistoryOK'
<1> DEFINE o == go[g]
           n == go'[g]
<1>0. /\ Onward(g) /\ OwnOnly(g) /\ ClosingStep(g) /\ CloseStep(g)
      /\ o.op # "none" => o.h \in Handles
  BY ProgressOnward, OwnStep, LockSteps, Busy DEF LockStep
<1>1. \A k \in Goroutines : k # g /\ (Entering(go'[k]) \/ go'[k].req = "leave") =>
          go'[k] = go[k]
  BY OthersStay DEF Started, Entering, Unbound
<1>2. \A h \in Handles : left'[h] = 0 \/ (left'[h] = 1 /\ closed'[h])
  <2>1. CASE left' = left
    BY <2>1 DEF HistoryOK, Grows
  <2>2. CASE CloseFinishes(g)
    <3>1. o.req = "leave" /\ o.at \in Leaving /\ o.op # "none"
      BY <2>2
         DEF CloseFinishes, OperationsOK, OperationOK, Legal, Subscribing,
             Shaking, Updating, Leaving, Getting
    <3>2. left[o.h] = 0
      BY <1>0, <3>1 DEF HistoryOK
    <3>3. left' = [left EXCEPT ![o.h] = @ + 1] /\ closed' = [closed EXCEPT ![o.h] = TRUE]
      BY <2>2 DEF CloseFinishes, Release
    <3> QED BY <1>0, <3>1, <3>2, <3>3 DEF HistoryOK, TypeOK
  <2>3. left' = left \/ CloseFinishes(g)
    <3> USE DEF history
    <3>1. Deliver(g) => left' = left
      BY DEF Deliver, DeliverUpdate, DeliverPut, DeliverGet
    <3>2. Receive(g) => left' = left
      BY DEF Receive, ReceiveOk, ReceiveSame, ReceiveDeleted, ReceiveMissing,
             JoinRetries, Fails
    <3>3. Proceed(g) => left' = left \/ CloseFinishes(g)
      BY DEF Proceed, UpdateLocks, UpdateFindsClosed, MarkDeleted, SyncLocks,
             SyncSends, CloseReturns, CloseLocks, ForceClose, SubscribeLocks,
             SubscriptionIsActive, Bind, ActivityFails, ReconcileLocks,
             AlreadyCurrent, Connect, HandshakeStarts, HandshakeSucceeds,
             HandshakeFails, HandleSubscribe, HandleSubscribeReturns, ReadLocks,
             CallbackReturns
    <3> QED BY <3>1, <3>2, <3>3 DEF Progress
  <2> QED BY <2>1, <2>2, <2>3
\* A request that has created a Session is the last one.
<1>3. \/ joined' = joined
      \/ /\ joined' = [joined EXCEPT ![o.h] = @ + 1]
         /\ Unbound(o) /\ Entering(o) /\ o.op # "none"
  <2> USE DEF history
  <2>1. DeliverPut(g) =>
          \/ joined' = joined
          \/ /\ joined' = [joined EXCEPT ![o.h] = @ + 1]
             /\ o.at = "sent" /\ o.req = "put"
    BY DEF DeliverPut
  <2>2. o.at = "sent" /\ o.req = "put" => Unbound(o) /\ Entering(o) /\ o.op # "none"
    BY DEF OperationsOK, OperationOK, Legal, Subscribing, Shaking, Updating,
           Leaving, Getting, Unbound, Entering
  <2>3. DeliverUpdate(g) \/ DeliverGet(g) \/ Receive(g) => joined' = joined
    BY DEF DeliverUpdate, DeliverGet, Receive, ReceiveOk, ReceiveSame,
           ReceiveDeleted, ReceiveMissing, JoinRetries, Fails
  <2>4. Proceed(g) => joined' = joined
    BY DEF Proceed, UpdateLocks, UpdateFindsClosed, MarkDeleted, SyncLocks,
           SyncSends, CloseReturns, CloseLocks, CloseFinishes, ForceClose,
           SubscribeLocks, SubscriptionIsActive, Bind, ActivityFails,
           ReconcileLocks, AlreadyCurrent, Connect, HandshakeStarts,
           HandshakeSucceeds, HandshakeFails, HandleSubscribe,
           HandleSubscribeReturns, ReadLocks, CallbackReturns
  <2> QED BY <2>1, <2>2, <2>3, <2>4 DEF Progress, Deliver
<1>4. \A h \in Handles : joined'[h] \in {0, 1}
  BY <1>0, <1>3 DEF HistoryOK, TypeOK
<1>5. ASSUME NEW k \in Goroutines, Entering(go'[k])
      PROVE  joined'[go'[k].h] = 0
  <2>1. CASE k = g
    BY <1>0, <1>5, <2>1 DEF Onward, HistoryOK, Entering
  <2>2. CASE k # g
    <3>1. go'[k] = go[k] /\ Unbound(go[k]) /\ joined[go[k].h] = 0
      BY <1>1, <1>5, <2>2 DEF HistoryOK, Entering
    <3>2. o.h # go[k].h
      BY <2>2, <3>1 DEF CreatorsOK
    <3>3. go[k].h \in Handles
      BY <3>1 DEF Unbound, OperationsOK, OperationOK
    <3> QED BY <1>3, <3>1, <3>2, <3>3 DEF TypeOK
  <2> QED BY <2>1, <2>2
<1>6. ASSUME NEW k \in Goroutines, go'[k].req = "leave", go'[k].at \in Leaving
      PROVE  ~closed'[go'[k].h]
  <2>1. CASE k = g
    <3>1. n.h = o.h
      BY <1>0, <1>6, <2>1 DEF CloseStep, NeedsClose
    <3> QED BY <1>0, <1>6, <2>1, <3>1 DEF ClosingStep, HistoryOK
  <2>2. CASE k # g
    <3>1. go'[k] = go[k] /\ NeedsClose(go[k]) /\ ~closed[go[k].h]
      BY <1>1, <1>6, <2>2 DEF HistoryOK, NeedsClose
    <3>2. closeMu[go[k].h] = k /\ go[k].op # "none"
      BY <3>1, Something DEF CloseHeld, NeedsClose, Leaving, Getting, Shaking
    <3>3. go[k].h \in Handles
      BY <3>2, Busy
    <3>4. o.h = go[k].h => closed' = closed
      BY <1>0, <2>2, <3>2, MpsdAssumption DEF ClosingStep, CloseHeld
    <3> QED BY <1>0, <3>1, <3>3, <3>4 DEF OwnOnly, Untouched
  <2> QED BY <2>1, <2>2
<1> QED BY <1>2, <1>4, <1>5, <1>6 DEF HistoryOK

\* Nothing that is started enters or leaves a document yet.
LEMMA StartHistory ==
    ASSUME TypeOK, OperationsOK, HandlesOK, TableOK, HistoryOK,
           HandleError \/ Start \/ Rest
    PROVE  HistoryOK'
<1>1. /\ UNCHANGED <<closed, left, joined>>
      /\ \A k \in Goroutines : go'[k] = go[k] \/ Fresh(k)
  BY StartMoves
<1>2. \A k \in Goroutines : go'[k].req = "leave" => go'[k] = go[k]
  BY <1>1 DEF Fresh
<1>3. ASSUME NEW k \in Goroutines, Entering(go'[k]) PROVE joined'[go'[k].h] = 0
  <2>1. CASE go'[k] = go[k]
    BY <1>1, <1>3, <2>1 DEF HistoryOK
  <2>2. CASE Fresh(k)
    BY <1>1, <1>3, <2>2 DEF Fresh, Entering, Unbound, HandlesOK
  <2> QED BY <1>1, <2>1, <2>2
<1> QED BY <1>1, <1>2, <1>3 DEF HistoryOK
-----------------------------------------------------------------------------
(* The caches and the versions.                                            *)

\* An answer is in its goroutine, with what the directory had at the time.
\* Where it comes from:
AnswerStep(g) ==
    LET o == go[g]
        n == go'[g]
        d == server[ref[o.h]]
    IN  /\ n.at = "answered" => o.at = "sent" /\ n.h = o.h /\ n.op = o.op
                                /\ n.req = o.req /\ o.op # "none" /\ n.seen = o.seen
        /\ n.at = "answered" /\ n.status = "ok" =>
              \/ /\ o.req # "get" /\ n.body = [version |-> d.version + 1,
                                               connection |-> Written(o)]
                 /\ Rewritten(ref[o.h], d.version + 1, Written(o))
              \/ /\ o.req = "get" /\ UNCHANGED server
                 /\ n.body = [version |-> d.version, connection |-> d.connection]
        /\ n.at = "answered" /\ n.status = "same" =>
              o.req = "get" /\ d.version = etag[o.h] /\ UNCHANGED <<server, cache, etag>>

\* Every step of a goroutine that gives an answer gives it so.
LEMMA AnswerSteps ==
    ASSUME TypeOK, OperationsOK, HandlesOK, NEW g \in Goroutines, Progress(g)
    PROVE  AnswerStep(g)
<1> DEFINE o == go[g]
<1>1. CASE Deliver(g)
  <2>1. o.at = "sent" /\ o.op # "none"
    BY <1>1, Something
       DEF Deliver, DeliverUpdate, DeliverPut, DeliverGet, Shaking
  <2>2. CASE DeliverUpdate(g) \/ DeliverPut(g)
    <3>1. o.req # "get"
      BY <2>2 DEF DeliverUpdate, DeliverPut
    <3> QED BY <2>1, <2>2, <3>1, DeliveryEffects
            DEF AnswerStep, Gets, Moved, Carries
  <2>3. CASE DeliverGet(g)
    <3>1. o.req = "get" /\ UNCHANGED <<server, cache, etag>>
      BY <2>3 DEF DeliverGet, sessionVars
    <3> QED BY <2>1, <2>3, <3>1, DeliveryEffects
            DEF AnswerStep, Gets, Moved, Carries
  <2> QED BY <1>1, <2>2, <2>3 DEF Deliver
<1>2. CASE ~Deliver(g)
  <2>1. go'[g].at # "answered"
    BY <1>2, ReceiveEffects, ProceedEffects, HandlerEffects
       DEF Progress, Receive, Proceed, Stays, Asks, Learns, Puts, Begins, Ends,
           GivesUp, Subscribed, Restores, Moved
  <2> QED BY <2>1 DEF AnswerStep
<1> QED BY <1>1, <1>2

\* What happens to a cache: it takes an answer, is cleared or stays as it is.
CacheStep(g) ==
    LET o == go[g]
    IN  \/ UNCHANGED <<cache, etag>>
        \/ /\ o.at = "answered" /\ o.status = "ok" /\ o.op # "none"
           /\ cache' = [cache EXCEPT ![o.h] = o.body]
           /\ etag' \in {etag, [etag EXCEPT ![o.h] = o.body.version]}
           /\ go'[g].at # "answered"
        \/ /\ ClearCache(o.h) /\ closed' = [closed EXCEPT ![o.h] = TRUE]
           /\ o.op # "none"
           /\ NeedsClose(o) \/ closeMu[o.h] = Nobody
           /\ go'[g].at \notin {"answered", "callback"}

\* No step of a goroutine treats a cache otherwise.
LEMMA CacheSteps ==
    ASSUME TypeOK, OperationsOK, HandlesOK, NEW g \in Goroutines, Progress(g)
    PROVE  CacheStep(g)
<1> DEFINE o == go[g]
<1>0. OwnOnly(g)
  BY OwnStep
<1>1. CASE ReceiveOk(g)
  <2>1. go'[g].at # "answered"
    BY <1>1, ReceiveEffects DEF Stays, Ends, Begins, Moved
  <2> QED BY <1>1, <2>1, Something DEF CacheStep, ReceiveOk, Store, Shaking
<1>2. CASE ClearCache(o.h) /\ Release(o.h) /\ ~UNCHANGED <<cache, etag>>
  <2>1. ReceiveOk(g) \/ MarkDeleted(g) \/ ReceiveMissing(g) \/ CloseFinishes(g)
    <3> USE DEF sessionVars
    <3>1. ~Deliver(g)
      BY <1>2 DEF Deliver, DeliverUpdate, DeliverPut, DeliverGet
    <3>2. Receive(g) => ReceiveOk(g) \/ ReceiveMissing(g)
      BY <1>2 DEF Receive, ReceiveSame, ReceiveDeleted, JoinRetries, Fails
    <3>3. Proceed(g) => MarkDeleted(g) \/ CloseFinishes(g)
      BY <1>2
         DEF Proceed, UpdateLocks, UpdateFindsClosed, SyncLocks, SyncSends,
             CloseReturns, CloseLocks, ForceClose, SubscribeLocks,
             SubscriptionIsActive, Bind, ActivityFails, ReconcileLocks,
             AlreadyCurrent, Connect, HandshakeStarts, HandshakeSucceeds,
             HandshakeFails, HandleSubscribe, HandleSubscribeReturns, ReadLocks,
             CallbackReturns
    <3> QED BY <3>1, <3>2, <3>3 DEF Progress
  <2>2. CASE MarkDeleted(g)
    <3>1. go'[g].at \notin {"answered", "callback"}
      BY <2>2, ProceedEffects DEF Ends, GivesUp, Begins, Moved
    <3> QED BY <1>2, <2>2, <3>1, Something
            DEF CacheStep, MarkDeleted, Release, Shaking
  <2>3. CASE ReceiveMissing(g)
    <3>1. go'[g].at \notin {"answered", "callback"}
      BY <2>3, ReceiveEffects DEF Ends, Begins, Moved
    <3> QED BY <1>2, <2>3, <3>1, Something
            DEF CacheStep, ReceiveMissing, Release, Shaking, NeedsClose, Getting
  <2>4. CASE CloseFinishes(g)
    <3>1. go'[g].at \notin {"answered", "callback"}
      BY <2>4, ProceedEffects DEF Ends, Begins, Moved
    <3>2. o.req = "leave" /\ o.at \in Leaving
      BY <2>4
         DEF CloseFinishes, OperationsOK, OperationOK, Legal, Subscribing,
             Shaking, Updating, Leaving, Getting
    <3> QED BY <1>2, <2>4, <3>1, <3>2, Something
            DEF CacheStep, CloseFinishes, Release, Shaking, NeedsClose, Leaving
  <2> QED BY <1>1, <2>1, <2>2, <2>3, <2>4
<1> QED BY <1>0, <1>1, <1>2 DEF OwnOnly, CacheStep

\* Two goroutines have no answers for the same Session, and a Session is not
\* closed by one while another syncs or closes it.
LEMMA Exclusive ==
    ASSUME TypeOK, OperationsOK, HandlesOK, CreatorsOK, SyncHeld, CloseHeld,
           NEW g \in Goroutines, NEW k \in Goroutines, k # g, go[k].h = go[g].h
    PROVE  /\ go[k].at = "answered" => ~(go[g].at = "answered")
           /\ NeedsClose(go[k]) => ~(NeedsClose(go[g]) \/ closeMu[go[g].h] = Nobody)
<1>1. ASSUME NEW j \in Goroutines, go[j].at = "answered"
      PROVE  NeedsSync(go[j]) \/ Unbound(go[j])
  BY <1>1
     DEF OperationsOK, OperationOK, Legal, Subscribing, Shaking, Updating,
         Leaving, Getting, NeedsSync, Unbound
<1>2. ASSUME NEW j \in Goroutines, NEW i \in Goroutines, i # j, go[j].h = go[i].h
      PROVE  ~Unbound(go[j])
  BY <1>2 DEF CreatorsOK
<1> QED BY <1>1, <1>2, MpsdAssumption DEF SyncHeld, CloseHeld

\* The cache of a Session does not get ahead of its document, nor of an answer
\* that is going to be stored.
LEMMA ProgressVersions ==
    ASSUME TypeOK, OperationsOK, HandlesOK, CreatorsOK, SyncHeld, CloseHeld,
           VersionsOK, NEW g \in Goroutines, Progress(g), Grows, TypeOK', OperationsOK'
    PROVE  VersionsOK'
<1> DEFINE o == go[g]
           n == go'[g]
<1>0. /\ AnswerStep(g) /\ CacheStep(g) /\ OwnOnly(g)
      /\ o.op # "none" => o.h \in Handles /\ owned[o.h] # "unused" /\ ref[o.h] \in Refs
  BY AnswerSteps, CacheSteps, OwnStep, Busy
<1>1. \A k \in Goroutines : k # g /\ go'[k].at = "answered" => go'[k] = go[k]
  BY OthersStay DEF Started
<1>a. /\ \A h \in Handles : /\ etag[h] \in Nat /\ cache[h].version \in Nat
                            /\ cache'[h].version \in Nat
      /\ \A r \in Refs : server[r].version \in Nat /\ server'[r].version \in Nat
      /\ \A k \in Goroutines : go[k].body.version \in Nat
  BY DEF TypeOK, Document, Versions, Operation
<1>2. ASSUME NEW h \in Handles, owned'[h] # "unused"
      PROVE  /\ owned[h] # "unused" /\ ref[h] \in Refs
             /\ etag'[h] <= cache'[h].version
             /\ cache'[h].version <= server'[ref'[h]].version
             /\ cache'[h] = cache[h] \/ cache'[h].version = 0
                \/ (o.at = "answered" /\ o.h = h)
  <2>1. owned[h] # "unused" /\ ref[h] \in Refs /\ ref'[h] = ref[h]
    <3>1. owned[h] # "unused"
      BY <1>0, <1>2 DEF OwnOnly, Untouched
    <3> QED BY <3>1 DEF HandlesOK, Grows
  <2>2. etag[h] <= cache[h].version /\ cache[h].version <= server[ref[h]].version
    BY <2>1 DEF VersionsOK
  <2>3. server[ref[h]].version <= server'[ref'[h]].version
    BY <1>a, <2>1 DEF Grows
  <2>4. CASE UNCHANGED <<cache, etag>>
    BY <1>a, <2>1, <2>2, <2>3, <2>4
  <2>5. CASE /\ o.at = "answered" /\ o.status = "ok" /\ o.op # "none"
             /\ cache' = [cache EXCEPT ![o.h] = o.body]
             /\ etag' \in {etag, [etag EXCEPT ![o.h] = o.body.version]}
    <3>1. CASE h = o.h
      <4>1. cache'[h] = o.body /\ etag'[h] \in {etag[h], o.body.version}
        BY <2>5, <3>1 DEF TypeOK
      <4>2. cache[h].version <= o.body.version /\ o.body.version <= server[ref[h]].version
        BY <2>5, <3>1 DEF VersionsOK
      <4> QED BY <1>a, <2>1, <2>2, <2>3, <2>5, <3>1, <4>1, <4>2
    <3>2. CASE h # o.h
      <4>1. cache'[h] = cache[h] /\ etag'[h] = etag[h]
        BY <2>5, <3>2 DEF TypeOK
      <4> QED BY <1>a, <2>1, <2>2, <2>3, <4>1
    <3> QED BY <3>1, <3>2
  <2>6. CASE ClearCache(o.h)
    <3>1. \/ cache'[h] = cache[h] /\ etag'[h] = etag[h]
          \/ cache'[h].version = 0 /\ etag'[h] = 0
      BY <2>6 DEF ClearCache, TypeOK, Empty
    <3> QED BY <1>a, <2>1, <2>2, <2>3, <3>1
  <2> QED BY <1>0, <2>4, <2>5, <2>6 DEF CacheStep
<1>3. ASSUME NEW k \in Goroutines, go'[k].at = "answered", go'[k].status = "ok"
      PROVE  /\ cache'[go'[k].h].version <= go'[k].body.version
             /\ go'[k].body.version <= server'[ref'[go'[k].h]].version
  <2>1. CASE k = g
    <3>1. /\ o.h \in Handles /\ owned[o.h] # "unused" /\ ref[o.h] \in Refs /\ n.h = o.h
          /\ o.at = "sent" /\ ref'[o.h] = ref[o.h]
      BY <1>0, <1>3, <2>1 DEF AnswerStep, Grows
    <3>2. /\ n.body.version = server'[ref[o.h]].version
          /\ server[ref[o.h]].version <= n.body.version
      BY <1>0, <1>3, <1>a, <2>1, <3>1 DEF AnswerStep, Rewritten
    <3>3. cache'[o.h] = cache[o.h] \/ cache'[o.h].version = 0
      BY <1>2, <3>1 DEF Grows
    <3>4. cache[o.h].version <= server[ref[o.h]].version
      BY <3>1 DEF VersionsOK
    <3>5. n.body.version \in Nat
      BY DEF TypeOK, Operation, Document, Versions
    <3> QED BY <1>a, <2>1, <3>1, <3>2, <3>3, <3>4, <3>5
  <2>2. CASE k # g
    <3>1. /\ go'[k] = go[k] /\ go[k].h \in Handles /\ owned[go[k].h] # "unused"
          /\ ref[go[k].h] \in Refs /\ ref'[go[k].h] = ref[go[k].h]
      BY <1>1, <1>3, <2>2, Busy, Something DEF Shaking, Grows
    <3>2. /\ cache[go[k].h].version <= go[k].body.version
          /\ go[k].body.version <= server[ref[go[k].h]].version
      BY <1>3, <3>1 DEF VersionsOK
    <3>3. ~(o.at = "answered" /\ o.h = go[k].h)
      BY <1>3, <2>2, <3>1, Exclusive
    <3>4. cache'[go[k].h] = cache[go[k].h] \/ cache'[go[k].h].version = 0
      BY <1>2, <3>1, <3>3 DEF Grows
    <3>5. server[ref[go[k].h]].version <= server'[ref'[go[k].h]].version
      BY <1>a, <3>1 DEF Grows
    <3> DEFINE h == go[k].h
    <3>6. go[k].body.version \in Nat /\ cache[h].version \in Nat
          /\ server[ref[h]].version \in Nat /\ server'[ref'[h]].version \in Nat
      BY <1>a, <3>1
    <3> QED BY <3>1, <3>2, <3>4, <3>5, <3>6
  <2> QED BY <2>1, <2>2
<1> QED BY <1>2, <1>3 DEF VersionsOK

\* What starts leaves the caches alone, and others only add versions.
LEMMA StartVersions ==
    ASSUME TypeOK, OperationsOK, HandlesOK, VersionsOK,
           TableOK, HandleError \/ Start \/ Rest, Grows, TypeOK'
    PROVE  VersionsOK'
<1>a. /\ \A h \in Handles : etag[h] \in Nat /\ cache[h].version \in Nat
      /\ \A r \in Refs : server[r].version \in Nat /\ server'[r].version \in Nat
      /\ \A k \in Goroutines : go[k].body.version \in Nat
  BY DEF TypeOK, Document, Versions, Operation
<1>1. ASSUME NEW k \in Goroutines, go'[k].at = "answered"
      PROVE  go'[k] = go[k]
  BY <1>1, StartMoves DEF Fresh
\* A Session that is put to use has an empty cache.
<1>2. /\ UNCHANGED <<cache, etag>>
      /\ \A h \in Handles : \/ owned'[h] = owned[h] /\ ref'[h] = ref[h]
                            \/ owned[h] = "unused" /\ ref'[h] \in Refs
  BY StartMoves, StartSessions
<1>3. ASSUME NEW h \in Handles, owned'[h] # "unused"
      PROVE  /\ etag'[h] <= cache'[h].version
             /\ cache'[h].version <= server'[ref'[h]].version
  <2>1. CASE owned'[h] = owned[h] /\ ref'[h] = ref[h]
    <3>1. /\ ref[h] \in Refs /\ etag[h] <= cache[h].version
          /\ cache[h].version <= server[ref[h]].version
      BY <1>3, <2>1 DEF VersionsOK, HandlesOK
    <3>2. server[ref[h]].version <= server'[ref[h]].version
      BY <1>a, <3>1 DEF Grows
    <3> QED BY <1>a, <1>2, <2>1, <3>1, <3>2
  <2>2. CASE owned[h] = "unused" /\ ref'[h] \in Refs
    <3>1. etag'[h] = 0 /\ cache'[h].version = 0
      BY <1>2, <2>2 DEF HandlesOK, Empty
    <3> QED BY <1>a, <2>2, <3>1
  <2> QED BY <1>2, <2>1, <2>2
<1>4. ASSUME NEW k \in Goroutines, go'[k].at = "answered", go'[k].status = "ok"
      PROVE  /\ cache'[go'[k].h].version <= go'[k].body.version
             /\ go'[k].body.version <= server'[ref'[go'[k].h]].version
  <2> DEFINE h == go[k].h
  <2>1. /\ go'[k] = go[k] /\ h \in Handles /\ ref[h] \in Refs /\ ref'[h] = ref[h]
    BY <1>1, <1>4, Busy, Something DEF Shaking, Grows
  <2>2. /\ cache[h].version <= go[k].body.version
        /\ go[k].body.version <= server[ref[h]].version
    BY <1>4, <2>1 DEF VersionsOK
  <2>3. server[ref[h]].version <= server'[ref[h]].version
    BY <1>a, <2>1 DEF Grows
  <2> QED BY <1>a, <1>2, <2>1, <2>2, <2>3
<1> QED BY <1>3, <1>4 DEF VersionsOK

\* What an event has seen is in the cache when its sync ends.
LEMMA ProgressSeen ==
    ASSUME TypeOK, OperationsOK, HandlesOK, CreatorsOK, SyncHeld, CloseHeld,
           VersionsOK, SeenOK, NEW g \in Goroutines, Progress(g), Grows, TypeOK',
           OperationsOK'
    PROVE  SeenOK'
<1> DEFINE o == go[g]
           n == go'[g]
<1>0. /\ AnswerStep(g) /\ CacheStep(g) /\ OwnOnly(g)
      /\ o.op # "none" => o.h \in Handles /\ owned[o.h] # "unused" /\ ref[o.h] \in Refs
  BY AnswerSteps, CacheSteps, OwnStep, Busy
<1>a. /\ \A h \in Handles : /\ etag[h] \in Nat /\ cache[h].version \in Nat
                            /\ cache'[h].version \in Nat
      /\ \A r \in Refs : server[r].version \in Nat /\ server'[r].version \in Nat
      /\ \A k \in Goroutines : /\ go[k].body.version \in Nat /\ go[k].seen \in Nat
                               /\ go'[k].body.version \in Nat /\ go'[k].seen \in Nat
  BY DEF TypeOK, Document, Versions, Operation
<1>1. ASSUME NEW k \in Goroutines, k # g, go'[k].op = "tap"
      PROVE  go'[k] = go[k]
  BY <1>1, OthersStay DEF Started
\* The cache goes back only when it is cleared.
<1>2. ASSUME NEW h \in Handles
      PROVE  \/ cache[h].version <= cache'[h].version
             \/ /\ closed'[h] /\ h = o.h /\ n.at \notin {"answered", "callback"}
                /\ NeedsClose(o) \/ closeMu[o.h] = Nobody
  <2>1. CASE UNCHANGED <<cache, etag>>
    BY <1>a, <2>1
  <2>2. CASE /\ o.at = "answered" /\ o.status = "ok" /\ o.op # "none"
             /\ cache' = [cache EXCEPT ![o.h] = o.body]
    <3>1. cache'[h] = IF h = o.h THEN o.body ELSE cache[h]
      BY <2>2 DEF TypeOK
    <3>2. cache[o.h].version <= o.body.version
      BY <2>2 DEF VersionsOK
    <3> QED BY <1>a, <3>1, <3>2
  <2>3. CASE /\ ClearCache(o.h) /\ closed' = [closed EXCEPT ![o.h] = TRUE]
             /\ NeedsClose(o) \/ closeMu[o.h] = Nobody
             /\ n.at \notin {"answered", "callback"}
    <3>1. h # o.h => cache'[h] = cache[h]
      BY <2>3 DEF ClearCache, TypeOK
    <3>2. h = o.h => closed'[h]
      BY <2>3 DEF TypeOK
    <3> QED BY <1>a, <2>3, <3>1, <3>2
  <2> QED BY <1>0, <2>1, <2>2, <2>3 DEF CacheStep
<1>3. ASSUME NEW k \in Goroutines, go'[k].op = "tap", k # g
      PROVE  LET q == go'[k]
             IN  /\ q.seen <= server'[ref'[q.h]].version
                 /\ q.at = "answered" /\ q.status = "ok" => q.seen <= q.body.version
                 /\ q.at = "answered" /\ q.status = "same" =>
                       q.seen <= cache'[q.h].version
                 /\ q.at = "callback" /\ ~closed'[q.h] => q.seen <= cache'[q.h].version
  <2> DEFINE q == go[k]
  <2>1. /\ go'[k] = q /\ q.op = "tap" /\ q.h \in Handles /\ ref[q.h] \in Refs
        /\ ref'[q.h] = ref[q.h] /\ q.seen \in Nat
    BY <1>1, <1>3, <1>a, Busy DEF Grows
  <2>2. /\ q.seen <= server[ref[q.h]].version
        /\ q.at = "answered" /\ q.status = "ok" => q.seen <= q.body.version
        /\ q.at = "answered" /\ q.status = "same" => q.seen <= cache[q.h].version
        /\ q.at = "callback" /\ ~closed[q.h] => q.seen <= cache[q.h].version
    BY <2>1 DEF SeenOK
  <2>3. server[ref[q.h]].version <= server'[ref[q.h]].version
    BY <1>a, <2>1 DEF Grows
  <2>4. q.seen <= server'[ref'[q.h]].version
    BY <1>a, <2>1, <2>2, <2>3
  <2>5. CASE q.at = "answered" /\ q.status = "same"
    <3>1. NeedsClose(q)
      BY <2>1, <2>5 DEF OperationsOK, OperationOK, Legal, NeedsClose, Getting
    <3>2. q.h = o.h => ~(NeedsClose(o) \/ closeMu[o.h] = Nobody)
      BY <1>3, <3>1, Exclusive
    <3>3. cache[q.h].version <= cache'[q.h].version
      BY <1>2, <2>1, <3>2
    <3>4. q.seen <= cache'[q.h].version
      BY <1>a, <2>1, <2>2, <2>5, <3>3
    <3> QED BY <2>1, <2>4, <2>5, <3>4
  <2>6. CASE q.at = "callback"
    <3>1. ~closed'[q.h] => ~closed[q.h] /\ cache[q.h].version <= cache'[q.h].version
      BY <1>2, <2>1 DEF Grows
    <3>2. ~closed'[q.h] => q.seen <= cache'[q.h].version
      BY <1>a, <2>1, <2>2, <2>6, <3>1
    <3> QED BY <2>1, <2>4, <2>6, <3>2
  <2> QED BY <2>1, <2>2, <2>4, <2>5, <2>6
\* The sync itself.
<1>4. ASSUME n.op = "tap"
      PROVE  /\ o.op = "tap" /\ n.h = o.h /\ n.seen = o.seen
             /\ n.at = "callback" => \/ o.at = "answered" /\ o.status = "ok" /\ ReceiveOk(g)
                                     \/ o.at = "answered" /\ o.status = "same"
                                        /\ UNCHANGED cache
  <2>1. \/ \E p, r : Moved(g, p, o.op, o.h, r) /\ n.seen = o.seen
        \/ \E p, q, r : q # "tap" /\ Moved(g, p, q, o.h, r)
        \/ Ends(g) \/ Restores(g)
    BY DeliveryEffects, ReceiveEffects, ProceedEffects, HandlerEffects
       DEF Progress, Deliver, Receive, Proceed, Stays, Asks, Learns, Puts, Gets,
           Begins, GivesUp, Subscribed, Carries
  <2>2. o.op = "tap" /\ n.h = o.h /\ n.seen = o.seen
    BY <1>4, <2>1 DEF Ends, Begins, Moved, Restores, Carries
  <2>3. ReceiveOk(g) => o.at = "answered" /\ o.status = "ok"
    BY DEF ReceiveOk
  <2>4. ReceiveSame(g) => o.at = "answered" /\ o.status = "same" /\ UNCHANGED cache
    BY DEF ReceiveSame, sessionVars
  <2>5. n.at = "callback" => ReceiveOk(g) \/ ReceiveSame(g)
    BY DeliveryEffects, ReceiveEffects, ProceedEffects, HandlerEffects
       DEF Progress, Deliver, Receive, Proceed, Stays, Asks, Learns, Puts, Gets,
           Begins, Ends, GivesUp, Subscribed, Restores, Moved
  <2> QED BY <2>2, <2>3, <2>4, <2>5
<1>5. ASSUME n.op = "tap"
      PROVE  /\ n.seen <= server'[ref'[n.h]].version
             /\ n.at = "answered" /\ n.status = "ok" => n.seen <= n.body.version
             /\ n.at = "answered" /\ n.status = "same" =>
                   n.seen <= cache'[n.h].version
             /\ n.at = "callback" /\ ~closed'[n.h] => n.seen <= cache'[n.h].version
  <2> DEFINE h == o.h
  <2>1. /\ o.op = "tap" /\ n.h = h /\ n.seen = o.seen /\ h \in Handles
        /\ owned[h] # "unused" /\ ref[h] \in Refs /\ ref'[h] = ref[h]
        /\ o.seen \in Nat /\ o.seen <= server[ref[h]].version
    BY <1>0, <1>4, <1>5, <1>a DEF Grows, SeenOK
  <2>2. server[ref[h]].version <= server'[ref[h]].version
    BY <1>a, <2>1 DEF Grows
  <2>3. o.seen <= server'[ref[h]].version
    BY <1>a, <2>1, <2>2
  <2>4. CASE n.at = "answered"
    <3>1. n.status = "ok" => n.body.version >= server[ref[h]].version
      BY <1>0, <1>a, <2>1, <2>4 DEF AnswerStep
    <3>2. n.status = "same" => server[ref[h]].version = etag[h] /\ cache' = cache
      BY <1>0, <2>1, <2>4 DEF AnswerStep
    <3>3. etag[h] <= cache[h].version
      BY <2>1 DEF VersionsOK
    <3>4. n.status = "ok" => n.seen <= n.body.version
      BY <1>a, <2>1, <3>1
    <3>5. n.status = "same" => n.seen <= cache'[n.h].version
      BY <1>a, <2>1, <3>2, <3>3
    <3> QED BY <2>1, <2>3, <2>4, <3>4, <3>5
  <2>5. CASE n.at = "callback"
    <3>1. CASE o.at = "answered" /\ o.status = "ok" /\ ReceiveOk(g)
      <4>1. cache'[h] = o.body
        BY <2>1, <3>1 DEF ReceiveOk, Store, TypeOK
      <4>2. o.seen <= o.body.version
        BY <2>1, <3>1 DEF SeenOK
      <4> QED BY <2>1, <2>3, <2>5, <4>1, <4>2
    <3>2. CASE o.at = "answered" /\ o.status = "same" /\ UNCHANGED cache
      <4>1. o.seen <= cache[h].version
        BY <2>1, <3>2 DEF SeenOK
      <4> QED BY <2>1, <2>3, <2>5, <3>2, <4>1
    <3> QED BY <1>4, <1>5, <2>5, <3>1, <3>2
  <2> QED BY <2>1, <2>3, <2>4, <2>5
<1> QED BY <1>3, <1>5 DEF SeenOK

\* An event that comes in has seen what the document is.
LEMMA StartSeen ==
    ASSUME TypeOK, OperationsOK, HandlesOK, TableOK, SeenOK,
           HandleError \/ Start \/ Rest, Grows, TypeOK'
    PROVE  SeenOK'
<1>a. /\ \A r \in Refs : server[r].version \in Nat /\ server'[r].version \in Nat
      /\ \A k \in Goroutines : go[k].seen \in Nat
  BY DEF TypeOK, Document, Versions, Operation
<1>1. UNCHANGED <<cache, closed>> /\ \A k \in Goroutines : go'[k] = go[k] \/ Fresh(k)
  BY StartMoves
<1>2. ASSUME NEW k \in Goroutines, go'[k].op = "tap"
      PROVE  LET q == go'[k]
             IN  /\ q.seen <= server'[ref'[q.h]].version
                 /\ q.at = "answered" /\ q.status = "ok" => q.seen <= q.body.version
                 /\ q.at = "answered" /\ q.status = "same" =>
                       q.seen <= cache'[q.h].version
                 /\ q.at = "callback" /\ ~closed'[q.h] => q.seen <= cache'[q.h].version
  <2>1. CASE go'[k] = go[k]
    <3> DEFINE q == go[k]
    <3>1. /\ q.op = "tap" /\ q.h \in Handles /\ ref[q.h] \in Refs
          /\ ref'[q.h] = ref[q.h] /\ q.seen \in Nat
      BY <1>2, <1>a, <2>1, Busy DEF Grows
    <3>2. server[ref[q.h]].version <= server'[ref[q.h]].version
      BY <1>a, <3>1 DEF Grows
    <3>3. q.seen <= server[ref[q.h]].version
      BY <3>1 DEF SeenOK
    <3>4. q.seen <= server'[ref'[q.h]].version
      BY <1>a, <3>1, <3>2, <3>3
    <3> QED BY <1>1, <2>1, <3>1, <3>4 DEF SeenOK
  <2>2. CASE Fresh(k)
    <3>1. /\ go'[k].seen = server[ref[go'[k].h]].version /\ go'[k].at = "read"
          /\ UNCHANGED <<server, ref>> /\ go'[k].h \in Handles
          /\ ref[go'[k].h] \in Refs
      BY <1>2, <2>2 DEF Fresh, Bound, TableOK, TypeOK
    <3> QED BY <1>a, <3>1
  <2> QED BY <1>1, <1>2, <2>1, <2>2
<1> QED BY <1>2 DEF SeenOK
-----------------------------------------------------------------------------
(* The connection ids.                                                     *)

\* What a goroutine does to the directory.
ServerStep(g) ==
    LET o == go[g]
        d == server[ref[o.h]]
    IN  \/ UNCHANGED server
        \/ /\ o.at = "sent" /\ o.op # "none" /\ o.req \in {"put", "custom", "connect", "leave"}
           /\ go'[g].at = "answered"
           /\ \/ Rewritten(ref[o.h], d.version + 1, Written(o))
              \/ Rewritten(ref[o.h], d.version, NoConnection)

\* No step of a goroutine treats the directory otherwise.
LEMMA ServerSteps ==
    ASSUME TypeOK, OperationsOK, HandlesOK, NEW g \in Goroutines, Progress(g)
    PROVE  ServerStep(g)
<1> DEFINE o == go[g]
<1>1. CASE DeliverUpdate(g) \/ DeliverPut(g)
  <2>1. o.at = "sent" /\ o.req \in {"put", "custom", "connect", "leave"}
    BY <1>1 DEF DeliverUpdate, DeliverPut
  <2> QED BY <1>1, <2>1, DeliveryEffects, Something
          DEF ServerStep, Shaking, Gets, Moved
<1>2. CASE ~(DeliverUpdate(g) \/ DeliverPut(g))
  <2>1. DeliverGet(g) \/ Receive(g) => UNCHANGED server
    BY DEF DeliverGet, Receive, ReceiveOk, ReceiveSame, ReceiveDeleted,
           ReceiveMissing, JoinRetries, Fails
  <2>2. Proceed(g) => UNCHANGED server
    BY DEF Proceed, UpdateLocks, UpdateFindsClosed, MarkDeleted, SyncLocks,
           SyncSends, CloseReturns, CloseLocks, CloseFinishes, ForceClose,
           SubscribeLocks, SubscriptionIsActive, Bind, ActivityFails,
           ReconcileLocks, AlreadyCurrent, Connect, HandshakeStarts,
           HandshakeSucceeds, HandshakeFails, HandleSubscribe,
           HandleSubscribeReturns, ReadLocks, CallbackReturns
  <2> QED BY <1>2, <2>1, <2>2 DEF ServerStep, Progress, Deliver
<1> QED BY <1>1, <1>2

\* What it knows of connection ids.  The last id that RTA has handed out
\* becomes current with HandleSubscribe.
Connecting(o) == o.req = "connect" \/ o.at = "connect"

ConnectionStep(g) ==
    LET o == go[g]
        n == go'[g]
    IN  /\ \/ UNCHANGED connections
           \/ o.at = "handshake" /\ n.at = "handle" /\ connections' = connections + 1
        /\ \/ UNCHANGED data
           \/ HandleSubscribe(g)
        /\ o.at = "handle" => HandleSubscribe(g)
        /\ n.at = "handle" => /\ o.at = "handshake" /\ n.connection = connections'
                              /\ connections' = connections + 1
        /\ n.at # "handle" => n.connection \in {o.connection, NoConnection, data'}
        /\ Connecting(n) => \/ Connecting(o) /\ n.connection = o.connection
                            \/ n.connection = data'

\* Every step of a goroutine treats the connection ids so.
LEMMA ConnectionSteps ==
    ASSUME TypeOK, OperationsOK, HandlesOK, NEW g \in Goroutines, Progress(g)
    PROVE  ConnectionStep(g)
<1> DEFINE o == go[g]
           n == go'[g]
<1>0. Legal(o)
  BY DEF OperationsOK, OperationOK
<1> USE DEF rtaVars
<1>1. CASE HandleSubscribe(g)
  BY <1>0, <1>1, HandlerEffects
     DEF HandleSubscribe, Restores, Carries, ConnectionStep, Connecting, Legal,
         Subscribing, Shaking, Updating, Leaving, Getting
<1>2. CASE HandshakeSucceeds(g)
  <2>1. Learns(g, "handle", connections') /\ o.at = "handshake"
        /\ connections' = connections + 1 /\ data' = data
    BY <1>2, ProceedEffects DEF HandshakeSucceeds
  <2> QED BY <1>0, <2>1
          DEF Learns, Moved, Carries, ConnectionStep, Connecting, Legal,
              Subscribing, Shaking, Updating, Leaving, Getting
<1>3. CASE ~HandleSubscribe(g) /\ ~HandshakeSucceeds(g)
  <2>1. o.at # "handle" /\ UNCHANGED <<data, connections>>
    <3>1. Deliver(g) => o.at # "handle" /\ UNCHANGED <<data, connections>>
      BY DEF Deliver, DeliverUpdate, DeliverPut, DeliverGet
    <3>2. Receive(g) => o.at # "handle" /\ UNCHANGED <<data, connections>>
      BY DEF Receive, ReceiveOk, ReceiveSame, ReceiveDeleted, ReceiveMissing,
             JoinRetries, Fails
    <3>3. Proceed(g) => o.at # "handle" /\ UNCHANGED <<data, connections>>
      BY <1>3
         DEF Proceed, UpdateLocks, UpdateFindsClosed, MarkDeleted, SyncLocks,
             SyncSends, CloseReturns, CloseLocks, CloseFinishes, ForceClose,
             SubscribeLocks, SubscriptionIsActive, Bind, ActivityFails,
             ReconcileLocks, AlreadyCurrent, Connect, HandshakeStarts,
             HandshakeFails, HandleSubscribeReturns, ReadLocks, CallbackReturns
    <3> QED BY <3>1, <3>2, <3>3 DEF Progress
  <2>2. \/ \E p : /\ p \notin {"handle", "connect"} /\ Stays(g, p)
        \/ Asks(g, "syncLocked", "get") \/ Asks(g, "update", "leave")
        \/ o.at = "connect" /\ Asks(g, "update", "connect")
        \/ Learns(g, "connect", data)
        \/ Puts(g, data')
        \/ \E s, b : Gets(g, s, b)
        \/ Ends(g)
        \/ \E q : GivesUp(g, q)
        \/ Moved(g, "sent", o.op, o.h, o.req) /\ n.connection = o.connection
    <3>1. Deliver(g) => \E s, b : Gets(g, s, b)
      BY DeliveryEffects DEF Deliver
    <3>2. Receive(g) => \/ \E p : /\ p \notin {"handle", "connect"} /\ Stays(g, p)
                        \/ Ends(g)
                        \/ \E q : GivesUp(g, q)
                        \/ Moved(g, "sent", o.op, o.h, o.req) /\ n.connection = o.connection
      BY ReceiveEffects DEF Receive, Carries
    <3>3. Connect(g) => o.at = "connect"
      BY DEF Connect
    <3>4. Proceed(g) => \/ \E p : /\ p \notin {"handle", "connect"} /\ Stays(g, p)
                        \/ Asks(g, "syncLocked", "get") \/ Asks(g, "update", "leave")
                        \/ o.at = "connect" /\ Asks(g, "update", "connect")
                        \/ Learns(g, "connect", data)
                        \/ Puts(g, data')
                        \/ Ends(g)
                        \/ \E q : GivesUp(g, q)
      BY <1>3, <3>3, ProceedEffects, ReceiveEffects DEF Proceed, Subscribed
    <3> QED BY <3>1, <3>2, <3>4 DEF Progress
  <2> QED BY <1>3, <2>1, <2>2
          DEF ConnectionStep, Connecting, Stays, Asks, Learns, Puts, Gets, Ends,
              GivesUp, Begins, Moved, Carries
<1> QED BY <1>1, <1>2, <1>3

\* Nobody reconciles a connection when HandleSubscribe takes over.
LEMMA NobodyConnects ==
    ASSUME OperationsOK, RtaHeld, NEW g \in Goroutines, HandleSubscribe(g)
    PROVE  \A k \in Goroutines : /\ ~Connecting(go[k])
                                 /\ go[k].at = "handle" => k = g
<1>1. writer = Nobody /\ go[g].at = "handle"
  BY DEF HandleSubscribe
<1>2. ASSUME NEW k \in Goroutines, Connecting(go[k]) PROVE FALSE
  <2>1. go[k].op \in {"publish", "join", "restore"} /\ go[k].at # "idle"
    BY <1>2
       DEF OperationsOK, OperationOK, Legal, Subscribing, Shaking, Updating,
           Leaving, Getting, Connecting
  <2>2. go[k].op # "restore"
    <3>1. ASSUME go[k].op = "restore" PROVE \E h \in Handles : k = Restorer(h)
      BY <3>1, GoroutineKinds DEF OperationsOK, OperationOK, Runs, Application
    <3>2. \A h \in Handles : k # Restorer(h)
      BY <1>1, <2>1, MpsdAssumption DEF RtaHeld, NeedsWriter
    <3> QED BY <3>1, <3>2
  <2>3. NeedsWriter(go[k])
    BY <1>2, <2>1, <2>2 DEF NeedsWriter, Connecting
  <2> QED BY <1>1, <2>3, MpsdAssumption DEF RtaHeld
<1>3. ASSUME NEW k \in Goroutines, go[k].at = "handle" PROVE k = g
  BY <1>1, <1>3 DEF RtaHeld, Shaking
<1> QED BY <1>2, <1>3

\* The connection ids in use are not ahead of the subscription, and those that
\* are being written are current.
LEMMA ProgressConnections ==
    ASSUME TypeOK, OperationsOK, HandlesOK, RtaHeld, ConnectionsOK,
           NEW g \in Goroutines, Progress(g), TypeOK'
    PROVE  ConnectionsOK'
<1> DEFINE o == go[g]
           n == go'[g]
<1>0. /\ AnswerStep(g) /\ CacheStep(g) /\ ServerStep(g) /\ ConnectionStep(g)
      /\ o.op # "none" => o.h \in Handles /\ ref[o.h] \in Refs
  BY AnswerSteps, CacheSteps, ServerSteps, ConnectionSteps, Busy
<1>a. /\ connections \in Nat /\ data \in Nat /\ connections' \in Nat /\ data' \in Nat
      /\ NoConnection = 0
      /\ \A r \in Refs : server[r].connection \in Nat /\ server'[r].connection \in Nat
      /\ \A h \in Handles : cache[h].connection \in Nat
      /\ \A k \in Goroutines : /\ go[k].connection \in Nat /\ go[k].body.connection \in Nat
                               /\ go'[k].connection \in Nat
                               /\ go'[k].body.connection \in Nat
  BY DEF TypeOK, Document, Connections, NoConnection, Operation
<1>b. /\ data <= connections
      /\ \A r \in Refs : server[r].connection <= data
      /\ \A h \in Handles : cache[h].connection <= data
      /\ o.at = "handle" => o.connection = connections /\ data < connections
      /\ o.at # "handle" => o.connection <= data
      /\ o.at = "answered" /\ o.status = "ok" => o.body.connection <= data
      /\ Connecting(o) => o.connection = data
      /\ o.at = "answered" /\ o.status = "ok" /\ o.req = "connect"
            => o.body.connection = data
  BY DEF ConnectionsOK, Connecting
<1>1. /\ data <= data' /\ data' <= connections'
      /\ HandleSubscribe(g) => n.at = "restoring" /\ o.at = "handle"
                               /\ data' = o.connection /\ connections' = connections
                               /\ UNCHANGED <<server, cache>>
  <2>1. HandleSubscribe(g) => n.at = "restoring" /\ o.at = "handle"
                              /\ data' = o.connection /\ connections' = connections
                              /\ UNCHANGED <<server, cache>>
    BY HandlerEffects DEF HandleSubscribe, Restores, sessionVars
  <2> QED BY <1>0, <1>a, <1>b, <2>1 DEF ConnectionStep
\* No goroutine is about to write the former id.
<1>2. ASSUME NEW k \in Goroutines, k # g, go'[k] = go[k], data' # data
      PROVE  ~Connecting(go[k]) /\ go[k].at # "handle"
  BY <1>0, <1>2, NobodyConnects DEF ConnectionStep
<1>3. o.op # "none" /\ o.at = "sent" =>
         Written(o) <= data /\ (Connecting(o) => Written(o) = data)
  BY <1>0, <1>a, <1>b DEF Written, Connecting
<1>4. \A r \in Refs : server'[r].connection <= data'
  BY <1>0, <1>1, <1>3, <1>a, <1>b DEF ServerStep, Rewritten
<1>5. \A h \in Handles : cache'[h].connection <= data'
  <2>1. CASE UNCHANGED cache
    BY <1>1, <1>a, <1>b, <2>1
  <2>2. CASE cache' = [cache EXCEPT ![o.h] = o.body] /\ o.at = "answered" /\ o.status = "ok"
    <3>1. \A h \in Handles : cache'[h] \in {cache[h], o.body}
      BY <2>2 DEF TypeOK
    <3> QED BY <1>1, <1>a, <1>b, <2>2, <3>1
  <2>3. CASE ClearCache(o.h)
    <3>1. \A h \in Handles : cache'[h] \in {cache[h], Empty} /\ Empty.connection = 0
      BY <2>3 DEF ClearCache, TypeOK, Empty, NoConnection
    <3> QED BY <1>1, <1>a, <1>b, <3>1
  <2> QED BY <1>0, <2>1, <2>2, <2>3 DEF CacheStep
<1>6. ASSUME NEW k \in Goroutines
      PROVE  LET q == go'[k]
             IN  /\ q.at = "handle" => q.connection = connections' /\ data' < connections'
                 /\ q.at # "handle" => q.connection <= data'
                 /\ q.at = "answered" /\ q.status = "ok" => q.body.connection <= data'
                 /\ q.req = "connect" \/ q.at = "connect" => q.connection = data'
                 /\ q.at = "answered" /\ q.status = "ok" /\ q.req = "connect"
                       => q.body.connection = data'
  <2>1. CASE k = g
    <3>1. /\ n.at = "handle" => n.connection = connections' /\ data' < connections'
          /\ n.at # "handle" => n.connection <= data'
          /\ Connecting(n) => n.connection = data'
      <4>1. CASE HandleSubscribe(g)
        <5>1. data' = o.connection /\ n.at = "restoring" /\ ~Connecting(o)
          BY <1>1, <4>1, NobodyConnects
        <5> QED BY <1>0, <1>a, <1>b, <1>1, <5>1 DEF ConnectionStep
      <4>2. CASE ~HandleSubscribe(g)
        <5>1. data' = data /\ o.at # "handle"
          BY <1>0, <4>2 DEF ConnectionStep
        <5> QED BY <1>0, <1>a, <1>b, <1>1, <5>1 DEF ConnectionStep
      <4> QED BY <4>1, <4>2
    <3>2. n.at = "answered" =>
             /\ o.at = "sent" /\ o.op # "none" /\ n.req = o.req /\ data' = data
             /\ n.status = "ok" => \/ o.req # "get" /\ n.body.connection = Written(o)
                                   \/ o.req = "get" /\ n.body.connection <= data
      BY <1>0, <1>1, <1>b DEF AnswerStep, ConnectionStep
    <3>3. n.at = "answered" /\ n.status = "ok" =>
             /\ n.body.connection <= data'
             /\ n.req = "connect" => n.body.connection = data'
      BY <1>3, <1>a, <3>2 DEF Connecting
    <3> QED BY <2>1, <3>1, <3>3 DEF Connecting
  <2>2. CASE k # g /\ go'[k] = go[k]
    <3> DEFINE q == go[k]
    <3>1. /\ q.at = "handle" => q.connection = connections /\ data < connections
          /\ q.at # "handle" => q.connection <= data
          /\ q.at = "answered" /\ q.status = "ok" => q.body.connection <= data
          /\ Connecting(q) => q.connection = data
          /\ q.at = "answered" /\ q.status = "ok" /\ q.req = "connect"
                => q.body.connection = data
      BY DEF ConnectionsOK, Connecting
    <3>2. q.at = "handle" => connections' = connections /\ data' = data
      BY <1>0, <1>2, <2>2 DEF ConnectionStep, RtaHeld, Shaking
    <3>3. Connecting(q) => data' = data
      BY <1>2, <2>2
    <3> QED BY <1>1, <1>a, <2>2, <3>1, <3>2, <3>3 DEF Connecting
  <2>3. CASE k # g /\ \E h \in Bound : Started(k, "connect", "restore", h, o.connection)
               /\ HandleSubscribe(g)
    BY <1>1, <1>a, <2>3 DEF Started
  <2> QED BY <2>1, <2>2, <2>3, OthersStay
<1> QED BY <1>1, <1>4, <1>5, <1>6 DEF ConnectionsOK

\* Nothing that is started uses one.
LEMMA StartConnections ==
    ASSUME TypeOK, OperationsOK, HandlesOK, TableOK, ConnectionsOK,
           HandleError \/ Start \/ Rest
    PROVE  ConnectionsOK'
<1>1. /\ UNCHANGED <<cache, data, connections>>
      /\ \A k \in Goroutines : go'[k] = go[k] \/ Fresh(k)
  BY StartMoves
<1>a. /\ data \in Nat /\ NoConnection = 0
      /\ \A k \in Goroutines : go[k].connection \in Nat
  BY DEF TypeOK, Connections, NoConnection, Operation
<1>2. \A r \in Refs : server'[r].connection \in {server[r].connection, NoConnection}
  BY StartSessions
<1>3. \A r \in Refs : server'[r].connection <= data'
  BY <1>1, <1>2, <1>a DEF ConnectionsOK
<1>4. ASSUME NEW k \in Goroutines, Fresh(k)
      PROVE  LET q == go'[k]
             IN  /\ q.at \notin {"handle", "answered"} /\ ~Connecting(q)
                 /\ q.connection <= data'
  BY <1>1, <1>4, <1>a DEF Fresh, Connecting, ConnectionsOK, Shaking
<1> QED BY <1>1, <1>3, <1>4 DEF ConnectionsOK, Connecting
-----------------------------------------------------------------------------
(* The connection that a document advertises.                              *)

\* What a goroutine has made sure of: the connection id it works with is in
\* the cache or in the answer.
Current(o) ==
    \/ o.at = "connect" /\ cache[o.h].connection = o.connection
    \/ o.at = "answered" /\ o.status = "ok" /\ o.req = "connect"

\* Publish and Join return a Session when its connection is current; and
\* whoever restores one goes on until it is current or closed.
Settles(g) ==
    LET o == go[g]
    IN  /\ go'[g].at = "idle" /\ o.op \in {"restore", "discard"} =>
              closed'[o.h] \/ Current(o)
        /\ owned' = owned \/ owned' = [owned EXCEPT ![o.h] = "failed"]
              \/ (Current(o) /\ owned' = [owned EXCEPT ![o.h] = "returned"])

\* Every step of a goroutine ends what it does so.
LEMMA SettledSteps ==
    ASSUME TypeOK, OperationsOK, HandlesOK, NEW g \in Goroutines, Progress(g)
    PROVE  Settles(g)
<1> DEFINE o == go[g]
           n == go'[g]
<1>0. /\ Legal(o) /\ (o.at = "answered" => o.status \in Answers(o.req))
      /\ Runs(g, o) /\ (o.op # "none" => o.h \in Handles)
  BY DEF OperationsOK, OperationOK
<1> USE DEF Legal, Subscribing, Shaking, Updating, Leaving, Getting, Answers, Gives,
            Settles, Current, sessionVars
<1>1. ASSUME ReceiveOk(g) PROVE Settles(g)
  <2>1. \/ o.req = "put" /\ Stays(g, "activity")
        \/ o.req = "leave" /\ Stays(g, "closeLocked")
        \/ o.req = "get" /\ o.op = "tap" /\ Stays(g, "callback")
        \/ o.req # "put" /\ o.req # "leave" /\ Ends(g)
    BY <1>1, ReceiveEffects
  <2> QED BY <1>0, <1>1, <2>1 DEF ReceiveOk, Stays, Ends, Begins, Moved
<1>2. ASSUME ReceiveSame(g) \/ ReceiveDeleted(g) \/ JoinRetries(g)
      PROVE  Settles(g)
  <2>1. owned' = owned
    BY <1>2 DEF ReceiveSame, ReceiveDeleted, JoinRetries
  <2>2. ReceiveSame(g) => o.req = "get"
    BY <1>0 DEF ReceiveSame
  <2>3. ~ReceiveSame(g) => n.at # "idle"
    BY <1>2, ReceiveEffects DEF Stays, Moved
  <2> QED BY <1>0, <2>1, <2>2, <2>3
<1>3. ASSUME ReceiveMissing(g) PROVE Settles(g)
  <2>1. owned' = owned /\ o.req = "get"
    BY <1>3 DEF ReceiveMissing
  <2> QED BY <1>0, <2>1
<1>4. ASSUME Fails(g) PROVE Settles(g)
  <2>1. o.at \in {"sent", "answered"}
        /\ (owned' = owned \/ owned' = [owned EXCEPT ![o.h] = "failed"])
    BY <1>4 DEF Fails, ReturnsError
  <2>2. o.req = "connect" => n.at # "idle"
    BY <1>4, ReceiveEffects DEF GivesUp, Begins, Stays, Moved
  <2>3. o.req = "leave" /\ o.op = "discard" => n.at # "idle"
    <3>1. o.req = "leave" /\ o.op = "discard" => Goto(g, "force")
      BY <1>4 DEF Fails, ReturnsError, Goto
    <3>2. Goto(g, "force") => n.at = "force"
      BY DEF Goto, TypeOK, Operation
    <3> QED BY <3>1, <3>2
  <2> QED BY <1>0, <2>1, <2>2, <2>3
<1>5. ASSUME UpdateFindsClosed(g) PROVE Settles(g)
  BY <1>5 DEF UpdateFindsClosed, ReturnsError
<1>6. ASSUME MarkDeleted(g) PROVE Settles(g)
  <2>1. o.req = "custom" \/ n.at # "idle"
    BY <1>6, ProceedEffects DEF GivesUp, Begins, Moved
  <2>2. owned' = owned \/ owned' = [owned EXCEPT ![o.h] = "failed"]
    BY <1>6 DEF MarkDeleted
  <2> QED BY <1>0, <2>1, <2>2
<1>7. ASSUME CloseReturns(g) PROVE Settles(g)
  BY <1>7 DEF CloseReturns
<1>8. ASSUME CloseFinishes(g) \/ ForceClose(g) PROVE Settles(g)
  <2>1. closed' = [closed EXCEPT ![o.h] = TRUE] /\ owned' = owned /\ o.op # "none"
    BY <1>0, <1>8 DEF CloseFinishes, ForceClose, Release
  <2> QED BY <1>0, <2>1 DEF TypeOK
<1>9. ASSUME AlreadyCurrent(g) PROVE Settles(g)
  BY <1>9 DEF AlreadyCurrent
<1>10. ASSUME ActivityFails(g) PROVE Settles(g)
  <2>1. n.at # "idle"
    BY <1>10, ProceedEffects DEF GivesUp, Begins, Moved
  <2> QED BY <1>10, <2>1 DEF ActivityFails
<1>11. ASSUME HandshakeFails(g) PROVE Settles(g)
  <2>1. o.at = "handshake"
        /\ (owned' = owned \/ owned' = [owned EXCEPT ![o.h] = "failed"])
    BY <1>11 DEF HandshakeFails, SubscribeFails
  <2> QED BY <1>0, <2>1
<1>12. ASSUME CallbackReturns(g) \/ HandleSubscribeReturns(g) PROVE Settles(g)
  <2>1. o.at \in {"callback", "restoring"} /\ owned' = owned
    BY <1>12 DEF CallbackReturns, HandleSubscribeReturns
  <2> QED BY <1>0, <2>1
<1>13. ASSUME owned' = owned, n.at # "idle" PROVE Settles(g)
  BY <1>13
<1>14. ASSUME Deliver(g) PROVE Settles(g)
  <2>1. owned' = owned
    BY <1>14 DEF Deliver, DeliverUpdate, DeliverPut, DeliverGet
  <2> QED BY <1>13, <1>14, <2>1, DeliveryEffects DEF Deliver, Gets, Moved
<1>15. ASSUME \/ UpdateLocks(g) \/ SyncLocks(g) \/ SyncSends(g) \/ CloseLocks(g)
              \/ SubscribeLocks(g) \/ SubscriptionIsActive(g) \/ Bind(g)
              \/ ReconcileLocks(g) \/ Connect(g) \/ HandshakeStarts(g)
              \/ HandshakeSucceeds(g) \/ ReadLocks(g)
       PROVE  Settles(g)
  <2>1. owned' = owned
    BY <1>15
       DEF UpdateLocks, SyncLocks, SyncSends, CloseLocks, SubscribeLocks,
           SubscriptionIsActive, Bind, ReconcileLocks, Connect, HandshakeStarts,
           HandshakeSucceeds, ReadLocks
  <2>2. n.at # "idle"
    BY <1>15, ProceedEffects DEF Stays, Asks, Learns, Subscribed, Puts, Moved
  <2> QED BY <1>13, <2>1, <2>2
<1>16. ASSUME HandleSubscribe(g) PROVE Settles(g)
  <2>1. owned' = owned
    BY <1>16 DEF HandleSubscribe
  <2>2. n.at # "idle"
    BY <1>16, HandlerEffects DEF Restores
  <2> QED BY <1>13, <2>1, <2>2
<1> QED BY <1>1, <1>2, <1>3, <1>4, <1>5, <1>6, <1>7, <1>8, <1>9, <1>10, <1>11,
           <1>12, <1>14, <1>15, <1>16
        DEF Progress, Receive, Proceed

\* Whoever has made sure of a connection has made sure that it is advertised.
LEMMA CurrentAdvertises ==
    ASSUME OperationsOK, ConnectionsOK, AdvertisedOK, NEW g \in Goroutines,
           go[g].h \in Handles, owned[go[g].h] # "unused", Alone(go[g].h),
           Current(go[g])
    PROVE  Advertises(go[g].h)
BY DEF ConnectionsOK, AdvertisedOK, Current

\* A goroutine that writes another connection than the current one is alone
\* with a Session that nobody has been given.
LEMMA ProgressAdvertised ==
    ASSUME TypeOK, OperationsOK, HandlesOK, TableOK, CreatorsOK, RtaHeld,
           ConnectionsOK, AdvertisedOK, NEW g \in Goroutines, Progress(g), Grows,
           TypeOK', TableOK', CreatorsOK', ConnectionsOK'
    PROVE  AdvertisedOK'
<1> DEFINE o == go[g]
           n == go'[g]
<1>0. /\ AnswerStep(g) /\ CacheStep(g) /\ ServerStep(g) /\ ConnectionStep(g)
      /\ OwnOnly(g) /\ Settles(g)
      /\ o.op # "none" => o.h \in Handles /\ owned[o.h] # "unused" /\ ref[o.h] \in Refs
  BY AnswerSteps, CacheSteps, ServerSteps, ConnectionSteps, OwnStep,
     SettledSteps, Busy
<1> SUFFICES ASSUME NEW h \in Handles, owned'[h] # "unused", Alone(h)'
             PROVE  /\ cache'[h].connection = data' => Advertises(h)'
                    /\ \A k \in Goroutines :
                          LET q == go'[k]
                          IN  q.h = h /\ q.at = "answered" /\ q.status = "ok"
                                 /\ q.body.connection = data' => Advertises(h)'
                    /\ owned'[h] = "returned" /\ sessions'[ref'[h]] = h =>
                          Advertises(h)' \/ go'[Restorer(h)].at # "idle"
  BY DEF AdvertisedOK
<1>1. /\ owned[h] # "unused" /\ Alone(h) /\ ref' = ref /\ ref[h] \in Refs
  <2>1. ref' = ref
    BY <1>0 DEF OwnOnly
  <2>2. owned[h] # "unused"
    BY <1>0 DEF OwnOnly, Untouched
  <2> QED BY <2>1, <2>2 DEF Alone, HandlesOK
<1>2. /\ cache[h].connection = data => Advertises(h)
      /\ \A k \in Goroutines :
            go[k].h = h /\ go[k].at = "answered" /\ go[k].status = "ok"
               /\ go[k].body.connection = data => Advertises(h)
      /\ owned[h] = "returned" /\ sessions[ref[h]] = h =>
            Advertises(h) \/ go[Restorer(h)].at # "idle"
  BY <1>1 DEF AdvertisedOK
<1>a. /\ data \in Nat /\ data' \in Nat /\ connections \in Nat /\ NoConnection = 0
      /\ \A r \in Refs : server'[r].connection \in Nat /\ server'[r].connection <= data'
      /\ cache[h].connection \in Nat /\ cache[h].connection <= data
      /\ \A k \in Goroutines : go[k].body.connection \in Nat
  BY DEF TypeOK, Document, Connections, NoConnection, Operation, ConnectionsOK
<1>3. CASE HandleSubscribe(g)
  <2>1. /\ UNCHANGED <<cache, sessions>> /\ o.at = "handle" /\ data' = o.connection
        /\ data < data'
    BY <1>3 DEF HandleSubscribe, sessionVars, ConnectionsOK
  <2>2. cache'[h].connection # data'
    BY <1>a, <2>1
  <2>3. ASSUME NEW k \in Goroutines, go'[k].at = "answered", go'[k].status = "ok"
        PROVE  go'[k].body.connection # data'
    <3>1. go'[k] = go[k] /\ go[k].body.connection <= data
      BY <1>3, <2>3, HandlerEffects DEF Restores, Started, ConnectionsOK
    <3> QED BY <1>a, <2>1, <3>1
  <2>4. ASSUME sessions'[ref'[h]] = h PROVE go'[Restorer(h)].at # "idle"
    <3>1. h \in Bound
      BY <1>1, <2>1, <2>4, MpsdAssumption DEF Bound
    <3>2. Restorer(h) # g
      BY <2>1, GoroutineKinds
         DEF OperationsOK, OperationOK, Legal, Runs, Subscribing, Shaking,
             Updating, Leaving, Getting
    <3> QED BY <1>3, <3>1, <3>2, HandlerEffects, GoroutineKinds
            DEF Restores, Started
  <2> QED BY <2>2, <2>3, <2>4
<1>4. CASE ~HandleSubscribe(g)
  <2>0. /\ data' = data
        /\ \A k \in Goroutines : k # g => go'[k] = go[k]
    BY <1>0, <1>4, OthersStay DEF ConnectionStep
  <2>1. cache'[h].connection = 0 /\ data = 0 => Advertises(h)'
    BY <1>1, <1>a, <2>0 DEF Advertises
  \* The request that creates the Session h.
  <2>2. CASE o.req = "put" /\ o.at = "sent" /\ n.at = "answered" /\ o.h = h
    <3>1. Unbound(o) /\ o.op \in {"publish", "join"}
      BY <2>2
         DEF OperationsOK, OperationOK, Legal, Subscribing, Shaking, Updating,
             Leaving, Getting, Unbound
    <3>2. /\ cache[h] = Empty /\ \A k \in Goroutines : go[k].h = h => k = g
      BY <2>2, <3>1 DEF CreatorsOK
    <3>3. cache' = cache
      BY <1>0, <2>2 DEF CacheStep
    <3>4. cache'[h].connection = data' => Advertises(h)'
      BY <2>0, <2>1, <3>2, <3>3 DEF Empty, NoConnection
    <3>5. n.op = o.op /\ n.h = h
      BY <1>0, <2>2 DEF AnswerStep
    <3>6. owned'[h] = "creating"
      BY <3>1, <3>5 DEF CreatorsOK, Creating
    <3>7. ASSUME NEW k \in Goroutines, go'[k].h = h, go'[k].at = "answered",
                 go'[k].status = "ok", go'[k].body.connection = data'
          PROVE  Advertises(h)'
      <4>1. k = g
        BY <2>0, <3>2, <3>7
      <4>2. n.body = [version |-> server[ref[h]].version + 1, connection |-> Written(o)]
            /\ Rewritten(ref[h], server[ref[h]].version + 1, Written(o))
        BY <1>0, <2>2, <3>7, <4>1 DEF AnswerStep
      <4> QED BY <1>1, <3>7, <4>1, <4>2 DEF Rewritten, Advertises
    <3> QED BY <3>4, <3>6, <3>7
  \* Every other request.
  <2>3. CASE ~(o.req = "put" /\ o.at = "sent" /\ n.at = "answered" /\ o.h = h)
    <3>1. Advertises(h) => Advertises(h)'
      <4>1. CASE UNCHANGED server
        BY <1>1, <2>0, <4>1 DEF Advertises
      <4>2. CASE /\ o.at = "sent" /\ o.op # "none"
                 /\ o.req \in {"put", "custom", "connect", "leave"} /\ n.at = "answered"
                 /\ \/ Rewritten(ref[o.h], server[ref[o.h]].version + 1, Written(o))
                    \/ Rewritten(ref[o.h], server[ref[o.h]].version, NoConnection)
        <5>1. CASE o.h = h
          <6>1. o.req \in {"custom", "connect", "leave"}
            BY <2>3, <4>2, <5>1
          <6>2. o.req = "connect" => Written(o) = data
            BY DEF ConnectionsOK, Written
          <6>3. /\ o.req = "leave" => Written(o) = NoConnection
                /\ o.req = "custom" => Written(o) = server[ref[h]].connection
            BY <5>1 DEF Written
          <6> QED BY <1>1, <2>0, <4>2, <5>1, <6>1, <6>2, <6>3
                  DEF Rewritten, Advertises
        <5>2. CASE o.h # h
          <6>1. ref[o.h] # ref[h]
            BY <1>0, <1>1, <4>2, <5>2 DEF Alone
          <6> QED BY <1>1, <2>0, <4>2, <6>1 DEF Rewritten, Advertises
        <5> QED BY <5>1, <5>2
      <4> QED BY <1>0, <4>1, <4>2 DEF ServerStep
    <3>2. cache'[h].connection = data' => Advertises(h)'
      <4>1. CASE UNCHANGED cache
        BY <1>2, <2>0, <3>1, <4>1
      <4>2. CASE /\ o.at = "answered" /\ o.status = "ok"
                 /\ cache' = [cache EXCEPT ![o.h] = o.body]
        BY <1>2, <2>0, <3>1, <4>2 DEF TypeOK
      <4>3. CASE ClearCache(o.h)
        <5>1. cache'[h] = cache[h] \/ cache'[h].connection = 0
          BY <4>3 DEF ClearCache, TypeOK, Empty, NoConnection
        <5> QED BY <1>2, <2>0, <2>1, <3>1, <5>1
      <4> QED BY <1>0, <4>1, <4>2, <4>3 DEF CacheStep
    <3>3. ASSUME NEW k \in Goroutines, go'[k].h = h, go'[k].at = "answered",
                 go'[k].status = "ok", go'[k].body.connection = data'
          PROVE  Advertises(h)'
      <4>1. CASE k # g
        BY <1>2, <2>0, <3>1, <3>3, <4>1
      <4>2. CASE k = g
        <5>1. o.h = h /\ o.at = "sent"
          BY <1>0, <3>3, <4>2 DEF AnswerStep
        <5>2. server'[ref[h]].connection = n.body.connection
          BY <1>0, <1>1, <3>3, <4>2, <5>1 DEF AnswerStep, Rewritten
        <5> QED BY <1>1, <3>3, <4>2, <5>2 DEF Advertises
      <4> QED BY <4>1, <4>2
    <3>4. ASSUME owned'[h] = "returned", sessions'[ref'[h]] = h,
                 go'[Restorer(h)].at = "idle"
          PROVE  Advertises(h)'
      <4>1. o.h = h /\ Current(o) => Advertises(h)
        BY <1>1, CurrentAdvertises
      <4>2. CASE owned[h] # "returned"
        <5>1. o.h = h /\ Current(o)
          BY <1>0, <3>4, <4>2 DEF Settles, TypeOK
        <5> QED BY <3>1, <4>1, <5>1
      <4>3. CASE sessions[ref[h]] # h
        <5>1. Bind(g)
          BY <1>0, <1>1, <3>4, <4>3, MpsdAssumption DEF OwnOnly, Release, TypeOK
        <5>2. Creating(g) /\ o.h = h
          BY <1>1, <3>4, <4>3, <5>1
             DEF Bind, TypeOK, OperationsOK, OperationOK, Legal, Subscribing,
                 Shaking, Updating, Leaving, Getting, Creating
        <5>3. owned[h] = "creating" /\ owned' = owned
          BY <5>1, <5>2 DEF CreatorsOK, Bind
        <5> QED BY <3>4, <5>3
      <4>4. CASE owned[h] = "returned" /\ sessions[ref[h]] = h
        <5>1. CASE Advertises(h)
          BY <3>1, <5>1
        <5>2. CASE go[Restorer(h)].at # "idle" /\ Restorer(h) = g
          <6>1. o.h = h /\ o.op \in {"restore", "discard"}
            BY <5>2, GoroutineKinds DEF OperationsOK, OperationOK, Runs
          <6>2. ~closed'[h]
            BY <1>1, <3>4 DEF TableOK
          <6> QED BY <1>0, <3>1, <3>4, <4>1, <5>2, <6>1, <6>2 DEF Settles
        <5>3. CASE go[Restorer(h)].at # "idle" /\ Restorer(h) # g
          BY <2>0, <3>4, <5>3, GoroutineKinds
        <5> QED BY <1>2, <4>4, <5>1, <5>2, <5>3
      <4> QED BY <4>2, <4>3, <4>4
    <3> QED BY <3>2, <3>3, <3>4
  <2> QED BY <2>2, <2>3
<1> QED BY <1>3, <1>4

\* A Session that is put to use advertises nothing yet, and others do not
\* write the connection of the local user.
LEMMA StartAdvertised ==
    ASSUME TypeOK, OperationsOK, HandlesOK, TableOK, ConnectionsOK, AdvertisedOK,
           HandleError \/ Start \/ Rest, Grows, TypeOK', ConnectionsOK'
    PROVE  AdvertisedOK'
<1>1. /\ UNCHANGED <<cache, data, sessions>>
      /\ \A k \in Goroutines : go'[k] = go[k] \/ Fresh(k)
      /\ \A k \in Handles : \/ owned'[k] = owned[k] /\ ref'[k] = ref[k]
                            \/ owned[k] = "unused" /\ ref'[k] \in Refs
      /\ \A r \in Refs : server'[r].connection \in {server[r].connection, NoConnection}
  BY StartMoves, StartSessions
<1>2. ASSUME NEW h \in Handles, owned'[h] # "unused", Alone(h)'
      PROVE  /\ cache'[h].connection = data' => Advertises(h)'
             /\ \A k \in Goroutines :
                   LET q == go'[k]
                   IN  q.h = h /\ q.at = "answered" /\ q.status = "ok"
                          /\ q.body.connection = data' => Advertises(h)'
             /\ owned'[h] = "returned" /\ sessions'[ref'[h]] = h =>
                   Advertises(h)' \/ go'[Restorer(h)].at # "idle"
  <2>0. \A k \in Goroutines : go'[k].at = "answered" => go'[k] = go[k]
    BY <1>1 DEF Fresh
  <2>1. CASE owned[h] = "unused"
    <3>1. ref'[h] \in Refs /\ cache[h] = Empty /\ \A r \in Refs : sessions[r] # h
      BY <1>1, <1>2, <2>1 DEF HandlesOK, TableOK
    <3>2. cache'[h].connection = data' => Advertises(h)'
      <4>1. server'[ref'[h]].connection \in Nat /\ server'[ref'[h]].connection <= data'
        BY <3>1 DEF TypeOK, Connections, NoConnection, ConnectionsOK
      <4> QED BY <1>1, <3>1, <4>1 DEF Empty, NoConnection, Advertises
    <3>3. \A k \in Goroutines : go[k].at = "answered" => go[k].h # h
      BY <2>1, Something, Busy DEF Shaking
    <3> QED BY <1>1, <2>0, <3>1, <3>2, <3>3
  <2>2. CASE owned[h] # "unused"
    <3>1. owned'[h] = owned[h] /\ ref'[h] = ref[h] /\ ref[h] \in Refs
      BY <1>1, <2>2 DEF HandlesOK
    <3>2. Alone(h)
      BY <1>1, <1>2, <3>1, MpsdAssumption DEF Alone, HandlesOK
    <3>3. Advertises(h) => Advertises(h)'
      BY <1>1, <3>1 DEF Advertises
    <3>4. go'[Restorer(h)] = go[Restorer(h)]
      BY <1>1, GoroutineKinds DEF Fresh
    <3> QED BY <1>1, <2>0, <2>2, <3>1, <3>2, <3>3, <3>4 DEF AdvertisedOK
  <2> QED BY <2>1, <2>2
<1> QED BY <1>2 DEF AdvertisedOK
-----------------------------------------------------------------------------
(* The theorems.                                                           *)

\* The inductive invariant.
Inv ==
    /\ TypeOK /\ OperationsOK /\ HandlesOK /\ TableOK /\ CreatorsOK
    /\ SyncHeld /\ CloseHeld /\ RtaHeld
    /\ HistoryOK /\ VersionsOK /\ SeenOK
    /\ ConnectionsOK /\ AdvertisedOK

\* It holds when New returns.
LEMMA InitInv ==
    ASSUME Init
    PROVE  Inv
<1> USE DEF Init
<1>1. \A g \in Goroutines : go[g] = Idle
  OBVIOUS
<1>2. /\ Idle.at = "idle" /\ Idle.op = "none" /\ Idle.h = NoHandle
      /\ Idle.req = "none" /\ Idle.connection = 0 /\ Idle.seen = 0
      /\ Empty.version = 0 /\ Empty.connection = 0 /\ NoConnection = 0
  BY DEF Idle, Empty, NoConnection
<1>3. TypeOK
  <2>1. server \in [Refs -> [alive : BOOLEAN, version : Versions,
                             connection : Connections]]
    BY MpsdAssumption DEF Versions, Connections, NoConnection
  <2> QED BY <2>1, ZeroTypes DEF TypeOK
<1>4. OperationsOK
  BY <1>1, <1>2, RunsNothing DEF OperationsOK, OperationOK, Legal
<1>5. HandlesOK /\ TableOK
  BY <1>2, MpsdAssumption DEF HandlesOK, TableOK
<1>6. CreatorsOK /\ SyncHeld /\ CloseHeld /\ RtaHeld
  BY <1>1, <1>2, GoroutineKinds
     DEF CreatorsOK, Creating, Unbound, SyncHeld, CloseHeld, RtaHeld, NeedsSync,
         NeedsClose, NeedsWriter, Shaking, Leaving, Getting
<1>7. HistoryOK /\ VersionsOK /\ SeenOK
  BY <1>1, <1>2 DEF HistoryOK, VersionsOK, SeenOK, Entering, Unbound
<1>8. ConnectionsOK /\ AdvertisedOK
  BY <1>1, <1>2 DEF ConnectionsOK, AdvertisedOK
<1> QED BY <1>3, <1>4, <1>5, <1>6, <1>7, <1>8 DEF Inv

\* Every step keeps it.
LEMMA NextInv ==
    ASSUME Inv, [Next]_vars
    PROVE  Inv'
<1> USE DEF Inv
<1>1. ASSUME NEW g \in Goroutines, Progress(g) PROVE Inv'
  <2>1. TypeOK' /\ Grows
    BY <1>1, ProgressType
  <2>2. OperationsOK'
    BY <1>1, <2>1, ProgressOperations
  <2>3. HandlesOK' /\ TableOK'
    BY <1>1, <2>1, ProgressTable
  <2>4. CreatorsOK'
    BY <1>1, ProgressCreators
  <2>5. SyncHeld' /\ CloseHeld' /\ RtaHeld'
    BY <1>1, ProgressHeld, ProgressRtaHeld
  <2>6. HistoryOK'
    BY <1>1, <2>1, ProgressHistory
  <2>7. VersionsOK' /\ SeenOK'
    BY <1>1, <2>1, <2>2, ProgressVersions, ProgressSeen
  <2>8. ConnectionsOK'
    BY <1>1, <2>1, ProgressConnections
  <2>9. AdvertisedOK'
    BY <1>1, <2>1, <2>3, <2>4, <2>8, ProgressAdvertised
  <2> QED BY <2>1, <2>2, <2>3, <2>4, <2>5, <2>6, <2>7, <2>8, <2>9
<1>2. ASSUME HandleError \/ Start \/ Rest PROVE Inv'
  <2>1. TypeOK' /\ Grows
    BY <1>2, StartType
  <2>2. OperationsOK'
    BY <1>2, <2>1, StartOperations
  <2>3. HandlesOK' /\ TableOK'
    BY <1>2, StartTable
  <2>4. CreatorsOK'
    BY <1>2, StartCreators
  <2>5. SyncHeld' /\ CloseHeld' /\ RtaHeld'
    BY <1>2, StartHeld
  <2>6. HistoryOK'
    BY <1>2, StartHistory
  <2>7. VersionsOK' /\ SeenOK'
    BY <1>2, <2>1, StartVersions, StartSeen
  <2>8. ConnectionsOK'
    BY <1>2, StartConnections
  <2>9. AdvertisedOK'
    BY <1>2, <2>1, <2>8, StartAdvertised
  <2> QED BY <2>1, <2>2, <2>3, <2>4, <2>5, <2>6, <2>7, <2>8, <2>9
<1>3. ASSUME UNCHANGED vars PROVE Inv'
  <2>1. UNCHANGED <<server, ref, cache, etag, closed, closeMu, syncMu, owned,
                    sessions, writer, subscribeMu, readers, data, active, opMu,
                    connections, lost, go, left, joined>>
    BY <1>3 DEF vars, sessionVars, lockVars, rtaVars, history
  <2>2. Goroutines' = Goroutines
    BY DEF Goroutines
  <2>3. TypeOK' /\ OperationsOK' /\ HandlesOK' /\ TableOK'
    BY <2>1 DEF TypeOK, OperationsOK, OperationOK, HandlesOK, TableOK
  <2>4. CreatorsOK' /\ SyncHeld' /\ CloseHeld' /\ RtaHeld'
    BY <2>1 DEF CreatorsOK, Creating, SyncHeld, CloseHeld, RtaHeld
  <2>5. HistoryOK' /\ VersionsOK' /\ SeenOK'
    BY <2>1 DEF HistoryOK, VersionsOK, SeenOK
  <2>6. ConnectionsOK' /\ AdvertisedOK'
    BY <2>1 DEF ConnectionsOK, AdvertisedOK, Advertises, Alone
  <2> QED BY <2>3, <2>4, <2>5, <2>6
<1> QED BY <1>1, <1>2, <1>3 DEF Next

\* It holds throughout.
THEOREM Invariance == Spec => []Inv
<1>1. Init => Inv
  BY InitInv
<1>2. Inv /\ [Next]_vars => Inv'
  BY NextInv
<1> QED BY <1>1, <1>2, PTL DEF Spec

\* All variables stay in their types, for any number of goroutines, Sessions
\* and documents.
\* About: mpsd.Session, mpsd.Client and subscriptionHandler.
THEOREM TypeCorrect == Spec => []TypeOK
<1>1. Inv => TypeOK
  BY DEF Inv
<1> QED BY <1>1, Invariance, PTL

\* A Session enters its document once and leaves it once: no retry replays a
\* write that may have taken effect, and the goroutines that close a Session
\* wait for each other.
\* About: Client.Publish, Client.Join and Session.CloseContext.
THEOREM EntersAndLeavesOnceAlways == Spec => []EntersAndLeavesOnce
<1>1. Inv => EntersAndLeavesOnce
  BY DEF Inv, HistoryOK, EntersAndLeavesOnce, TypeOK
<1> QED BY <1>1, Invariance, PTL

\* HandleSessionChange finds in the cache what the event has announced,
\* whatever else reads and writes the document meanwhile.
\* About: subscriptionHandler.HandleEvent and Session.Sync.
THEOREM CallbackSeesChangeAlways == Spec => []CallbackSeesChange
<1>1. ASSUME Inv PROVE CallbackSeesChange
  <2> SUFFICES ASSUME NEW h \in Handles, go[Tapper(h)].at = "callback", ~closed[h]
               PROVE  cache[h].version >= go[Tapper(h)].seen
    BY DEF CallbackSeesChange
  <2>1. go[Tapper(h)].op = "tap" /\ go[Tapper(h)].h = h
    BY <1>1, GoroutineKinds
       DEF Inv, OperationsOK, OperationOK, Legal, Runs, Subscribing, Shaking,
           Updating, Leaving, Getting, Application
  <2>2. go[Tapper(h)].seen <= cache[h].version
    BY <1>1, <2>1, GoroutineKinds DEF Inv, SeenOK
  <2>3. go[Tapper(h)].seen \in Nat /\ cache[h].version \in Nat
    BY <1>1, GoroutineKinds DEF Inv, TypeOK, Operation, Document, Versions
  <2> QED BY <2>2, <2>3
<1> QED BY <1>1, Invariance, PTL

\* While nobody reconciles, no bound Session that is alone with its document
\* advertises the id of a former RTA connection.
\* About: subscriptionHandler.HandleSubscribe, Client.createSession and
\* reconcileSessionConnection.
THEOREM NoStaleConnectionAlways == Spec => []NoStaleConnection
<1>1. ASSUME Inv PROVE NoStaleConnection
  <2> SUFFICES ASSUME writer = Nobody, NEW h \in Bound, owned[h] = "returned", Alone(h)
               PROVE  server[ref[h]].connection \in {NoConnection, data}
    BY DEF NoStaleConnection
  <2>1. h \in Handles /\ sessions[ref[h]] = h
    BY <1>1 DEF Inv, TypeOK, TableOK, Bound
  <2>2. go[Restorer(h)].at = "idle"
    BY <1>1, <2>1, MpsdAssumption, GoroutineKinds DEF Inv, RtaHeld, NeedsWriter
  <2> QED BY <1>1, <2>1, <2>2 DEF Inv, AdvertisedOK, Advertises
<1> QED BY <1>1, Invariance, PTL

\* No answer that comes late overwrites a newer cache.
\* About: Session.update, Session.Sync and Session.sync, under syncMu.
THEOREM VersionsGrowAlways == Spec => VersionsGrow
<1> DEFINE Grown == \A h \in Handles : \/ cache'[h].version >= cache[h].version
                                       \/ cache'[h] = Empty
<1>1. ASSUME Inv, [Next]_vars PROVE [Grown]_vars
  <2>0. \A h \in Handles : cache[h].version \in Nat
    BY <1>1 DEF Inv, TypeOK, Document, Versions
  <2>1. ASSUME NEW g \in Goroutines, Progress(g) PROVE Grown
    <3> DEFINE o == go[g]
    <3>1. CacheStep(g)
      BY <1>1, <2>1, CacheSteps DEF Inv
    <3>2. CASE UNCHANGED cache
      BY <2>0, <3>2
    <3>3. CASE /\ o.at = "answered" /\ o.status = "ok"
               /\ cache' = [cache EXCEPT ![o.h] = o.body]
      <4>1. \A h \in Handles : cache'[h] = IF h = o.h THEN o.body ELSE cache[h]
        BY <1>1, <3>3 DEF Inv, TypeOK
      <4>2. cache[o.h].version <= o.body.version /\ o.body.version \in Nat
        BY <1>1, <3>3 DEF Inv, VersionsOK, TypeOK, Operation, Document, Versions
      <4> QED BY <2>0, <4>1, <4>2
    <3>4. CASE ClearCache(o.h)
      <4>1. \A h \in Handles : cache'[h] \in {cache[h], Empty}
        BY <1>1, <3>4 DEF Inv, TypeOK, ClearCache
      <4> QED BY <2>0, <4>1
    <3> QED BY <3>1, <3>2, <3>3, <3>4 DEF CacheStep
  <2>2. ASSUME HandleError \/ Start \/ Rest PROVE Grown
    <3>1. UNCHANGED cache
      BY <1>1, <2>2, StartMoves DEF Inv
    <3> QED BY <2>0, <3>1
  <2> QED BY <1>1, <2>1, <2>2 DEF Next
<1> QED BY <1>1, Invariance, PTL DEF Spec, VersionsGrow

\* The end of a Session does not take a newer one out of the table.
\* About: Client.handleSessionClose.
THEOREM KeepsNewerAlways == Spec => KeepsNewer
<1> DEFINE Kept == \A r \in Refs : sessions[r] # NoHandle /\ sessions'[r] # sessions[r]
                      => closed'[sessions[r]] \/ sessions'[r] # NoHandle
<1>1. ASSUME Inv, [Next]_vars PROVE [Kept]_vars
  <2>1. ASSUME NEW g \in Goroutines, Progress(g) PROVE Kept
    <3> DEFINE o == go[g]
    <3>1. OwnOnly(g) /\ (o.op # "none" => o.h \in Handles)
      BY <1>1, <2>1, OwnStep, Busy DEF Inv
    <3>2. CASE UNCHANGED sessions
      BY <3>2
    <3>3. CASE Bind(g)
      <4>1. o.op # "none"
        BY <1>1, <3>3, Something DEF Inv, Bind, Shaking
      <4> QED BY <1>1, <3>1, <3>3, <4>1, MpsdAssumption DEF Inv, Bind, TypeOK
    <3>4. CASE o.op # "none" /\ Release(o.h)
      BY <1>1, <3>1, <3>4, MpsdAssumption DEF Inv, Release, TypeOK
    <3> QED BY <3>1, <3>2, <3>3, <3>4 DEF OwnOnly
  <2>2. ASSUME HandleError \/ Start \/ Rest PROVE Kept
    BY <1>1, <2>2, StartMoves DEF Inv
  <2> QED BY <1>1, <2>1, <2>2 DEF Next
<1> QED BY <1>1, Invariance, PTL DEF Spec, KeepsNewer
====
