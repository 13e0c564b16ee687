--------------------------- MODULE RtaConnProofs ---------------------------
(***************************************************************************)
(* Proofs about RtaConn, for any number of callers, subscriptions, ids and *)
(* sockets, any workload and any coincidence of operations and outages.    *)
(*                                                                         *)
(* The inductive invariant Inv adds to TypeOK what ties a handshake to the *)
(* mutex of its Subscription, a socket to its reader, and a call to the    *)
(* socket it waits on.  Its parts are shown to be preserved by four        *)
(* lemmas, TypeStep, LockStep, SocketsStep and CallStep, each with one     *)
(* step per action.                                                        *)
(*                                                                         *)
(* OwnInv adds who answers for an active Subscription.  It is kept in      *)
(* every behaviour that is Undisturbed, and Orderly and Calm name the      *)
(* workloads whose behaviours all are.  CalmInv adds, for outages that     *)
(* come between the operations, what ties the current socket to its reader *)
(* and to the reconnect.  The steps are sorted by what they do to the      *)
(* table of operations, so that these invariants need a case for each      *)
(* kind of step and not for each action.                                   *)
(***************************************************************************)
EXTENDS MCRtaSafety, TLAPS

\* A goroutine that is in the middle of something knows its Subscription.
BusyHasSub == \A g \in Goroutines : go[g].at # "idle" => go[g].sub \in Subs

\* A handshake holds the opMu of its Subscription.
HandshakeHoldsOpMu ==
    \A g \in Goroutines : InHandshake(g) => opMu[go[g].sub] = g

\* Sockets that were not dialed are unused and nobody reads them.
UndialedUnused ==
    \A s \in Sockets : s > dialed => sock[s] = "unused" /\ reader[s] = "none"

\* A reader stops only when its socket is down, and the socket stays down.
OpenIsRead ==
    \A s \in Sockets : sock[s] = "open" => reader[s] \in {"none", "reading"}

\* A socket becomes the current one together with its reader.
CurrentHasReader == conn # NoSocket => reader[conn] # "none"

\* The socket that the reconnect has dialed and not published was dialed.
FreshWasDialed == dialedByRec <= dialed

SocketsInv ==
    UndialedUnused /\ OpenIsRead /\ CurrentHasReader /\ FreshWasDialed

\* A call uses a socket that has, or had, a reader.
CallHasReader ==
    \A g \in Goroutines :
        go[g].at \in {"write", "await"} => /\ go[g].sock \in Sockets
                                           /\ reader[go[g].sock] # "none"

Inv == /\ TypeOK /\ BusyHasSub /\ HandshakeHoldsOpMu
       /\ SocketsInv /\ CallHasReader /\ NoOrphanCall

-----------------------------------------------------------------------------
(* The operations table.                                                   *)

USE ConstantsAssumption DEF Sockets, NoSocket, Restorers, Goroutines

Typed(f) == f \in [Goroutines -> Operation]

\* The record of a goroutine that does nothing is an operation.
LEMMA NoOperationType == NoOperation \in Operation
BY DEF NoOperation, Operation, Places, Outcomes

\* Storing an operation keeps the table of operations typed.
LEMMA StoreType ==
    ASSUME NEW f, Typed(f), NEW g, NEW o \in Operation
    PROVE  Typed([f EXCEPT ![g] = o])
BY DEF Typed

\* Moving a goroutine to another place keeps the table typed.
LEMMA MoveType ==
    ASSUME Typed(go), NEW g \in Goroutines, NEW place \in Places
    PROVE  Typed([go EXCEPT ![g].at = place])
<1>1. [go[g] EXCEPT !.at = place] \in Operation
  BY DEF Typed, Operation
<1> QED BY <1>1 DEF Typed

\* So does moving it with a result.
LEMMA ReturnType ==
    ASSUME Typed(go), NEW g \in Goroutines, NEW place \in Places,
           NEW result \in Outcomes
    PROVE  Typed([go EXCEPT ![g].at = place, ![g].out = result])
<1>1. [go[g] EXCEPT !.at = place, !.out = result] \in Operation
  BY DEF Typed, Operation
<1> QED BY <1>1 DEF Typed

\* drainExpected keeps the table typed.
LEMMA DrainedType ==
    ASSUME Typed(go), NEW s PROVE Typed(Drained(s))
<1>1. \A g \in Goroutines : [go[g] EXCEPT !.out = "drained"] \in Operation
  BY DEF Typed, Operation, Outcomes
<1> QED BY <1>1 DEF Typed, Drained

\* The parts of an operation have the types that Operation gives them.
LEMMA FieldTypes ==
    ASSUME Typed(go), NEW g \in Goroutines
    PROVE  /\ go[g] \in Operation
           /\ go[g].sub \in Subs \cup {NoSub}
           /\ go[g].sock \in 0..MaxSockets
           /\ go[g].id \in Ids \cup {NoId}
           /\ go[g].out \in Outcomes
           /\ go[g].at \in Places
BY DEF Typed, Operation

\* The record with which an operation begins is an operation.
LEMMA BegunType ==
    ASSUME NEW place \in Places, NEW s \in Subs,
           NEW kind \in {"subscribe", "unsubscribe"}
    PROVE  [NoOperation EXCEPT !.at = place, !.op = kind, !.sub = s]
               \in Operation
<1>1. \A o \in Operation :
        [o EXCEPT !.at = place, !.op = kind, !.sub = s] \in Operation
  BY DEF Operation
<1> QED BY <1>1, NoOperationType

\* deactivate keeps the flags of every Subscription Boolean.
LEMMA DeactivateType ==
    ASSUME NEW S, Deactivate(S)
    PROVE  /\ active' \in [Subs -> BOOLEAN]
           /\ unsubscribing' \in [Subs -> BOOLEAN]
BY DEF Deactivate

\* trackSubscription maps ids to Subscriptions.
LEMMA TrackType ==
    ASSUME TypeOK, NEW s \in Subs, Track(s)
    PROVE  tracked' \in [Ids -> Subs \cup {NoSub}]
BY DEF Track, TypeOK

\* untrackSubscription maps ids to Subscriptions.
LEMMA UntrackType ==
    ASSUME TypeOK, NEW s, Untrack(s)
    PROVE  tracked' \in [Ids -> Subs \cup {NoSub}]
BY DEF Untrack, TypeOK

\* Losing a socket keeps the sockets and the server typed.
LEMMA DownType ==
    ASSUME TypeOK, NEW s, Down(s)
    PROVE  /\ sock' \in [Sockets -> {"unused", "open", "down"}]
           /\ server' \in [Sockets -> [Ids -> Subs \cup {NoSub}]]
<1>1. sock' \in [Sockets -> {"unused", "open", "down"}]
  BY DEF Down, TypeOK
<1>2. [i \in Ids |-> NoSub] \in [Ids -> Subs \cup {NoSub}]
  OBVIOUS
<1>3. server' \in [Sockets -> [Ids -> Subs \cup {NoSub}]]
  BY <1>2 DEF Down, TypeOK
<1> QED BY <1>1, <1>3

\* So does a change of what the server holds under one id.
LEMMA ServerType ==
    ASSUME TypeOK, NEW s, NEW i, NEW v \in Subs \cup {NoSub}
    PROVE  [server EXCEPT ![s][i] = v]
               \in [Sockets -> [Ids -> Subs \cup {NoSub}]]
<1>1. CASE s \in Sockets
  <2>1. [server[s] EXCEPT ![i] = v] \in [Ids -> Subs \cup {NoSub}]
    BY <1>1 DEF TypeOK
  <2> QED BY <1>1, <2>1 DEF TypeOK
<1>2. CASE s \notin Sockets
  BY <1>2 DEF TypeOK
<1> QED BY <1>1, <1>2

\* closeWebSocket keeps the network and the operations typed.
LEMMA CloseWebSocketType ==
    ASSUME TypeOK, CloseWebSocket
    PROVE  /\ conn' \in 0..MaxSockets
           /\ sock' \in [Sockets -> {"unused", "open", "down"}]
           /\ server' \in [Sockets -> [Ids -> Subs \cup {NoSub}]]
           /\ Typed(go')
<1>0. Typed(go)
  BY DEF TypeOK, Typed
<1>1. conn' \in 0..MaxSockets
  BY DEF CloseWebSocket
<1>2. CASE conn = NoSocket
  BY <1>0, <1>1, <1>2 DEF CloseWebSocket, TypeOK
<1>3. CASE conn # NoSocket
  <2>1. Down(conn) /\ go' = Drained(conn)
    BY <1>3 DEF CloseWebSocket
  <2> QED BY <1>0, <1>1, <2>1, DownType, DrainedType
<1> QED BY <1>2, <1>3

\* What takeSubscriptionsForReconnect keeps maps ids to Subscriptions.
LEMMA TakesType ==
    ASSUME TypeOK PROVE Takes \in [Ids -> Subs \cup {NoSub}]
BY DEF Takes, TypeOK

\* The operations of the goroutines that resubscribe starts.
LEMMA StartRestorersType ==
    ASSUME TypeOK PROVE Typed(StartRestorers)
<1>1. \A i \in Ids : taken[i] # NoSub =>
        [NoOperation EXCEPT !.at = "opMu", !.op = "subscribe",
                            !.sub = taken[i]] \in Operation
  <2> SUFFICES ASSUME NEW i \in Ids, taken[i] # NoSub
               PROVE  [NoOperation EXCEPT !.at = "opMu", !.op = "subscribe",
                                          !.sub = taken[i]] \in Operation
    OBVIOUS
  <2>1. taken[i] \in Subs
    BY DEF TypeOK
  <2> QED BY <2>1, BegunType DEF Places
<1> QED BY <1>1 DEF Typed, StartRestorers, TypeOK

\* A reader that moves keeps the readers typed.
LEMMA ReaderType ==
    ASSUME TypeOK, NEW s,
           NEW v \in {"none", "reading", "failed", "current", "done"}
    PROVE  [reader EXCEPT ![s] = v] \in
              [Sockets -> {"none", "reading", "failed", "current", "done"}]
BY DEF TypeOK

\* Every field update that an action performs gives an operation again.
LEMMA UpdateType ==
    ASSUME NEW o \in Operation, NEW s \in 0..MaxSockets,
           NEW i \in Ids \cup {NoId}, NEW r \in Outcomes
    PROVE  /\ [o EXCEPT !.at = "call", !.id = i] \in Operation
           /\ [o EXCEPT !.at = "write", !.sock = s] \in Operation
           /\ [o EXCEPT !.at = "return", !.out = r] \in Operation
           /\ [o EXCEPT !.at = "settle", !.op = "subscribe", !.out = r]
                \in Operation
           /\ [o EXCEPT !.at = "call", !.op = "cleanup", !.out = "none"]
                \in Operation
           /\ [o EXCEPT !.out = r] \in Operation
           /\ [o EXCEPT !.out = r, !.id = i] \in Operation
           /\ \A p \in Places :
                [o EXCEPT !.at = p, !.out = "none", !.sock = s] \in Operation
<1> USE DEF Operation, Places, Outcomes
<1>1. [o EXCEPT !.at = "call", !.id = i] \in Operation
  OBVIOUS
<1>2. [o EXCEPT !.at = "write", !.sock = s] \in Operation
  OBVIOUS
<1>3. [o EXCEPT !.at = "return", !.out = r] \in Operation
  OBVIOUS
<1>4. [o EXCEPT !.at = "settle", !.op = "subscribe", !.out = r] \in Operation
  OBVIOUS
<1>5. [o EXCEPT !.at = "call", !.op = "cleanup", !.out = "none"] \in Operation
  OBVIOUS
<1>6. [o EXCEPT !.out = r] \in Operation
  OBVIOUS
<1>7. [o EXCEPT !.out = r, !.id = i] \in Operation
  OBVIOUS
<1>8. \A p \in Places :
        [o EXCEPT !.at = p, !.out = "none", !.sock = s] \in Operation
  OBVIOUS
<1> HIDE DEF Operation, Places, Outcomes
<1> QED BY <1>1, <1>2, <1>3, <1>4, <1>5, <1>6, <1>7, <1>8

-----------------------------------------------------------------------------
\* Every step keeps the types, because a goroutine that is in the middle of
\* something knows its Subscription.
LEMMA TypeStep ==
    ASSUME TypeOK, BusyHasSub, Next
    PROVE  TypeOK'
<1>0. Typed(go)
  BY DEF TypeOK, Typed
<1> USE DEF TypeOK, OnlyGoChanges, netVars, subVars, lockVars, recVars
<1>1. ASSUME NEW p \in Callers, NEW s \in Subs, StartSubscribe(p, s)
      PROVE  TypeOK'
  <2>1. Typed(go')
    BY <1>0, <1>1, BegunType, StoreType DEF StartSubscribe, Places
  <2> QED
    BY <1>1, <2>1 DEF StartSubscribe, Typed
<1>2. ASSUME NEW p \in Callers, NEW s \in Subs, StartUnsubscribe(p, s)
      PROVE  TypeOK'
  <2>1. Typed(go')
    BY <1>0, <1>2, BegunType, StoreType DEF StartUnsubscribe, Places
  <2> QED
    BY <1>2, <2>1 DEF StartUnsubscribe, Typed
<1>3. ASSUME NEW p \in Callers, WaitReturns(p)
      PROVE  TypeOK'
  <2>1. Typed(go')
    BY <1>0, <1>3, MoveType DEF WaitReturns, Goto, Places
  <2> QED
    BY <1>3, <2>1 DEF WaitReturns, Typed
<1>4. ASSUME NEW p \in Callers, WaitFails(p)
      PROVE  TypeOK'
  <2>1. Typed(go')
    BY <1>0, <1>4, StoreType, NoOperationType DEF WaitFails, Leave
  <2> QED
    BY <1>4, <2>1 DEF WaitFails, Typed
<1>5. ASSUME NEW p \in Callers, LockSubscriptionOpMu(p)
      PROVE  TypeOK'
  <2>1. Typed(go')
    BY <1>0, <1>5, MoveType DEF LockSubscriptionOpMu, Goto, Places
  <2> QED
    BY <1>5, <2>1 DEF LockSubscriptionOpMu, Typed
<1>6. ASSUME NEW p \in Callers, NothingToDo(p)
      PROVE  TypeOK'
  <2>1. Typed(go')
    BY <1>0, <1>6, StoreType, NoOperationType DEF NothingToDo, Leave
  <2> QED
    BY <1>6, <2>1 DEF NothingToDo, Typed
<1>7. ASSUME NEW p \in Callers, BeginUnsubscribe(p)
      PROVE  TypeOK'
  <2>1. id[go[p].sub] \in Ids \cup {NoId}
    BY <1>7, BusyHasSub DEF BeginUnsubscribe, BusyHasSub
  <2>2. [go[p] EXCEPT !.at = "call", !.id = id[go[p].sub]]
          \in Operation
    BY <1>0, <2>1, FieldTypes, UpdateType
  <2>3. Typed(go')
    BY <1>0, <1>7, <2>2 DEF BeginUnsubscribe, Typed
  <2> QED
    BY <1>7, <2>1, <2>2, <2>3 DEF BeginUnsubscribe, Typed
<1>8. ASSUME NEW p \in Callers, SubscribeReturns(p)
      PROVE  TypeOK'
  <2>1. Typed(go')
    BY <1>0, <1>8, StoreType, NoOperationType DEF SubscribeReturns, Leave
  <2>2. go[p].sub \in Subs
    BY <1>8 DEF SubscribeReturns, BusyHasSub
  <2>3. tracked' \in [Ids -> Subs \cup {NoSub}]
    BY <1>8, <2>2, TrackType DEF SubscribeReturns
  <2> QED
    BY <1>8, <2>1, <2>2, <2>3 DEF SubscribeReturns, Typed
<1>9. ASSUME NEW p \in Callers, SubscribeFails(p)
      PROVE  TypeOK'
  <2>1. Typed(go')
    BY <1>0, <1>9, StoreType, NoOperationType DEF SubscribeFails, Leave
  <2>2. active' \in [Subs -> BOOLEAN] /\ unsubscribing' \in [Subs -> BOOLEAN]
    BY <1>9, DeactivateType DEF SubscribeFails
  <2> QED
    BY <1>9, <2>1, <2>2 DEF SubscribeFails, Typed
<1>10. ASSUME NEW p \in Callers, SubscribeRetries(p)
      PROVE  TypeOK'
  <2>1. NoSocket \in 0..MaxSockets
    OBVIOUS
  <2>2. [go[p] EXCEPT !.at = IF reconnecting THEN "wait" ELSE "opMu",
                        !.out = "none", !.sock = NoSocket] \in Operation
    BY <1>0, <2>1, FieldTypes, UpdateType DEF Places
  <2>3. Typed(go')
    BY <1>0, <1>10, <2>2 DEF SubscribeRetries, Typed
  <2> QED
    BY <1>10, <2>1, <2>2, <2>3 DEF SubscribeRetries, Typed
<1>11. ASSUME NEW p \in Callers, UnsubscribeReturns(p)
      PROVE  TypeOK'
  <2>1. Typed(go')
    BY <1>0, <1>11, StoreType, NoOperationType DEF UnsubscribeReturns, Leave
  <2>2. tracked' \in [Ids -> Subs \cup {NoSub}]
    BY <1>11, UntrackType DEF UnsubscribeReturns
  <2>3. active' \in [Subs -> BOOLEAN] /\ unsubscribing' \in [Subs -> BOOLEAN]
    BY <1>11, DeactivateType DEF UnsubscribeReturns
  <2> QED
    BY <1>11, <2>1, <2>2, <2>3 DEF UnsubscribeReturns, Typed
<1>12. ASSUME NEW p \in Callers, UnsubscribeFails(p)
      PROVE  TypeOK'
  <2>1. Typed(go')
    BY <1>0, <1>12, StoreType, NoOperationType DEF UnsubscribeFails, Leave
  <2> QED
    BY <1>12, <2>1 DEF UnsubscribeFails, Typed
<1>13. ASSUME NEW g \in Goroutines, BeginSubscribe(g)
      PROVE  TypeOK'
  <2>1. Typed(go')
    BY <1>0, <1>13, MoveType DEF BeginSubscribe, Goto, Places
  <2> QED
    BY <1>13, <2>1 DEF BeginSubscribe, Typed
<1>14. ASSUME NEW g \in Goroutines, CallStarts(g)
      PROVE  TypeOK'
  <2>1. Typed(go')
    BY <1>0, <1>14, MoveType DEF CallStarts, Goto, Places
  <2> QED
    BY <1>14, <2>1 DEF CallStarts, Typed
<1>15. ASSUME NEW g \in Goroutines, EnsureCurrent(g)
      PROVE  TypeOK'
  <2>1. [go[g] EXCEPT !.at = "write", !.sock = conn] \in Operation
    BY <1>0, FieldTypes, UpdateType DEF Outcomes
  <2>2. Typed(go')
    BY <1>0, <1>15, <2>1 DEF EnsureCurrent, Typed
  <2> QED
    BY <1>15, <2>1, <2>2 DEF EnsureCurrent, Typed
<1>16. ASSUME NEW g \in Goroutines, EnsureDials(g)
      PROVE  TypeOK'
  <2>1. PICK s \in Sockets :
           /\ Dialed(s)
           /\ conn' = s
           /\ reader' = [reader EXCEPT ![s] = "reading"]
           /\ go' = [go EXCEPT ![g].at = "write", ![g].sock = s]
    BY <1>16 DEF EnsureDials
  <2>2. s \in 0..MaxSockets
    OBVIOUS
  <2>3. [go[g] EXCEPT !.at = "write", !.sock = s] \in Operation
    BY <1>0, <2>2, FieldTypes, UpdateType
  <2>4. /\ dialed' \in Sockets /\ conn' \in 0..MaxSockets
           /\ sock' \in [Sockets -> {"unused", "open", "down"}]
    BY <2>1 DEF Dialed
  <2>5. reader' \in [Sockets ->
                    {"none", "reading", "failed", "current", "done"}]
    BY <2>1
  <2>6. Typed(go')
    BY <1>0, <2>1, <2>3 DEF Typed
  <2> QED
    BY <1>16, <2>1, <2>2, <2>3, <2>4, <2>5, <2>6 DEF EnsureDials, Typed
<1>17. ASSUME NEW g \in Goroutines, CallFails(g)
      PROVE  TypeOK'
  <2>1. Typed(go')
    BY <1>0, <1>17, ReturnType DEF CallFails, Return, Places, Outcomes
  <2> QED
    BY <1>17, <2>1 DEF CallFails, Typed
<1>18. ASSUME NEW g \in Goroutines, Write(g)
      PROVE  TypeOK'
  <2>1. Typed(go')
    BY <1>0, <1>18, MoveType DEF Write, Goto, Places
  <2> QED
    BY <1>18, <2>1 DEF Write, Typed
<1>19. ASSUME NEW g \in Goroutines, WriteFails(g)
      PROVE  TypeOK'
  <2>1. Typed(Drained(go[g].sock))
    BY <1>0, DrainedType
  <2>2. Drained(go[g].sock)[g] \in Operation
    BY <2>1 DEF Typed
  <2>3. [Drained(go[g].sock)[g] EXCEPT !.at = "return",
                                          !.out = "interrupted"] \in Operation
    BY <2>2, UpdateType DEF Outcomes
  <2>4. Typed(go')
    BY <1>19, <2>1, <2>3 DEF WriteFails, Typed
  <2> QED
    BY <1>19, <2>1, <2>2, <2>3, <2>4 DEF WriteFails, Typed, StartReconnect
<1>20. ASSUME NEW g \in Goroutines, AwaitFails(g)
      PROVE  TypeOK'
  <2>1. Typed(go')
    BY <1>0, <1>20, ReturnType DEF AwaitFails, Return, Places, Outcomes
  <2>2. go[g].sub \in Subs
    BY <1>20 DEF AwaitFails, BusyHasSub
  <2>3. server' \in [Sockets -> [Ids -> Subs \cup {NoSub}]]
    BY <1>20, <2>2, ServerType DEF AwaitFails
  <2> QED
    BY <1>20, <2>1, <2>2, <2>3 DEF AwaitFails, Typed
<1>21. ASSUME NEW g \in Goroutines, AwaitReturns(g)
      PROVE  TypeOK'
  <2>1. Typed(go')
    BY <1>0, <1>21, ReturnType DEF AwaitReturns, Return, Places, Outcomes
  <2> QED
    BY <1>21, <2>1 DEF AwaitReturns, Typed
<1>22. ASSUME NEW g \in Goroutines, AwaitSubscribed(g)
      PROVE  TypeOK'
  <2>1. Typed(go')
    BY <1>0, <1>22, MoveType DEF AwaitSubscribed, Goto, Places
  <2>2. go[g].id \in Ids \cup {NoId}
    BY <1>0, FieldTypes
  <2>3. id' \in [Subs -> Ids \cup {NoId}]
    BY <1>22, <2>2 DEF AwaitSubscribed
  <2>4. active' \in [Subs -> BOOLEAN] /\ unsubscribing' \in [Subs -> BOOLEAN]
    BY <1>22 DEF AwaitSubscribed
  <2> QED
    BY <1>22, <2>1, <2>2, <2>3, <2>4 DEF AwaitSubscribed, Typed
<1>23. ASSUME NEW g \in Goroutines, HandleSubscribe(g)
      PROVE  TypeOK'
  <2>1. Typed(go')
    BY <1>0, <1>23, ReturnType DEF HandleSubscribe, Return, Places, Outcomes
  <2> QED
    BY <1>23, <2>1 DEF HandleSubscribe, Typed
<1>24. ASSUME NEW g \in Goroutines, HandleSubscribeFails(g)
      PROVE  TypeOK'
  <2>1. [go[g] EXCEPT !.at = "call", !.op = "cleanup", !.out = "none"]
          \in Operation
    BY <1>0, FieldTypes, UpdateType DEF Outcomes
  <2>2. Typed(go')
    BY <1>0, <1>24, <2>1 DEF HandleSubscribeFails, Typed
  <2> QED
    BY <1>24, <2>1, <2>2 DEF HandleSubscribeFails, Typed
<1>25. ASSUME NEW g \in Goroutines, UnlockOpMu(g)
      PROVE  TypeOK'
  <2>1. Result(g) \in Outcomes
    BY <1>0, FieldTypes DEF Result, Outcomes
  <2>2. [go[g] EXCEPT !.at = "settle", !.op = "subscribe",
                          !.out = Result(g)] \in Operation
    BY <1>0, <2>1, FieldTypes, UpdateType
  <2>3. Typed(go')
    BY <1>0, <1>25, <2>2 DEF UnlockOpMu, Typed
  <2> QED
    BY <1>25, <2>1, <2>2, <2>3 DEF UnlockOpMu, Typed
<1>26. ASSUME NEW g \in Goroutines, ServeSubscribe(g)
      PROVE  TypeOK'
  <2>1. go[g].sub \in Subs
    BY <1>26 DEF ServeSubscribe, Answer, BusyHasSub
  <2>2. PICK i \in Ids :
           /\ server' = [server EXCEPT ![go[g].sock][i] = go[g].sub]
           /\ go' = [go EXCEPT ![g].out = "ok", ![g].id = i]
    BY <1>26 DEF ServeSubscribe, Assignable
  <2>3. [go[g] EXCEPT !.out = "ok", !.id = i] \in Operation
    BY <1>0, FieldTypes, UpdateType DEF Outcomes
  <2>4. Typed(go')
    BY <1>0, <2>2, <2>3 DEF Typed
  <2>5. server' \in [Sockets -> [Ids -> Subs \cup {NoSub}]]
    BY <2>1, <2>2, ServerType
  <2> QED
    BY <1>26, <2>1, <2>2, <2>3, <2>4, <2>5 DEF ServeSubscribe, Typed, Answer
<1>27. ASSUME NEW g \in Goroutines, ServeUnsubscribe(g)
      PROVE  TypeOK'
  <2>1. [go[g] EXCEPT !.out = "ok"] \in Operation
    BY <1>0, FieldTypes, UpdateType DEF Outcomes
  <2>2. Typed(go')
    BY <1>0, <1>27, <2>1 DEF ServeUnsubscribe, Typed
  <2>3. server' \in [Sockets -> [Ids -> Subs \cup {NoSub}]]
    BY <1>27, ServerType DEF ServeUnsubscribe
  <2> QED
    BY <1>27, <2>1, <2>2, <2>3 DEF ServeUnsubscribe, Typed, Answer
<1>28. ASSUME NEW g \in Goroutines, ServeRefusal(g)
      PROVE  TypeOK'
  <2>1. [go[g] EXCEPT !.out = "refused"] \in Operation
    BY <1>0, FieldTypes, UpdateType DEF Outcomes
  <2>2. Typed(go')
    BY <1>0, <1>28, <2>1 DEF ServeRefusal, Typed
  <2> QED
    BY <1>28, <2>1, <2>2 DEF ServeRefusal, Typed, Answer
<1>29. ASSUME NEW i \in Restorers, Restored(i)
      PROVE  TypeOK'
  <2>1. Typed(go')
    BY <1>0, <1>29, StoreType, NoOperationType DEF Restored, Leave
  <2>2. go[i].sub \in Subs
    BY <1>29 DEF Restored, BusyHasSub
  <2>3. tracked' \in [Ids -> Subs \cup {NoSub}]
    BY <1>29, <2>2, TrackType DEF Restored
  <2> QED
    BY <1>29, <2>1, <2>2, <2>3 DEF Restored, Typed
<1>30. ASSUME NEW i \in Restorers, RestoreInterrupted(i)
      PROVE  TypeOK'
  <2>1. Typed(go')
    BY <1>0, <1>30, StoreType, NoOperationType DEF RestoreInterrupted, Leave
  <2>2. go[i].sub \in Subs
    BY <1>30 DEF RestoreInterrupted, BusyHasSub
  <2>3. tracked' \in [Ids -> Subs \cup {NoSub}]
    BY <1>30, <2>2, TrackType DEF RestoreInterrupted
  <2> QED
    BY <1>30, <2>1, <2>2, <2>3 DEF RestoreInterrupted, Typed
<1>31. ASSUME NEW i \in Restorers, RestoreFails(i)
      PROVE  TypeOK'
  <2>1. Typed(go')
    BY <1>0, <1>31, StoreType, NoOperationType DEF RestoreFails, Leave
  <2>2. active' \in [Subs -> BOOLEAN] /\ unsubscribing' \in [Subs -> BOOLEAN]
    BY <1>31, DeactivateType DEF RestoreFails
  <2> QED
    BY <1>31, <2>1, <2>2 DEF RestoreFails, Typed
<1>32. ASSUME NEW s \in Sockets, ReadFails(s)
      PROVE  TypeOK'
  <2>1. Typed(go')
    BY <1>0, <1>32, DrainedType DEF ReadFails
  <2> QED
    BY <1>32, <2>1 DEF ReadFails, Typed
<1>33. ASSUME NEW s \in Sockets, ReaderChecks(s)
      PROVE  TypeOK'
  <2>1. Typed(go')
    BY <1>0, <1>33 DEF ReaderChecks
  <2>2. reader' \in [Sockets ->
                    {"none", "reading", "failed", "current", "done"}]
    BY <1>33 DEF ReaderChecks
  <2> QED
    BY <1>33, <2>1, <2>2 DEF ReaderChecks, Typed
<1>34. ASSUME NEW s \in Sockets, ReaderReconnects(s)
      PROVE  TypeOK'
  <2>1. Typed(go')
    BY <1>0, <1>34 DEF ReaderReconnects
  <2> QED
    BY <1>34, <2>1 DEF ReaderReconnects, Typed, StartReconnect
<1>35. ASSUME NEW s \in Sockets, Drop(s)
      PROVE  TypeOK'
  <2>1. Typed(go')
    BY <1>0, <1>35 DEF Drop
  <2>2. /\ sock' \in [Sockets -> {"unused", "open", "down"}]
           /\ server' \in [Sockets -> [Ids -> Subs \cup {NoSub}]]
    BY <1>35, DownType DEF Drop
  <2> QED
    BY <1>35, <2>1, <2>2 DEF Drop, Typed
<1>36. ASSUME ReconnectTakes
      PROVE  TypeOK'
  <2>1. Typed(go')
    BY <1>0, <1>36 DEF ReconnectTakes
  <2>2. taken' \in [Ids -> Subs \cup {NoSub}]
    BY <1>36, TakesType DEF ReconnectTakes
  <2>3. tracked' \in [Ids -> Subs \cup {NoSub}]
    BY <1>36 DEF ReconnectTakes
  <2> QED
    BY <1>36, <2>1, <2>2, <2>3 DEF ReconnectTakes, Typed
<1>37. ASSUME ReconnectShuts
      PROVE  TypeOK'
  <2>1. /\ conn' \in 0..MaxSockets
           /\ sock' \in [Sockets -> {"unused", "open", "down"}]
           /\ server' \in [Sockets -> [Ids -> Subs \cup {NoSub}]]
           /\ Typed(go')
    BY <1>37, CloseWebSocketType DEF ReconnectShuts
  <2>2. dialed' = dialed /\ reader' = reader
    BY <1>37 DEF ReconnectShuts, CloseWebSocket
  <2> QED
    BY <1>37, <2>1, <2>2 DEF ReconnectShuts, Typed
<1>38. ASSUME ReconnectDials
      PROVE  TypeOK'
  <2>1. Typed(go')
    BY <1>0, <1>38 DEF ReconnectDials
  <2>2. /\ dialed' \in Sockets /\ dialedByRec' \in 0..MaxSockets
           /\ sock' \in [Sockets -> {"unused", "open", "down"}]
    BY <1>38 DEF ReconnectDials, Dialed
  <2> QED
    BY <1>38, <2>1, <2>2 DEF ReconnectDials, Typed
<1>39. ASSUME ReconnectAbandons
      PROVE  TypeOK'
  <2>1. Typed(go')
    BY <1>0, <1>39 DEF ReconnectAbandons
  <2>2. /\ sock' \in [Sockets -> {"unused", "open", "down"}]
           /\ server' \in [Sockets -> [Ids -> Subs \cup {NoSub}]]
    BY <1>39, DownType DEF ReconnectAbandons
  <2>3. active' \in [Subs -> BOOLEAN] /\ unsubscribing' \in [Subs -> BOOLEAN]
    BY <1>39, DeactivateType DEF ReconnectAbandons
  <2>4. taken' \in [Ids -> Subs \cup {NoSub}]
    BY <1>39 DEF ReconnectAbandons
  <2> QED
    BY <1>39, <2>1, <2>2, <2>3, <2>4 DEF ReconnectAbandons, Typed
<1>40. ASSUME ReconnectPublishes
      PROVE  TypeOK'
  <2>1. Typed(go')
    BY <1>40, StartRestorersType DEF ReconnectPublishes
  <2>2. reader' \in [Sockets ->
                    {"none", "reading", "failed", "current", "done"}]
    BY <1>40, ReaderType DEF ReconnectPublishes
  <2> QED
    BY <1>40, <2>1, <2>2 DEF ReconnectPublishes, Typed
<1>41. ASSUME ReconnectJoins
      PROVE  TypeOK'
  <2>1. Typed(go')
    BY <1>0, <1>41 DEF ReconnectJoins
  <2>2. taken' \in [Ids -> Subs \cup {NoSub}]
    BY <1>41 DEF ReconnectJoins
  <2> QED
    BY <1>41, <2>1, <2>2 DEF ReconnectJoins, Typed
<1>42. ASSUME ReconnectRetries
      PROVE  TypeOK'
  <2>1. Typed(go')
    BY <1>0, <1>42 DEF ReconnectRetries
  <2> QED
    BY <1>42, <2>1 DEF ReconnectRetries, Typed
<1>43. ASSUME ReconnectSweeps
      PROVE  TypeOK'
  <2>1. Typed(go')
    BY <1>0, <1>43 DEF ReconnectSweeps
  <2>2. active' \in [Subs -> BOOLEAN] /\ unsubscribing' \in [Subs -> BOOLEAN]
    BY <1>43, DeactivateType DEF ReconnectSweeps
  <2>3. tracked' \in [Ids -> Subs \cup {NoSub}]
    BY <1>43 DEF ReconnectSweeps
  <2> QED
    BY <1>43, <2>1, <2>2, <2>3 DEF ReconnectSweeps, Typed
<1>44. ASSUME ReconnectFinishes
      PROVE  TypeOK'
  <2>1. Typed(go')
    BY <1>0, <1>44 DEF ReconnectFinishes
  <2> QED
    BY <1>44, <2>1 DEF ReconnectFinishes, Typed
<1>45. ASSUME CloseCancels
      PROVE  TypeOK'
  <2>1. Typed(go')
    BY <1>0, <1>45 DEF CloseCancels
  <2> QED
    BY <1>45, <2>1 DEF CloseCancels, Typed
<1>46. ASSUME CloseShuts
      PROVE  TypeOK'
  <2>1. /\ conn' \in 0..MaxSockets
           /\ sock' \in [Sockets -> {"unused", "open", "down"}]
           /\ server' \in [Sockets -> [Ids -> Subs \cup {NoSub}]]
           /\ Typed(go')
    BY <1>46, CloseWebSocketType DEF CloseShuts
  <2>2. dialed' = dialed /\ reader' = reader
    BY <1>46 DEF CloseShuts, CloseWebSocket
  <2> QED
    BY <1>46, <2>1, <2>2 DEF CloseShuts, Typed
<1>47. ASSUME CloseSweeps
      PROVE  TypeOK'
  <2>1. Typed(go')
    BY <1>0, <1>47 DEF CloseSweeps
  <2>2. active' \in [Subs -> BOOLEAN] /\ unsubscribing' \in [Subs -> BOOLEAN]
    BY <1>47, DeactivateType DEF CloseSweeps
  <2> QED
    BY <1>47, <2>1, <2>2 DEF CloseSweeps, Typed
<1>48. CASE Rest
  BY <1>48 DEF Rest, vars
<1> QED
  BY <1>1, <1>2, <1>3, <1>4, <1>5, <1>6, <1>7, <1>8, <1>9, <1>10, <1>11,
     <1>12, <1>13, <1>14, <1>15, <1>16, <1>17, <1>18, <1>19, <1>20, <1>21,
     <1>22, <1>23, <1>24, <1>25, <1>26, <1>27, <1>28, <1>29, <1>30, <1>31,
     <1>32, <1>33, <1>34, <1>35, <1>36, <1>37, <1>38, <1>39, <1>40, <1>41,
     <1>42, <1>43, <1>44, <1>45, <1>46, <1>47, <1>48 DEF Next, PublicSteps,
     CallSteps, RestorerSteps, ReaderSteps, ReconnectSteps, CloseSteps

-----------------------------------------------------------------------------
\* drainExpected changes nothing of an operation but its outcome.
LEMMA DrainedKeeps ==
    ASSUME Typed(go), NEW s, NEW g \in Goroutines
    PROVE  /\ Drained(s)[g].at = go[g].at
           /\ Drained(s)[g].sub = go[g].sub
           /\ Drained(s)[g].sock = go[g].sock
           /\ go[g].out # "none" => Drained(s)[g].out # "none"
           /\ go[g].at = "await" /\ go[g].sock = s
                => Drained(s)[g].out # "none"
BY DEF Typed, Drained, Operation

\* Nor does closeWebSocket.
LEMMA CloseWebSocketKeeps ==
    ASSUME Typed(go), CloseWebSocket
    PROVE  \A g \in Goroutines :
             /\ go'[g].at = go[g].at
             /\ go'[g].sub = go[g].sub
             /\ go'[g].sock = go[g].sock
             /\ go'[g].out = "none" => go[g].out = "none"
BY DrainedKeeps DEF CloseWebSocket

\* A failed write moves its own goroutine and drains the others.
LEMMA WriteFailsKeeps ==
    ASSUME Typed(go), NEW g \in Goroutines, WriteFails(g)
    PROVE  /\ reader' = reader /\ opMu' = opMu
           /\ go[g].at = "write"
           /\ go'[g].at = "return" /\ go'[g].sub = go[g].sub
           /\ \A h \in Goroutines \ {g} :
                /\ go'[h].at = go[h].at
                /\ go'[h].sub = go[h].sub
                /\ go'[h].sock = go[h].sock
                /\ go'[h].out = "none" => go[h].out = "none"
<1>1. reader' = reader /\ opMu' = opMu /\ go[g].at = "write"
  BY DEF WriteFails, netVars, lockVars
<1>2. Typed(Drained(go[g].sock))
  BY DrainedType
<1>3. \A h \in Goroutines \ {g} : go'[h] = Drained(go[g].sock)[h]
  BY <1>2 DEF WriteFails, Typed
<1>4. go'[g].at = "return" /\ go'[g].sub = Drained(go[g].sock)[g].sub
  BY <1>2 DEF WriteFails, Typed, Operation
<1> QED BY <1>1, <1>3, <1>4, DrainedKeeps

\* A handshake starts by taking the free opMu of its Subscription and ends by
\* releasing it, and nobody else touches it in between.
LEMMA LockStep ==
    ASSUME TypeOK, BusyHasSub, HandshakeHoldsOpMu, Next
    PROVE  BusyHasSub' /\ HandshakeHoldsOpMu'
<1> USE DEF TypeOK, BusyHasSub, HandshakeHoldsOpMu, InHandshake, netVars,
            subVars, lockVars, recVars, Operation
<1>1. ASSUME NEW p \in Callers, NEW s \in Subs, StartSubscribe(p, s)
      PROVE  BusyHasSub' /\ HandshakeHoldsOpMu'
  BY <1>1 DEF StartSubscribe, NoOperation, OnlyGoChanges
<1>2. ASSUME NEW p \in Callers, NEW s \in Subs, StartUnsubscribe(p, s)
      PROVE  BusyHasSub' /\ HandshakeHoldsOpMu'
  BY <1>2 DEF StartUnsubscribe, NoOperation
<1>3. ASSUME NEW p \in Callers, WaitReturns(p)
      PROVE  BusyHasSub' /\ HandshakeHoldsOpMu'
  BY <1>3 DEF WaitReturns, Goto, OnlyGoChanges
<1>4. ASSUME NEW p \in Callers, WaitFails(p)
      PROVE  BusyHasSub' /\ HandshakeHoldsOpMu'
  BY <1>4 DEF WaitFails, Leave, NoOperation
<1>5. ASSUME NEW p \in Callers, LockSubscriptionOpMu(p)
      PROVE  BusyHasSub' /\ HandshakeHoldsOpMu'
  BY <1>5 DEF LockSubscriptionOpMu, Goto
<1>6. ASSUME NEW p \in Callers, NothingToDo(p)
      PROVE  BusyHasSub' /\ HandshakeHoldsOpMu'
  BY <1>6 DEF NothingToDo, Leave, NoOperation
<1>7. ASSUME NEW p \in Callers, BeginUnsubscribe(p)
      PROVE  BusyHasSub' /\ HandshakeHoldsOpMu'
  BY <1>7 DEF BeginUnsubscribe
<1>8. ASSUME NEW p \in Callers, SubscribeReturns(p)
      PROVE  BusyHasSub' /\ HandshakeHoldsOpMu'
  BY <1>8 DEF SubscribeReturns, Leave, NoOperation
<1>9. ASSUME NEW p \in Callers, SubscribeFails(p)
      PROVE  BusyHasSub' /\ HandshakeHoldsOpMu'
  BY <1>9 DEF SubscribeFails, Leave, NoOperation
<1>10. ASSUME NEW p \in Callers, SubscribeRetries(p)
      PROVE  BusyHasSub' /\ HandshakeHoldsOpMu'
  BY <1>10 DEF SubscribeRetries
<1>11. ASSUME NEW p \in Callers, UnsubscribeReturns(p)
      PROVE  BusyHasSub' /\ HandshakeHoldsOpMu'
  BY <1>11 DEF UnsubscribeReturns, Leave, NoOperation
<1>12. ASSUME NEW p \in Callers, UnsubscribeFails(p)
      PROVE  BusyHasSub' /\ HandshakeHoldsOpMu'
  BY <1>12 DEF UnsubscribeFails, Leave, NoOperation
<1>13. ASSUME NEW g \in Goroutines, BeginSubscribe(g)
      PROVE  BusyHasSub' /\ HandshakeHoldsOpMu'
  BY <1>13 DEF BeginSubscribe, Goto
<1>14. ASSUME NEW g \in Goroutines, CallStarts(g)
      PROVE  BusyHasSub' /\ HandshakeHoldsOpMu'
  BY <1>14 DEF CallStarts, Goto, OnlyGoChanges
<1>15. ASSUME NEW g \in Goroutines, EnsureCurrent(g)
      PROVE  BusyHasSub' /\ HandshakeHoldsOpMu'
  BY <1>15 DEF EnsureCurrent, OnlyGoChanges
<1>16. ASSUME NEW g \in Goroutines, EnsureDials(g)
      PROVE  BusyHasSub' /\ HandshakeHoldsOpMu'
  BY <1>16 DEF EnsureDials
<1>17. ASSUME NEW g \in Goroutines, CallFails(g)
      PROVE  BusyHasSub' /\ HandshakeHoldsOpMu'
  BY <1>17 DEF CallFails, Return, OnlyGoChanges
<1>18. ASSUME NEW g \in Goroutines, Write(g)
      PROVE  BusyHasSub' /\ HandshakeHoldsOpMu'
  BY <1>18 DEF Write, Goto, OnlyGoChanges
<1>19. ASSUME NEW g \in Goroutines, WriteFails(g)
      PROVE  BusyHasSub' /\ HandshakeHoldsOpMu'
  <2>1. Typed(go)
    BY DEF Typed
  <2>2. ASSUME NEW h \in Goroutines
        PROVE  /\ go'[h].at # "idle" => go'[h].sub \in Subs
               /\ InHandshake(h)' => opMu'[go'[h].sub] = h
    <3>1. CASE h = g
      BY <1>19, <2>1, <3>1, WriteFailsKeeps
    <3>2. CASE h # g
      <4>1. /\ go'[h].at = go[h].at /\ go'[h].sub = go[h].sub
            /\ go'[h].sock = go[h].sock
            /\ go'[h].out = "none" => go[h].out = "none"
            /\ reader' = reader /\ opMu' = opMu
        BY <1>19, <2>1, <3>2, WriteFailsKeeps
      <4> QED
        BY <4>1
    <3> QED
      BY <3>1, <3>2
  <2> QED
    BY <2>2
<1>20. ASSUME NEW g \in Goroutines, AwaitFails(g)
      PROVE  BusyHasSub' /\ HandshakeHoldsOpMu'
  BY <1>20 DEF AwaitFails, Return, Assignable
<1>21. ASSUME NEW g \in Goroutines, AwaitReturns(g)
      PROVE  BusyHasSub' /\ HandshakeHoldsOpMu'
  BY <1>21 DEF AwaitReturns, Return, OnlyGoChanges
<1>22. ASSUME NEW g \in Goroutines, AwaitSubscribed(g)
      PROVE  BusyHasSub' /\ HandshakeHoldsOpMu'
  BY <1>22 DEF AwaitSubscribed, Goto
<1>23. ASSUME NEW g \in Goroutines, HandleSubscribe(g)
      PROVE  BusyHasSub' /\ HandshakeHoldsOpMu'
  BY <1>23 DEF HandleSubscribe, Return, OnlyGoChanges
<1>24. ASSUME NEW g \in Goroutines, HandleSubscribeFails(g)
      PROVE  BusyHasSub' /\ HandshakeHoldsOpMu'
  BY <1>24 DEF HandleSubscribeFails, OnlyGoChanges
<1>25. ASSUME NEW g \in Goroutines, UnlockOpMu(g)
      PROVE  BusyHasSub' /\ HandshakeHoldsOpMu'
  BY <1>25 DEF UnlockOpMu, Result
<1>26. ASSUME NEW g \in Goroutines, ServeSubscribe(g)
      PROVE  BusyHasSub' /\ HandshakeHoldsOpMu'
  BY <1>26 DEF ServeSubscribe, Answer, Assignable
<1>27. ASSUME NEW g \in Goroutines, ServeUnsubscribe(g)
      PROVE  BusyHasSub' /\ HandshakeHoldsOpMu'
  BY <1>27 DEF ServeUnsubscribe, Answer
<1>28. ASSUME NEW g \in Goroutines, ServeRefusal(g)
      PROVE  BusyHasSub' /\ HandshakeHoldsOpMu'
  BY <1>28 DEF ServeRefusal, Answer
<1>29. ASSUME NEW i \in Restorers, Restored(i)
      PROVE  BusyHasSub' /\ HandshakeHoldsOpMu'
  BY <1>29 DEF Restored, Leave, NoOperation
<1>30. ASSUME NEW i \in Restorers, RestoreInterrupted(i)
      PROVE  BusyHasSub' /\ HandshakeHoldsOpMu'
  BY <1>30 DEF RestoreInterrupted, Leave, NoOperation
<1>31. ASSUME NEW i \in Restorers, RestoreFails(i)
      PROVE  BusyHasSub' /\ HandshakeHoldsOpMu'
  BY <1>31 DEF RestoreFails, Leave, NoOperation
<1>32. ASSUME NEW s \in Sockets, ReadFails(s)
      PROVE  BusyHasSub' /\ HandshakeHoldsOpMu'
  BY <1>32 DEF ReadFails, Drained
<1>33. ASSUME NEW s \in Sockets, ReaderChecks(s)
      PROVE  BusyHasSub' /\ HandshakeHoldsOpMu'
  BY <1>33 DEF ReaderChecks
<1>34. ASSUME NEW s \in Sockets, ReaderReconnects(s)
      PROVE  BusyHasSub' /\ HandshakeHoldsOpMu'
  BY <1>34 DEF ReaderReconnects
<1>35. ASSUME NEW s \in Sockets, Drop(s)
      PROVE  BusyHasSub' /\ HandshakeHoldsOpMu'
  BY <1>35 DEF Drop
<1>36. ASSUME ReconnectTakes
      PROVE  BusyHasSub' /\ HandshakeHoldsOpMu'
  BY <1>36 DEF ReconnectTakes
<1>37. ASSUME ReconnectShuts
      PROVE  BusyHasSub' /\ HandshakeHoldsOpMu'
  <2>1. CloseWebSocket
    BY <1>37 DEF ReconnectShuts
  <2>2. Typed(go)
    BY DEF Typed
  <2> QED
    BY <1>37, <2>1, <2>2, CloseWebSocketKeeps DEF ReconnectShuts
<1>38. ASSUME ReconnectDials
      PROVE  BusyHasSub' /\ HandshakeHoldsOpMu'
  BY <1>38 DEF ReconnectDials
<1>39. ASSUME ReconnectAbandons
      PROVE  BusyHasSub' /\ HandshakeHoldsOpMu'
  BY <1>39 DEF ReconnectAbandons
<1>40. ASSUME ReconnectPublishes
      PROVE  BusyHasSub' /\ HandshakeHoldsOpMu'
  BY <1>40 DEF ReconnectPublishes, StartRestorers, NoOperation
<1>41. ASSUME ReconnectJoins
      PROVE  BusyHasSub' /\ HandshakeHoldsOpMu'
  BY <1>41 DEF ReconnectJoins
<1>42. ASSUME ReconnectRetries
      PROVE  BusyHasSub' /\ HandshakeHoldsOpMu'
  BY <1>42 DEF ReconnectRetries
<1>43. ASSUME ReconnectSweeps
      PROVE  BusyHasSub' /\ HandshakeHoldsOpMu'
  BY <1>43 DEF ReconnectSweeps
<1>44. ASSUME ReconnectFinishes
      PROVE  BusyHasSub' /\ HandshakeHoldsOpMu'
  BY <1>44 DEF ReconnectFinishes
<1>45. ASSUME CloseCancels
      PROVE  BusyHasSub' /\ HandshakeHoldsOpMu'
  BY <1>45 DEF CloseCancels
<1>46. ASSUME CloseShuts
      PROVE  BusyHasSub' /\ HandshakeHoldsOpMu'
  <2>1. CloseWebSocket
    BY <1>46 DEF CloseShuts
  <2>2. Typed(go)
    BY DEF Typed
  <2> QED
    BY <1>46, <2>1, <2>2, CloseWebSocketKeeps DEF CloseShuts
<1>47. ASSUME CloseSweeps
      PROVE  BusyHasSub' /\ HandshakeHoldsOpMu'
  BY <1>47 DEF CloseSweeps
<1>48. CASE Rest
  BY <1>48 DEF Rest, vars
<1> QED
  BY <1>1, <1>2, <1>3, <1>4, <1>5, <1>6, <1>7, <1>8, <1>9, <1>10, <1>11,
     <1>12, <1>13, <1>14, <1>15, <1>16, <1>17, <1>18, <1>19, <1>20, <1>21,
     <1>22, <1>23, <1>24, <1>25, <1>26, <1>27, <1>28, <1>29, <1>30, <1>31,
     <1>32, <1>33, <1>34, <1>35, <1>36, <1>37, <1>38, <1>39, <1>40, <1>41,
     <1>42, <1>43, <1>44, <1>45, <1>46, <1>47, <1>48 DEF Next, PublicSteps,
     CallSteps, RestorerSteps, ReaderSteps, ReconnectSteps, CloseSteps

\* Sockets are dialed in order, and a socket outlives its reader only when it
\* is down.
LEMMA SocketsStep ==
    ASSUME TypeOK, SocketsInv, Next
    PROVE  SocketsInv'
<1> USE DEF SocketsInv, UndialedUnused, OpenIsRead, CurrentHasReader,
            FreshWasDialed, TypeOK, netVars, subVars, lockVars, recVars
<1>1. ASSUME NEW p \in Callers, NEW s \in Subs, StartSubscribe(p, s)
      PROVE  SocketsInv'
  BY <1>1 DEF StartSubscribe, OnlyGoChanges
<1>2. ASSUME NEW p \in Callers, NEW s \in Subs, StartUnsubscribe(p, s)
      PROVE  SocketsInv'
  BY <1>2 DEF StartUnsubscribe
<1>3. ASSUME NEW p \in Callers, WaitReturns(p)
      PROVE  SocketsInv'
  BY <1>3 DEF WaitReturns, OnlyGoChanges
<1>4. ASSUME NEW p \in Callers, WaitFails(p)
      PROVE  SocketsInv'
  BY <1>4 DEF WaitFails
<1>5. ASSUME NEW p \in Callers, LockSubscriptionOpMu(p)
      PROVE  SocketsInv'
  BY <1>5 DEF LockSubscriptionOpMu
<1>6. ASSUME NEW p \in Callers, NothingToDo(p)
      PROVE  SocketsInv'
  BY <1>6 DEF NothingToDo
<1>7. ASSUME NEW p \in Callers, BeginUnsubscribe(p)
      PROVE  SocketsInv'
  BY <1>7 DEF BeginUnsubscribe
<1>8. ASSUME NEW p \in Callers, SubscribeReturns(p)
      PROVE  SocketsInv'
  BY <1>8 DEF SubscribeReturns
<1>9. ASSUME NEW p \in Callers, SubscribeFails(p)
      PROVE  SocketsInv'
  BY <1>9 DEF SubscribeFails
<1>10. ASSUME NEW p \in Callers, SubscribeRetries(p)
      PROVE  SocketsInv'
  BY <1>10 DEF SubscribeRetries
<1>11. ASSUME NEW p \in Callers, UnsubscribeReturns(p)
      PROVE  SocketsInv'
  BY <1>11 DEF UnsubscribeReturns
<1>12. ASSUME NEW p \in Callers, UnsubscribeFails(p)
      PROVE  SocketsInv'
  BY <1>12 DEF UnsubscribeFails
<1>13. ASSUME NEW g \in Goroutines, BeginSubscribe(g)
      PROVE  SocketsInv'
  BY <1>13 DEF BeginSubscribe
<1>14. ASSUME NEW g \in Goroutines, CallStarts(g)
      PROVE  SocketsInv'
  BY <1>14 DEF CallStarts, OnlyGoChanges
<1>15. ASSUME NEW g \in Goroutines, EnsureCurrent(g)
      PROVE  SocketsInv'
  BY <1>15 DEF EnsureCurrent, OnlyGoChanges
<1>16. ASSUME NEW g \in Goroutines, EnsureDials(g)
      PROVE  SocketsInv'
  BY <1>16 DEF EnsureDials, Dialed
<1>17. ASSUME NEW g \in Goroutines, CallFails(g)
      PROVE  SocketsInv'
  BY <1>17 DEF CallFails, OnlyGoChanges
<1>18. ASSUME NEW g \in Goroutines, Write(g)
      PROVE  SocketsInv'
  BY <1>18 DEF Write, OnlyGoChanges
<1>19. ASSUME NEW g \in Goroutines, WriteFails(g)
      PROVE  SocketsInv'
  BY <1>19 DEF WriteFails, StartReconnect
<1>20. ASSUME NEW g \in Goroutines, AwaitFails(g)
      PROVE  SocketsInv'
  BY <1>20 DEF AwaitFails
<1>21. ASSUME NEW g \in Goroutines, AwaitReturns(g)
      PROVE  SocketsInv'
  BY <1>21 DEF AwaitReturns, OnlyGoChanges
<1>22. ASSUME NEW g \in Goroutines, AwaitSubscribed(g)
      PROVE  SocketsInv'
  BY <1>22 DEF AwaitSubscribed
<1>23. ASSUME NEW g \in Goroutines, HandleSubscribe(g)
      PROVE  SocketsInv'
  BY <1>23 DEF HandleSubscribe, OnlyGoChanges
<1>24. ASSUME NEW g \in Goroutines, HandleSubscribeFails(g)
      PROVE  SocketsInv'
  BY <1>24 DEF HandleSubscribeFails, OnlyGoChanges
<1>25. ASSUME NEW g \in Goroutines, UnlockOpMu(g)
      PROVE  SocketsInv'
  BY <1>25 DEF UnlockOpMu
<1>26. ASSUME NEW g \in Goroutines, ServeSubscribe(g)
      PROVE  SocketsInv'
  BY <1>26 DEF ServeSubscribe, Answer
<1>27. ASSUME NEW g \in Goroutines, ServeUnsubscribe(g)
      PROVE  SocketsInv'
  BY <1>27 DEF ServeUnsubscribe, Answer
<1>28. ASSUME NEW g \in Goroutines, ServeRefusal(g)
      PROVE  SocketsInv'
  BY <1>28 DEF ServeRefusal, Answer
<1>29. ASSUME NEW i \in Restorers, Restored(i)
      PROVE  SocketsInv'
  BY <1>29 DEF Restored
<1>30. ASSUME NEW i \in Restorers, RestoreInterrupted(i)
      PROVE  SocketsInv'
  BY <1>30 DEF RestoreInterrupted
<1>31. ASSUME NEW i \in Restorers, RestoreFails(i)
      PROVE  SocketsInv'
  BY <1>31 DEF RestoreFails
<1>32. ASSUME NEW s \in Sockets, ReadFails(s)
      PROVE  SocketsInv'
  BY <1>32 DEF ReadFails
<1>33. ASSUME NEW s \in Sockets, ReaderChecks(s)
      PROVE  SocketsInv'
  BY <1>33 DEF ReaderChecks
<1>34. ASSUME NEW s \in Sockets, ReaderReconnects(s)
      PROVE  SocketsInv'
  BY <1>34 DEF ReaderReconnects, StartReconnect
<1>35. ASSUME NEW s \in Sockets, Drop(s)
      PROVE  SocketsInv'
  BY <1>35 DEF Drop, Down
<1>36. ASSUME ReconnectTakes
      PROVE  SocketsInv'
  BY <1>36 DEF ReconnectTakes
<1>37. ASSUME ReconnectShuts
      PROVE  SocketsInv'
  BY <1>37 DEF ReconnectShuts, CloseWebSocket, Down
<1>38. ASSUME ReconnectDials
      PROVE  SocketsInv'
  BY <1>38 DEF ReconnectDials, Dialed
<1>39. ASSUME ReconnectAbandons
      PROVE  SocketsInv'
  BY <1>39 DEF ReconnectAbandons, Down
<1>40. ASSUME ReconnectPublishes
      PROVE  SocketsInv'
  BY <1>40 DEF ReconnectPublishes
<1>41. ASSUME ReconnectJoins
      PROVE  SocketsInv'
  BY <1>41 DEF ReconnectJoins
<1>42. ASSUME ReconnectRetries
      PROVE  SocketsInv'
  BY <1>42 DEF ReconnectRetries
<1>43. ASSUME ReconnectSweeps
      PROVE  SocketsInv'
  BY <1>43 DEF ReconnectSweeps
<1>44. ASSUME ReconnectFinishes
      PROVE  SocketsInv'
  BY <1>44 DEF ReconnectFinishes
<1>45. ASSUME CloseCancels
      PROVE  SocketsInv'
  BY <1>45 DEF CloseCancels
<1>46. ASSUME CloseShuts
      PROVE  SocketsInv'
  BY <1>46 DEF CloseShuts, CloseWebSocket, Down
<1>47. ASSUME CloseSweeps
      PROVE  SocketsInv'
  BY <1>47 DEF CloseSweeps
<1>48. CASE Rest
  BY <1>48 DEF Rest, vars
<1> QED
  BY <1>1, <1>2, <1>3, <1>4, <1>5, <1>6, <1>7, <1>8, <1>9, <1>10, <1>11,
     <1>12, <1>13, <1>14, <1>15, <1>16, <1>17, <1>18, <1>19, <1>20, <1>21,
     <1>22, <1>23, <1>24, <1>25, <1>26, <1>27, <1>28, <1>29, <1>30, <1>31,
     <1>32, <1>33, <1>34, <1>35, <1>36, <1>37, <1>38, <1>39, <1>40, <1>41,
     <1>42, <1>43, <1>44, <1>45, <1>46, <1>47, <1>48 DEF Next, PublicSteps,
     CallSteps, RestorerSteps, ReaderSteps, ReconnectSteps, CloseSteps

\* A call is registered on a socket that is being read, and whoever stops
\* reading the socket wakes it.
LEMMA CallStep ==
    ASSUME TypeOK, SocketsInv, CallHasReader, NoOrphanCall, Next
    PROVE  CallHasReader' /\ NoOrphanCall'
<1> USE DEF SocketsInv, UndialedUnused, OpenIsRead, CurrentHasReader,
            CallHasReader, NoOrphanCall, Operation, TypeOK, netVars,
            subVars, lockVars, recVars
<1>1. ASSUME NEW p \in Callers, NEW s \in Subs, StartSubscribe(p, s)
      PROVE  CallHasReader' /\ NoOrphanCall'
  BY <1>1 DEF StartSubscribe, NoOperation, OnlyGoChanges
<1>2. ASSUME NEW p \in Callers, NEW s \in Subs, StartUnsubscribe(p, s)
      PROVE  CallHasReader' /\ NoOrphanCall'
  BY <1>2 DEF StartUnsubscribe, NoOperation
<1>3. ASSUME NEW p \in Callers, WaitReturns(p)
      PROVE  CallHasReader' /\ NoOrphanCall'
  BY <1>3 DEF WaitReturns, Goto, OnlyGoChanges
<1>4. ASSUME NEW p \in Callers, WaitFails(p)
      PROVE  CallHasReader' /\ NoOrphanCall'
  BY <1>4 DEF WaitFails, Leave, NoOperation
<1>5. ASSUME NEW p \in Callers, LockSubscriptionOpMu(p)
      PROVE  CallHasReader' /\ NoOrphanCall'
  BY <1>5 DEF LockSubscriptionOpMu, Goto
<1>6. ASSUME NEW p \in Callers, NothingToDo(p)
      PROVE  CallHasReader' /\ NoOrphanCall'
  BY <1>6 DEF NothingToDo, Leave, NoOperation
<1>7. ASSUME NEW p \in Callers, BeginUnsubscribe(p)
      PROVE  CallHasReader' /\ NoOrphanCall'
  BY <1>7 DEF BeginUnsubscribe
<1>8. ASSUME NEW p \in Callers, SubscribeReturns(p)
      PROVE  CallHasReader' /\ NoOrphanCall'
  BY <1>8 DEF SubscribeReturns, Leave, NoOperation
<1>9. ASSUME NEW p \in Callers, SubscribeFails(p)
      PROVE  CallHasReader' /\ NoOrphanCall'
  BY <1>9 DEF SubscribeFails, Leave, NoOperation
<1>10. ASSUME NEW p \in Callers, SubscribeRetries(p)
      PROVE  CallHasReader' /\ NoOrphanCall'
  BY <1>10 DEF SubscribeRetries
<1>11. ASSUME NEW p \in Callers, UnsubscribeReturns(p)
      PROVE  CallHasReader' /\ NoOrphanCall'
  BY <1>11 DEF UnsubscribeReturns, Leave, NoOperation
<1>12. ASSUME NEW p \in Callers, UnsubscribeFails(p)
      PROVE  CallHasReader' /\ NoOrphanCall'
  BY <1>12 DEF UnsubscribeFails, Leave, NoOperation
<1>13. ASSUME NEW g \in Goroutines, BeginSubscribe(g)
      PROVE  CallHasReader' /\ NoOrphanCall'
  BY <1>13 DEF BeginSubscribe, Goto
<1>14. ASSUME NEW g \in Goroutines, CallStarts(g)
      PROVE  CallHasReader' /\ NoOrphanCall'
  BY <1>14 DEF CallStarts, Goto, OnlyGoChanges
<1>15. ASSUME NEW g \in Goroutines, EnsureCurrent(g)
      PROVE  CallHasReader' /\ NoOrphanCall'
  BY <1>15 DEF EnsureCurrent, OnlyGoChanges
<1>16. ASSUME NEW g \in Goroutines, EnsureDials(g)
      PROVE  CallHasReader' /\ NoOrphanCall'
  BY <1>16 DEF EnsureDials, Dialed
<1>17. ASSUME NEW g \in Goroutines, CallFails(g)
      PROVE  CallHasReader' /\ NoOrphanCall'
  BY <1>17 DEF CallFails, Return, OnlyGoChanges
<1>18. ASSUME NEW g \in Goroutines, Write(g)
      PROVE  CallHasReader' /\ NoOrphanCall'
  BY <1>18 DEF Write, Goto, OnlyGoChanges
<1>19. ASSUME NEW g \in Goroutines, WriteFails(g)
      PROVE  CallHasReader' /\ NoOrphanCall'
  <2>1. Typed(go)
    BY DEF Typed
  <2>2. ASSUME NEW h \in Goroutines
        PROVE  /\ go'[h].at \in {"write", "await"} =>
                    go'[h].sock \in Sockets /\ reader'[go'[h].sock] # "none"
               /\ go'[h].at = "await" /\ go'[h].out = "none" =>
                    reader'[go'[h].sock] = "reading"
    <3>1. CASE h = g
      BY <1>19, <2>1, <3>1, WriteFailsKeeps
    <3>2. CASE h # g
      <4>1. /\ go'[h].at = go[h].at /\ go'[h].sub = go[h].sub
            /\ go'[h].sock = go[h].sock
            /\ go'[h].out = "none" => go[h].out = "none"
            /\ reader' = reader /\ opMu' = opMu
        BY <1>19, <2>1, <3>2, WriteFailsKeeps
      <4> QED
        BY <4>1
    <3> QED
      BY <3>1, <3>2
  <2> QED
    BY <2>2
<1>20. ASSUME NEW g \in Goroutines, AwaitFails(g)
      PROVE  CallHasReader' /\ NoOrphanCall'
  BY <1>20 DEF AwaitFails, Return, Assignable
<1>21. ASSUME NEW g \in Goroutines, AwaitReturns(g)
      PROVE  CallHasReader' /\ NoOrphanCall'
  BY <1>21 DEF AwaitReturns, Return, OnlyGoChanges
<1>22. ASSUME NEW g \in Goroutines, AwaitSubscribed(g)
      PROVE  CallHasReader' /\ NoOrphanCall'
  BY <1>22 DEF AwaitSubscribed, Goto
<1>23. ASSUME NEW g \in Goroutines, HandleSubscribe(g)
      PROVE  CallHasReader' /\ NoOrphanCall'
  BY <1>23 DEF HandleSubscribe, Return, OnlyGoChanges
<1>24. ASSUME NEW g \in Goroutines, HandleSubscribeFails(g)
      PROVE  CallHasReader' /\ NoOrphanCall'
  BY <1>24 DEF HandleSubscribeFails, OnlyGoChanges
<1>25. ASSUME NEW g \in Goroutines, UnlockOpMu(g)
      PROVE  CallHasReader' /\ NoOrphanCall'
  BY <1>25 DEF UnlockOpMu, Result
<1>26. ASSUME NEW g \in Goroutines, ServeSubscribe(g)
      PROVE  CallHasReader' /\ NoOrphanCall'
  BY <1>26 DEF ServeSubscribe, Answer, Assignable
<1>27. ASSUME NEW g \in Goroutines, ServeUnsubscribe(g)
      PROVE  CallHasReader' /\ NoOrphanCall'
  BY <1>27 DEF ServeUnsubscribe, Answer
<1>28. ASSUME NEW g \in Goroutines, ServeRefusal(g)
      PROVE  CallHasReader' /\ NoOrphanCall'
  BY <1>28 DEF ServeRefusal, Answer
<1>29. ASSUME NEW i \in Restorers, Restored(i)
      PROVE  CallHasReader' /\ NoOrphanCall'
  BY <1>29 DEF Restored, Leave, NoOperation
<1>30. ASSUME NEW i \in Restorers, RestoreInterrupted(i)
      PROVE  CallHasReader' /\ NoOrphanCall'
  BY <1>30 DEF RestoreInterrupted, Leave, NoOperation
<1>31. ASSUME NEW i \in Restorers, RestoreFails(i)
      PROVE  CallHasReader' /\ NoOrphanCall'
  BY <1>31 DEF RestoreFails, Leave, NoOperation
<1>32. ASSUME NEW s \in Sockets, ReadFails(s)
      PROVE  CallHasReader' /\ NoOrphanCall'
  BY <1>32 DEF ReadFails, Drained
<1>33. ASSUME NEW s \in Sockets, ReaderChecks(s)
      PROVE  CallHasReader' /\ NoOrphanCall'
  BY <1>33 DEF ReaderChecks
<1>34. ASSUME NEW s \in Sockets, ReaderReconnects(s)
      PROVE  CallHasReader' /\ NoOrphanCall'
  BY <1>34 DEF ReaderReconnects, StartReconnect
<1>35. ASSUME NEW s \in Sockets, Drop(s)
      PROVE  CallHasReader' /\ NoOrphanCall'
  BY <1>35 DEF Drop, Down
<1>36. ASSUME ReconnectTakes
      PROVE  CallHasReader' /\ NoOrphanCall'
  BY <1>36 DEF ReconnectTakes
<1>37. ASSUME ReconnectShuts
      PROVE  CallHasReader' /\ NoOrphanCall'
  <2>1. CloseWebSocket
    BY <1>37 DEF ReconnectShuts
  <2>2. Typed(go)
    BY DEF Typed
  <2> QED
    BY <1>37, <2>1, <2>2, CloseWebSocketKeeps DEF ReconnectShuts,
       CloseWebSocket, Down
<1>38. ASSUME ReconnectDials
      PROVE  CallHasReader' /\ NoOrphanCall'
  BY <1>38 DEF ReconnectDials, Dialed
<1>39. ASSUME ReconnectAbandons
      PROVE  CallHasReader' /\ NoOrphanCall'
  BY <1>39 DEF ReconnectAbandons, Down
<1>40. ASSUME ReconnectPublishes
      PROVE  CallHasReader' /\ NoOrphanCall'
  BY <1>40 DEF ReconnectPublishes, StartRestorers, NoOperation
<1>41. ASSUME ReconnectJoins
      PROVE  CallHasReader' /\ NoOrphanCall'
  BY <1>41 DEF ReconnectJoins
<1>42. ASSUME ReconnectRetries
      PROVE  CallHasReader' /\ NoOrphanCall'
  BY <1>42 DEF ReconnectRetries
<1>43. ASSUME ReconnectSweeps
      PROVE  CallHasReader' /\ NoOrphanCall'
  BY <1>43 DEF ReconnectSweeps
<1>44. ASSUME ReconnectFinishes
      PROVE  CallHasReader' /\ NoOrphanCall'
  BY <1>44 DEF ReconnectFinishes
<1>45. ASSUME CloseCancels
      PROVE  CallHasReader' /\ NoOrphanCall'
  BY <1>45 DEF CloseCancels
<1>46. ASSUME CloseShuts
      PROVE  CallHasReader' /\ NoOrphanCall'
  <2>1. CloseWebSocket
    BY <1>46 DEF CloseShuts
  <2>2. Typed(go)
    BY DEF Typed
  <2> QED
    BY <1>46, <2>1, <2>2, CloseWebSocketKeeps DEF CloseShuts,
       CloseWebSocket, Down
<1>47. ASSUME CloseSweeps
      PROVE  CallHasReader' /\ NoOrphanCall'
  BY <1>47 DEF CloseSweeps
<1>48. CASE Rest
  BY <1>48 DEF Rest, vars
<1> QED
  BY <1>1, <1>2, <1>3, <1>4, <1>5, <1>6, <1>7, <1>8, <1>9, <1>10, <1>11,
     <1>12, <1>13, <1>14, <1>15, <1>16, <1>17, <1>18, <1>19, <1>20, <1>21,
     <1>22, <1>23, <1>24, <1>25, <1>26, <1>27, <1>28, <1>29, <1>30, <1>31,
     <1>32, <1>33, <1>34, <1>35, <1>36, <1>37, <1>38, <1>39, <1>40, <1>41,
     <1>42, <1>43, <1>44, <1>45, <1>46, <1>47, <1>48 DEF Next, PublicSteps,
     CallSteps, RestorerSteps, ReaderSteps, ReconnectSteps, CloseSteps

-----------------------------------------------------------------------------
(* The theorems.                                                           *)

\* Dial establishes the invariant.
LEMMA InitInv == Init => Inv
<1> SUFFICES ASSUME Init PROVE Inv
  OBVIOUS
<1> USE DEF Init
<1>1. TypeOK
  <2>1. 0 \in 0..MaxSockets /\ 1 \in 0..MaxSockets /\ 1 \in Sockets
    OBVIOUS
  <2>2. go \in [Goroutines -> Operation]
    BY NoOperationType
  <2>3. server \in [Sockets -> [Ids -> Subs \cup {NoSub}]]
    OBVIOUS
  <2> QED
    BY <2>1, <2>2, <2>3 DEF TypeOK
<1>2. BusyHasSub /\ HandshakeHoldsOpMu /\ CallHasReader /\ NoOrphanCall
  BY DEF BusyHasSub, HandshakeHoldsOpMu, InHandshake, CallHasReader,
         NoOrphanCall, NoOperation
<1>3. SocketsInv
  BY DEF SocketsInv, UndialedUnused, OpenIsRead, CurrentHasReader,
         FreshWasDialed
<1> QED
  BY <1>1, <1>2, <1>3 DEF Inv

\* Every step, and stuttering, preserves the invariant.
LEMMA InvStep == Inv /\ [Next]_vars => Inv'
<1> SUFFICES ASSUME Inv, [Next]_vars PROVE Inv'
  OBVIOUS
<1>1. CASE Next
  BY <1>1, TypeStep, LockStep, SocketsStep, CallStep DEF Inv
<1>2. CASE UNCHANGED vars
  <2>1. TypeOK'
    BY <1>2 DEF Inv, TypeOK, vars, netVars, subVars, lockVars, recVars
  <2>2. /\ BusyHasSub' /\ HandshakeHoldsOpMu'
        /\ CallHasReader' /\ NoOrphanCall'
    BY <1>2 DEF Inv, BusyHasSub, HandshakeHoldsOpMu, InHandshake,
                CallHasReader, NoOrphanCall, vars, netVars, lockVars
  <2>3. SocketsInv'
    BY <1>2 DEF Inv, SocketsInv, UndialedUnused, OpenIsRead, CurrentHasReader,
                FreshWasDialed, vars, netVars, recVars
  <2> QED
    BY <2>1, <2>2, <2>3 DEF Inv
<1> QED
  BY <1>1, <1>2

\* Inv holds in every reachable state.
THEOREM Invariance == Spec => []Inv
BY InitInv, InvStep, PTL DEF Spec

\* Type correctness: every variable of the Conn keeps its type.
THEOREM TypeCorrect == Spec => []TypeOK
<1>1. Inv => TypeOK
  BY DEF Inv
<1> QED
  BY Invariance, <1>1, PTL

\* No call ever waits for an answer on a socket that nobody reads: read, write
\* and closeWebSocket wake whoever waits there.
THEOREM NoOrphanCallHolds == Spec => []NoOrphanCall
<1>1. Inv => NoOrphanCall
  BY DEF Inv
<1> QED
  BY Invariance, <1>1, PTL

\* Two goroutines are never in the middle of a handshake for the same
\* Subscription, because each of them holds its opMu.
THEOREM OneHandshakeHolds == Spec => []OneHandshake
<1>1. Inv => OneHandshake
  BY DEF Inv, HandshakeHoldsOpMu, OneHandshake
<1> QED
  BY Invariance, <1>1, PTL

-----------------------------------------------------------------------------
(* What a step does to the table of operations, without the EXCEPTs.       *)

\* Goroutine h keeps its operation, except that its call may be drained.
Stays(h) ==
    /\ go'[h].at = go[h].at /\ go'[h].op = go[h].op /\ go'[h].sub = go[h].sub
    /\ go'[h].id = go[h].id /\ go'[h].sock = go[h].sock
    /\ \/ go'[h].out = go[h].out
       \/ /\ go[h].at = "await" /\ go[h].out = "none"
          /\ go'[h].out = "drained" /\ sock'[go[h].sock] # "open"

\* Every other goroutine keeps its operation.
OthersStay(g) == \A h \in Goroutines : h # g => Stays(h)

\* Goroutine g goes on with the operation that it is in.
Becomes(g, place, kind, i, result, c) ==
    /\ go'[g].at = place /\ go'[g].op = kind /\ go'[g].id = i
    /\ go'[g].out = result /\ go'[g].sock = c /\ go'[g].sub = go[g].sub
    /\ OthersStay(g)

\* The operation of goroutine g is over.
Leaves(g) ==
    /\ go'[g].at = "idle" /\ go'[g].op = "none" /\ go'[g].out = "none"
    /\ go'[g].sub = NoSub
    /\ OthersStay(g)

\* Storing an operation changes that of one goroutine.
LEMMA Stored ==
    ASSUME Typed(go), NEW g \in Goroutines, NEW o, go' = [go EXCEPT ![g] = o]
    PROVE  go'[g] = o /\ OthersStay(g)
<1>1. go'[g] = o /\ \A h \in Goroutines : h # g => go'[h] = go[h]
  BY DEF Typed
<1> QED BY <1>1 DEF OthersStay, Stays

\* What each shape of an update does to the operation it updates.
LEMMA MoveEffects ==
    ASSUME Typed(go), NEW g \in Goroutines, NEW place,
           go' = [go EXCEPT ![g].at = place]
    PROVE  Becomes(g, place, go[g].op, go[g].id, go[g].out, go[g].sock)
<1>1. go[g] \in Operation
  BY FieldTypes
<1>2. go'[g] = [go[g] EXCEPT !.at = place]
  BY DEF Typed
<1>3. OthersStay(g)
  BY DEF Typed, OthersStay, Stays
<1>4. /\ go'[g].at = place /\ go'[g].op = go[g].op /\ go'[g].id = go[g].id
      /\ go'[g].out = go[g].out /\ go'[g].sock = go[g].sock
      /\ go'[g].sub = go[g].sub
  BY <1>1, <1>2 DEF Operation
<1> QED BY <1>3, <1>4 DEF Becomes

\* ensureWebSocket: the call goes on, on socket s.
LEMMA EnsureEffects ==
    ASSUME Typed(go), NEW g \in Goroutines, NEW place, NEW s,
           go' = [go EXCEPT ![g].at = place, ![g].sock = s]
    PROVE  Becomes(g, place, go[g].op, go[g].id, go[g].out, s)
<1>1. go[g] \in Operation
  BY FieldTypes
<1>2. go'[g] = [go[g] EXCEPT !.at = place, !.sock = s]
  BY DEF Typed
<1>3. OthersStay(g)
  BY DEF Typed, OthersStay, Stays
<1>4. /\ go'[g].at = place /\ go'[g].op = go[g].op /\ go'[g].id = go[g].id
      /\ go'[g].out = go[g].out /\ go'[g].sock = s
      /\ go'[g].sub = go[g].sub
  BY <1>1, <1>2 DEF Operation
<1> QED BY <1>3, <1>4 DEF Becomes

\* The handshake of an Unsubscribe begins with the id it will send.
LEMMA BeginEffects ==
    ASSUME Typed(go), NEW g \in Goroutines, NEW place,
           NEW i \in Ids \cup {NoId},
           go' = [go EXCEPT ![g].at = place, ![g].id = i]
    PROVE  Becomes(g, place, go[g].op, i, go[g].out, go[g].sock)
<1>1. go[g] \in Operation
  BY FieldTypes
<1>2. go'[g] = [go[g] EXCEPT !.at = place, !.id = i]
  BY DEF Typed
<1>3. OthersStay(g)
  BY DEF Typed, OthersStay, Stays
<1>4. ASSUME NEW o \in Operation, NEW n, n = [o EXCEPT !.at = place, !.id = i]
      PROVE  /\ n.at = place /\ n.op = o.op /\ n.id = i
             /\ n.out = o.out /\ n.sock = o.sock
             /\ n.sub = o.sub
  BY <1>4 DEF Operation
<1>5. /\ go'[g].at = place /\ go'[g].op = go[g].op /\ go'[g].id = i
      /\ go'[g].out = go[g].out /\ go'[g].sock = go[g].sock
      /\ go'[g].sub = go[g].sub
  BY <1>1, <1>2, <1>4
<1> QED BY <1>3, <1>5 DEF Becomes

\* The call is over, with a result.
LEMMA EndEffects ==
    ASSUME Typed(go), NEW g \in Goroutines, NEW place, NEW result,
           go' = [go EXCEPT ![g].at = place, ![g].out = result]
    PROVE  Becomes(g, place, go[g].op, go[g].id, result, go[g].sock)
<1>1. go[g] \in Operation
  BY FieldTypes
<1>2. go'[g] = [go[g] EXCEPT !.at = place, !.out = result]
  BY DEF Typed
<1>3. OthersStay(g)
  BY DEF Typed, OthersStay, Stays
<1>4. /\ go'[g].at = place /\ go'[g].op = go[g].op /\ go'[g].id = go[g].id
      /\ go'[g].out = result /\ go'[g].sock = go[g].sock
      /\ go'[g].sub = go[g].sub
  BY <1>1, <1>2 DEF Operation
<1> QED BY <1>3, <1>4 DEF Becomes

\* An interrupted Subscribe starts again, without a socket.
LEMMA RetryEffects ==
    ASSUME Typed(go), NEW g \in Goroutines, NEW place,
           NEW result, NEW s,
           go' = [go EXCEPT ![g].at = place, ![g].out = result, ![g].sock = s]
    PROVE  Becomes(g, place, go[g].op, go[g].id, result, s)
<1>1. go[g] \in Operation
  BY FieldTypes
<1>2. go'[g] = [go[g] EXCEPT !.at = place, !.out = result, !.sock = s]
  BY DEF Typed
<1>3. OthersStay(g)
  BY DEF Typed, OthersStay, Stays
<1>4. ASSUME NEW o \in Operation, NEW n, 
             n = [o EXCEPT !.at = place, !.out = result, !.sock = s]
      PROVE  /\ n.at = place /\ n.op = o.op /\ n.id = o.id
             /\ n.out = result /\ n.sock = s
             /\ n.sub = o.sub
  BY <1>4 DEF Operation
<1>5. /\ go'[g].at = place /\ go'[g].op = go[g].op /\ go'[g].id = go[g].id
      /\ go'[g].out = result /\ go'[g].sock = s
      /\ go'[g].sub = go[g].sub
  BY <1>1, <1>2, <1>4
<1> QED BY <1>3, <1>5 DEF Becomes

\* A subscribe turns into the unsubscribe that cleans it up, or is settled.
LEMMA TurnEffects ==
    ASSUME Typed(go), NEW g \in Goroutines, NEW place, NEW kind, NEW result,
           go' = [go EXCEPT ![g].at = place, ![g].op = kind, ![g].out = result]
    PROVE  Becomes(g, place, kind, go[g].id, result, go[g].sock)
<1>1. go[g] \in Operation
  BY FieldTypes
<1>2. go'[g] = [go[g] EXCEPT !.at = place, !.op = kind, !.out = result]
  BY DEF Typed
<1>3. OthersStay(g)
  BY DEF Typed, OthersStay, Stays
<1>4. /\ go'[g].at = place /\ go'[g].op = kind /\ go'[g].id = go[g].id
      /\ go'[g].out = result /\ go'[g].sock = go[g].sock
      /\ go'[g].sub = go[g].sub
  BY <1>1, <1>2 DEF Operation
<1> QED BY <1>3, <1>4 DEF Becomes

\* The answer to a call is there.
LEMMA AnswerEffects ==
    ASSUME Typed(go), NEW g \in Goroutines, NEW result,
           go' = [go EXCEPT ![g].out = result]
    PROVE  Becomes(g, go[g].at, go[g].op, go[g].id, result, go[g].sock)
<1>1. go[g] \in Operation
  BY FieldTypes
<1>2. go'[g] = [go[g] EXCEPT !.out = result]
  BY DEF Typed
<1>3. OthersStay(g)
  BY DEF Typed, OthersStay, Stays
<1>4. /\ go'[g].at = go[g].at /\ go'[g].op = go[g].op /\ go'[g].id = go[g].id
      /\ go'[g].out = result /\ go'[g].sock = go[g].sock
      /\ go'[g].sub = go[g].sub
  BY <1>1, <1>2 DEF Operation
<1> QED BY <1>3, <1>4 DEF Becomes

\* The answer to a subscribe request brings an id.
LEMMA AssignEffects ==
    ASSUME Typed(go), NEW g \in Goroutines, NEW result,
           NEW i \in Ids \cup {NoId},
           go' = [go EXCEPT ![g].out = result, ![g].id = i]
    PROVE  Becomes(g, go[g].at, go[g].op, i, result, go[g].sock)
<1>1. go[g] \in Operation
  BY FieldTypes
<1>2. go'[g] = [go[g] EXCEPT !.out = result, !.id = i]
  BY DEF Typed
<1>3. OthersStay(g)
  BY DEF Typed, OthersStay, Stays
<1>4. ASSUME NEW o \in Operation, NEW n,
             n = [o EXCEPT !.out = result, !.id = i]
      PROVE  /\ n.at = o.at /\ n.op = o.op /\ n.id = i
             /\ n.out = result /\ n.sock = o.sock
             /\ n.sub = o.sub
  BY <1>4 DEF Operation
<1>5. /\ go'[g].at = go[g].at /\ go'[g].op = go[g].op /\ go'[g].id = i
      /\ go'[g].out = result /\ go'[g].sock = go[g].sock
      /\ go'[g].sub = go[g].sub
  BY <1>1, <1>2, <1>4
<1> QED BY <1>3, <1>5 DEF Becomes

\* A caller, or a restorer, is through.
LEMMA LeaveEffects ==
    ASSUME Typed(go), NEW g \in Goroutines, Leave(g) PROVE Leaves(g)
<1>1. go'[g] = NoOperation /\ OthersStay(g)
  BY Stored DEF Leave
<1> QED BY <1>1 DEF Leaves, NoOperation

\* Calls that are drained stay where they are.
LEMMA DrainedStays ==
    ASSUME Typed(go), NEW s, NEW h \in Goroutines, go'[h] = Drained(s)[h],
           sock'[s] # "open"
    PROVE  Stays(h)
<1>1. CASE go[h].at = "await" /\ go[h].sock = s /\ go[h].out = "none"
  <2>1. go'[h] = [go[h] EXCEPT !.out = "drained"]
    BY <1>1 DEF Drained
  <2> QED BY <1>1, <2>1, FieldTypes DEF Stays, Operation
<1>2. CASE ~(go[h].at = "await" /\ go[h].sock = s /\ go[h].out = "none")
  <2>1. go'[h] = go[h]
    BY <1>2 DEF Drained
  <2> QED BY <2>1 DEF Stays
<1> QED BY <1>1, <1>2

\* The steps of a caller outside its handshake, that settle nothing.
OutsideStep(p) ==
    \/ \E s \in Subs : StartSubscribe(p, s) \/ StartUnsubscribe(p, s)
    \/ WaitReturns(p) \/ WaitFails(p) \/ LockSubscriptionOpMu(p)
    \/ NothingToDo(p) \/ SubscribeRetries(p)

\* The places before the handshake.
Outside == {"idle", "wait", "subscriptionOpMu", "opMu"}

\* When the application may start an operation.
MayStart(kind) ==
    /\ "closeDuringOperation" \in Overlaps \/ ~closed
    /\ \/ /\ kind = "subscribe"
          /\ "outageDuringSubscribe" \in Overlaps \/ ~Outage
       \/ /\ kind = "unsubscribe" /\ "unsubscribe" \in Workload
          /\ "outageDuringUnsubscribe" \in Overlaps \/ ~Outage

\* What they do: caller p waits, goes on to a mutex, or gives up.
Waits(p) ==
    LET o == go[p]
        n == go'[p]
    IN  /\ o.at \in Outside \/ (o.at = "settle" /\ o.out = "interrupted")
        /\ n.at \in Outside
        /\ \/ n.at = "idle" /\ n.op = "none"
           \/ n.at # "idle" /\ o.at # "idle" /\ n.op = o.op
           \/ n.at # "idle" /\ o.at = "idle" /\ MayStart(n.op)
        /\ \/ n.out = "none"
           \/ o.at \in {"wait", "subscriptionOpMu"} /\ n.out = o.out
        /\ OthersStay(p)
        /\ UNCHANGED <<netVars, subVars, recVars, closing>>

\* A step outside the handshake moves one caller and nothing else that counts.
LEMMA OutsideEffects ==
    ASSUME Typed(go), NEW p \in Callers, OutsideStep(p)
    PROVE  Waits(p)
<1> USE DEF Outside, Waits
<1>0. p \in Goroutines /\ go[p] \in Operation
  BY FieldTypes
<1>1. ASSUME NEW s \in Subs, StartSubscribe(p, s) PROVE Waits(p)
  <2> DEFINE n == [NoOperation EXCEPT
                  !.at = "subscriptionOpMu", !.op = "subscribe", !.sub = s]
  <2>1. go'[p] = n /\ OthersStay(p)
    BY <1>0, <1>1, Stored DEF StartSubscribe
  <2>2. n.at = "subscriptionOpMu" /\ n.op = "subscribe" /\ n.out = "none"
    BY DEF NoOperation
  <2> HIDE DEF n
  <2> QED BY <1>1, <2>1, <2>2 DEF StartSubscribe, OnlyGoChanges, MayStart
<1>2. ASSUME NEW s \in Subs, StartUnsubscribe(p, s) PROVE Waits(p)
  <2> DEFINE place == IF reconnecting THEN "wait" ELSE "subscriptionOpMu"
             n == [NoOperation EXCEPT
                      !.at = place, !.op = "unsubscribe", !.sub = s]
  <2>1. go'[p] = n /\ OthersStay(p)
    BY <1>0, <1>2, Stored DEF StartUnsubscribe
  <2>2. place \in {"wait", "subscriptionOpMu"}
    OBVIOUS
  <2> HIDE DEF place
  <2>3. n.at = place /\ n.op = "unsubscribe" /\ n.out = "none"
    BY DEF NoOperation
  <2> HIDE DEF n
  <2> QED BY <1>2, <2>1, <2>2, <2>3 DEF StartUnsubscribe, MayStart
<1>3. ASSUME WaitReturns(p) PROVE Waits(p)
  <2>1. PICK place \in {"opMu", "subscriptionOpMu"} : Goto(p, place)
    BY <1>3 DEF WaitReturns
  <2>2. Becomes(p, place, go[p].op, go[p].id, go[p].out, go[p].sock)
    BY <1>0, <2>1, MoveEffects DEF Goto
  <2> QED BY <1>3, <2>2 DEF WaitReturns, OnlyGoChanges, Becomes
<1>4. ASSUME WaitFails(p) PROVE Waits(p)
  <2>1. Leaves(p)
    BY <1>0, <1>4, LeaveEffects DEF WaitFails
  <2> QED BY <1>4, <2>1 DEF WaitFails, Leaves
<1>5. ASSUME LockSubscriptionOpMu(p) PROVE Waits(p)
  <2>1. Becomes(p, "opMu", go[p].op, go[p].id, go[p].out, go[p].sock)
    BY <1>0, <1>5, MoveEffects DEF LockSubscriptionOpMu, Goto
  <2> QED BY <1>5, <2>1 DEF LockSubscriptionOpMu, Becomes
<1>6. ASSUME NothingToDo(p) PROVE Waits(p)
  <2>1. Leaves(p)
    BY <1>0, <1>6, LeaveEffects DEF NothingToDo
  <2> QED BY <1>6, <2>1 DEF NothingToDo, Leaves
<1>7. ASSUME SubscribeRetries(p) PROVE Waits(p)
  <2>1. PICK place \in {"wait", "opMu"} :
           go' = [go EXCEPT ![p].at = place, ![p].out = "none",
                            ![p].sock = NoSocket]
    BY <1>7 DEF SubscribeRetries
  <2>2. Becomes(p, place, go[p].op, go[p].id, "none", NoSocket)
    BY <1>0, <2>1, RetryEffects
  <2>3. /\ go[p].at = "settle" /\ go[p].out = "interrupted"
        /\ UNCHANGED <<netVars, subVars, recVars, closing>>
    BY <1>7 DEF SubscribeRetries
  <2> QED BY <2>2, <2>3 DEF Becomes
<1> QED BY <1>1, <1>2, <1>3, <1>4, <1>5, <1>6, <1>7 DEF OutsideStep

\* The steps within a handshake that change nothing of a Subscription.
WalkStep(g) ==
    \/ CallStarts(g) \/ EnsureCurrent(g) \/ EnsureDials(g) \/ CallFails(g)
    \/ Write(g) \/ WriteFails(g) \/ AwaitFails(g) \/ AwaitReturns(g)
    \/ HandleSubscribe(g) \/ HandleSubscribeFails(g)
    \/ ServeUnsubscribe(g) \/ ServeRefusal(g)

\* From one place of a handshake to the next.
WalkAct(o, n) ==
    \/ o.at = "call" /\ n.at = "ensure" /\ n.out = o.out
    \/ o.at = "ensure" /\ n.at = "write" /\ n.out = o.out
    \/ /\ o.at \in {"call", "ensure", "await"}
       /\ n.at = "return" /\ n.out = "failed"
    \/ o.at = "write" /\ n.at = "await" /\ n.out = o.out
    \/ /\ o.at = "write" /\ n.at = "return" /\ n.out = "interrupted"
       /\ sock[o.sock] # "open"
    \/ /\ o.at = "await" /\ n.at = "return"
       /\ n.out = "failed" \/ (o.out = "drained" /\ n.out = "interrupted")
    \/ o.at = "await" /\ n.at = "return" /\ n.out = "ok" /\ o.op # "subscribe"
    \/ o.at = "await" /\ n.at = "await" /\ o.out = "none" /\ n.out = "refused"
    \/ o.at = "await" /\ n.at = "await" /\ n.out = "ok" /\ o.op # "subscribe"
    \/ o.at = "handle" /\ n.at = "return" /\ n.out = "ok"

\* What they do: goroutine g moves on, and a lost socket may start a reconnect.
Walks(g) ==
    /\ \/ WalkAct(go[g], go'[g]) /\ go'[g].op = go[g].op
       \/ /\ go[g].at = "handle" /\ go'[g].at = "call"
          /\ go'[g].op = "cleanup" /\ go'[g].out = "none"
    /\ go'[g].sub = go[g].sub /\ go'[g].id = go[g].id
    /\ go'[g].at = "write" => go'[g].sock = conn' /\ conn' # NoSocket
    /\ go'[g].at = "await" => go'[g].sock = go[g].sock
    /\ OthersStay(g)
    /\ UNCHANGED <<subVars, lockVars, waiting, dialedByRec, taken,
                   interrupted, closing>>
    /\ \/ UNCHANGED rec
       \/ go[g].at = "write" /\ go'[g].at = "return" /\ StartReconnect

\* A step within a handshake moves one goroutine.
LEMMA WalkEffects ==
    ASSUME Typed(go), NEW g \in Goroutines, WalkStep(g)
    PROVE  Walks(g)
<1> USE DEF Walks, WalkAct, recVars, Becomes
<1>1. ASSUME CallStarts(g) PROVE Walks(g)
  <2>1. Becomes(g, "ensure", go[g].op, go[g].id, go[g].out, go[g].sock)
    BY <1>1, MoveEffects DEF CallStarts, Goto
  <2> QED BY <1>1, <2>1 DEF CallStarts, OnlyGoChanges
<1>2. ASSUME EnsureCurrent(g) PROVE Walks(g)
  <2>1. go' = [go EXCEPT ![g].at = "write", ![g].sock = conn]
    BY <1>2 DEF EnsureCurrent
  <2>2. Becomes(g, "write", go[g].op, go[g].id, go[g].out, conn)
    BY <2>1, EnsureEffects
  <2>3. /\ go[g].at = "ensure" /\ conn # NoSocket /\ conn' = conn
        /\ UNCHANGED <<subVars, lockVars, waiting, recVars, closing>>
    BY <1>2 DEF EnsureCurrent, OnlyGoChanges, netVars
  <2> QED BY <2>2, <2>3
<1>3. ASSUME EnsureDials(g) PROVE Walks(g)
  <2>1. PICK s \in Sockets :
           /\ conn' = s
           /\ go' = [go EXCEPT ![g].at = "write", ![g].sock = s]
    BY <1>3 DEF EnsureDials
  <2>2. Becomes(g, "write", go[g].op, go[g].id, go[g].out, s)
    BY <2>1, EnsureEffects
  <2>3. /\ go[g].at = "ensure" /\ s # NoSocket
        /\ UNCHANGED <<subVars, lockVars, waiting, recVars, closing>>
    BY <1>3 DEF EnsureDials
  <2> QED BY <2>1, <2>2, <2>3
<1>4. ASSUME CallFails(g) PROVE Walks(g)
  <2>1. Becomes(g, "return", go[g].op, go[g].id, "failed", go[g].sock)
    BY <1>4, EndEffects DEF CallFails, Return
  <2> QED BY <1>4, <2>1 DEF CallFails, OnlyGoChanges
<1>5. ASSUME Write(g) PROVE Walks(g)
  <2>1. Becomes(g, "await", go[g].op, go[g].id, go[g].out, go[g].sock)
    BY <1>5, MoveEffects DEF Write, Goto
  <2> QED BY <1>5, <2>1 DEF Write, OnlyGoChanges
<1>6. ASSUME WriteFails(g) PROVE Walks(g)
  <2> DEFINE d == Drained(go[g].sock)
  <2>1. Typed(d)
    BY DrainedType
  <2>2. d[g] = go[g]
    BY <1>6 DEF WriteFails, Drained
  <2>3. go' = [d EXCEPT ![g].at = "return", ![g].out = "interrupted"]
    BY <1>6 DEF WriteFails
  <2> HIDE DEF d
  <2>4. \A h \in Goroutines : h # g => go'[h] = d[h]
    BY <2>1, <2>3 DEF Typed
  <2>5. OthersStay(g)
    BY <1>6, <2>4, DrainedStays DEF OthersStay, d, WriteFails, netVars
  <2>6. go'[g] = [go[g] EXCEPT !.at = "return", !.out = "interrupted"]
    BY <2>1, <2>2, <2>3 DEF Typed
  <2>7. Becomes(g, "return", go[g].op, go[g].id, "interrupted", go[g].sock)
    BY <2>5, <2>6, FieldTypes DEF Operation
  <2>8. /\ go[g].at = "write" /\ sock[go[g].sock] # "open" /\ StartReconnect
        /\ UNCHANGED <<subVars, lockVars, waiting, dialedByRec, taken,
                       interrupted, closing>>
    BY <1>6 DEF WriteFails
  <2> QED BY <2>7, <2>8
<1>7. ASSUME AwaitFails(g) PROVE Walks(g)
  <2>1. Becomes(g, "return", go[g].op, go[g].id, "failed", go[g].sock)
    BY <1>7, EndEffects DEF AwaitFails, Return
  <2>2. /\ go[g].at = "await"
        /\ UNCHANGED <<subVars, lockVars, waiting, recVars, closing>>
    BY <1>7 DEF AwaitFails
  <2> QED BY <2>1, <2>2
<1>8. ASSUME AwaitReturns(g) PROVE Walks(g)
  <2>1. PICK r \in {"interrupted", "failed", "ok"} :
           /\ Return(g, r) /\ (r = "ok" => go[g].op # "subscribe")
           /\ r = "interrupted" => go[g].out = "drained"
    BY <1>8 DEF AwaitReturns
  <2>2. Becomes(g, "return", go[g].op, go[g].id, r, go[g].sock)
    BY <2>1, EndEffects DEF Return
  <2>3. go[g].at = "await" /\ OnlyGoChanges
    BY <1>8 DEF AwaitReturns
  <2> QED BY <2>1, <2>2, <2>3 DEF OnlyGoChanges
<1>9. ASSUME HandleSubscribe(g) PROVE Walks(g)
  <2>1. Becomes(g, "return", go[g].op, go[g].id, "ok", go[g].sock)
    BY <1>9, EndEffects DEF HandleSubscribe, Return
  <2> QED BY <1>9, <2>1 DEF HandleSubscribe, OnlyGoChanges
<1>10. ASSUME HandleSubscribeFails(g) PROVE Walks(g)
  <2>1. Becomes(g, "call", "cleanup", go[g].id, "none", go[g].sock)
    BY <1>10, TurnEffects DEF HandleSubscribeFails
  <2> QED BY <1>10, <2>1 DEF HandleSubscribeFails, OnlyGoChanges
<1>11. ASSUME ServeUnsubscribe(g) PROVE Walks(g)
  <2>1. Becomes(g, go[g].at, go[g].op, go[g].id, "ok", go[g].sock)
    BY <1>11, AnswerEffects DEF ServeUnsubscribe
  <2>2. /\ go[g].at = "await" /\ go[g].op # "subscribe"
        /\ UNCHANGED <<subVars, lockVars, waiting, recVars, closing>>
    BY <1>11 DEF ServeUnsubscribe, Answer
  <2> QED BY <2>1, <2>2
<1>12. ASSUME ServeRefusal(g) PROVE Walks(g)
  <2>1. Becomes(g, go[g].at, go[g].op, go[g].id, "refused", go[g].sock)
    BY <1>12, AnswerEffects DEF ServeRefusal
  <2>2. /\ go[g].at = "await" /\ go[g].out = "none"
        /\ UNCHANGED <<subVars, lockVars, waiting, recVars, closing>>
    BY <1>12 DEF ServeRefusal, Answer
  <2> QED BY <2>1, <2>2
<1> QED BY <1>1, <1>2, <1>3, <1>4, <1>5, <1>6, <1>7, <1>8, <1>9, <1>10, <1>11,
           <1>12 DEF WalkStep

\* The steps of the readers, the network, the reconnect and Close that leave
\* the Subscriptions alone.
QuietStep ==
    \/ \E s \in Sockets : ReaderSteps(s) \/ Drop(s)
    \/ ReconnectShuts \/ ReconnectDials \/ ReconnectJoins
    \/ ReconnectRetries \/ ReconnectFinishes
    \/ CloseCancels \/ CloseShuts \/ UNCHANGED vars

\* How they move the reconnect and Close on.
RecMoves ==
    \/ UNCHANGED <<rec, taken>>
    \/ rec = "off" /\ rec' = "take" /\ ~closed /\ UNCHANGED taken
    \/ rec = "shut" /\ rec' = "sweep" /\ UNCHANGED taken
    \/ rec = "dial" /\ rec' = "publish" /\ UNCHANGED taken
    \/ rec = "join" /\ rec' \in {"backoff", "sweep"}
       /\ \A i \in Restorers : go[i].at = "idle"
    \/ rec = "backoff" /\ rec' = (IF closed THEN "sweep" ELSE "take")
       /\ UNCHANGED taken
    \/ rec = "finish" /\ rec' = "off" /\ UNCHANGED taken

\* Close is cancelled, then shuts; it starts when the workload lets it.
CloseMoves ==
    \/ UNCHANGED closing
    \/ closing = "cancelled" /\ closing' = "shut"
    \/ /\ closing = "open" /\ closing' = "cancelled"
       /\ "closeDuringOperation" \in Overlaps
            \/ ~(Subscribing \/ Unsubscribing)

\* What they do: calls are drained, the reconnect or Close goes on.
Quiets ==
    /\ \A h \in Goroutines : Stays(h)
    /\ UNCHANGED subVars
    /\ RecMoves /\ CloseMoves

\* Closing the current socket only drains calls.
LEMMA ShutStays ==
    ASSUME TypeOK, CloseWebSocket, NEW h \in Goroutines PROVE Stays(h)
<1>1. CASE conn = NoSocket
  BY <1>1 DEF CloseWebSocket, Stays
<1>2. CASE conn # NoSocket
  <2>1. go' = Drained(conn) /\ sock' = [sock EXCEPT ![conn] = "down"]
    BY <1>2 DEF CloseWebSocket, Down
  <2>2. sock'[conn] # "open"
    BY <1>2, <2>1 DEF TypeOK
  <2> QED BY <2>1, <2>2, DrainedStays DEF TypeOK, Typed
<1> QED BY <1>1, <1>2

\* The steps of readers, network, reconnect and Close only drain calls.
LEMMA QuietEffects ==
    ASSUME TypeOK, QuietStep PROVE Quiets
<1> USE DEF Quiets, RecMoves, CloseMoves
<1>0. Typed(go) /\ (go' = go => \A h \in Goroutines : Stays(h))
  BY DEF Stays, TypeOK, Typed
<1>1. ASSUME NEW s \in Sockets, ReadFails(s) PROVE Quiets
  <2>1. \A h \in Goroutines : Stays(h)
    BY <1>0, <1>1, DrainedStays DEF ReadFails
  <2> QED BY <1>1, <2>1 DEF ReadFails, recVars
<1>2. ASSUME NEW s \in Sockets, ReaderChecks(s) PROVE Quiets
  BY <1>0, <1>2 DEF ReaderChecks, recVars
<1>3. ASSUME NEW s \in Sockets, ReaderReconnects(s) PROVE Quiets
  BY <1>0, <1>3 DEF ReaderReconnects, StartReconnect, reconnecting
<1>4. ASSUME NEW s \in Sockets, Drop(s) PROVE Quiets
  BY <1>0, <1>4 DEF Drop, recVars
<1>5. ASSUME ReconnectShuts PROVE Quiets
  <2>1. \A h \in Goroutines : Stays(h)
    BY <1>0, <1>5, ShutStays DEF ReconnectShuts
  <2> QED BY <1>5, <2>1 DEF ReconnectShuts
<1>6. ASSUME ReconnectDials PROVE Quiets
  BY <1>0, <1>6 DEF ReconnectDials
<1>7. ASSUME ReconnectJoins PROVE Quiets
  BY <1>0, <1>7 DEF ReconnectJoins
<1>8. ASSUME ReconnectRetries PROVE Quiets
  BY <1>0, <1>8 DEF ReconnectRetries
<1>9. ASSUME ReconnectFinishes PROVE Quiets
  BY <1>0, <1>9 DEF ReconnectFinishes
<1>10. ASSUME CloseCancels PROVE Quiets
  BY <1>0, <1>10 DEF CloseCancels, recVars
<1>11. ASSUME CloseShuts PROVE Quiets
  <2>1. \A h \in Goroutines : Stays(h)
    BY <1>0, <1>11, ShutStays DEF CloseShuts
  <2> QED BY <1>11, <2>1 DEF CloseShuts, recVars
<1>12. ASSUME UNCHANGED vars PROVE Quiets
  BY <1>0, <1>12 DEF vars, recVars
<1> QED BY <1>1, <1>2, <1>3, <1>4, <1>5, <1>6, <1>7, <1>8, <1>9, <1>10, <1>11,
           <1>12 DEF QuietStep, ReaderSteps

\* The steps that take or give an id, or settle what becomes of a Subscription.
CallerSettles(p) ==
    \/ BeginUnsubscribe(p) \/ SubscribeReturns(p) \/ SubscribeFails(p)
    \/ UnsubscribeReturns(p) \/ UnsubscribeFails(p)

\* The same within a handshake.
CallSettles(g) ==
    \/ BeginSubscribe(g) \/ AwaitSubscribed(g) \/ UnlockOpMu(g)
    \/ ServeSubscribe(g)

\* The same in the reconnect and in Close.
ReconnectSettles ==
    \/ ReconnectTakes \/ ReconnectAbandons \/ ReconnectPublishes
    \/ ReconnectSweeps \/ CloseSweeps

\* Every step is of one of five kinds ...
LEMMA StepCases ==
    ASSUME [Next]_vars
    PROVE  \/ QuietStep
           \/ \E p \in Callers : OutsideStep(p) \/ CallerSettles(p)
           \/ \E g \in Goroutines : WalkStep(g) \/ CallSettles(g)
           \/ \E i \in Restorers : RestorerSteps(i)
           \/ ReconnectSettles
<1> USE DEF CallerSettles, CallSettles, ReconnectSettles
<1>1. CASE \E p \in Callers, s \in Subs : StartSubscribe(p, s)
                                          \/ StartUnsubscribe(p, s)
  BY <1>1 DEF OutsideStep
<1>2. CASE \E p \in Callers : PublicSteps(p) \/ WaitFails(p)
  BY <1>2 DEF OutsideStep, PublicSteps
<1>3. CASE \E g \in Goroutines :
             \/ CallSteps(g) \/ CallFails(g) \/ AwaitFails(g)
             \/ HandleSubscribeFails(g)
             \/ ServeSubscribe(g) \/ ServeUnsubscribe(g) \/ ServeRefusal(g)
  BY <1>3 DEF WalkStep, CallSteps
<1>4. CASE \E i \in Restorers : RestorerSteps(i)
  BY <1>4
<1>5. CASE \/ \E s \in Sockets : ReaderSteps(s) \/ Drop(s)
           \/ ReconnectSteps \/ CloseCancels \/ CloseSteps
           \/ Rest \/ UNCHANGED vars
  BY <1>5 DEF QuietStep, ReconnectSteps, CloseSteps, Rest
<1> QED BY <1>1, <1>2, <1>3, <1>4, <1>5 DEF Next

\* ... and does what steps of its kind do.
LEMMA StepKinds ==
    ASSUME TypeOK, [Next]_vars
    PROVE  \/ Quiets
           \/ \E p \in Callers : Waits(p) \/ CallerSettles(p)
           \/ \E g \in Goroutines : Walks(g) \/ CallSettles(g)
           \/ \E i \in Restorers : RestorerSteps(i)
           \/ ReconnectSettles
BY StepCases, QuietEffects, OutsideEffects, WalkEffects DEF TypeOK, Typed

\* What these steps do to the operations.
LEMMA CallerSettlesEffects ==
    ASSUME TypeOK, BusyHasSub, NEW p \in Callers
    PROVE  /\ BeginUnsubscribe(p) =>
                Becomes(p, "call", go[p].op, id[go[p].sub], go[p].out,
                        go[p].sock)
           /\ SubscribeReturns(p) \/ SubscribeFails(p)
              \/ UnsubscribeReturns(p) \/ UnsubscribeFails(p) => Leaves(p)
<1>0. Typed(go) /\ p \in Goroutines
  BY DEF TypeOK, Typed
<1>1. ASSUME BeginUnsubscribe(p)
      PROVE  Becomes(p, "call", go[p].op, id[go[p].sub], go[p].out, go[p].sock)
  <2>1. id[go[p].sub] \in Ids \cup {NoId}
    BY <1>0, <1>1 DEF BeginUnsubscribe, BusyHasSub, TypeOK
  <2> QED BY <1>0, <1>1, <2>1, BeginEffects DEF BeginUnsubscribe
<1>2. ASSUME SubscribeReturns(p) \/ SubscribeFails(p)
             \/ UnsubscribeReturns(p) \/ UnsubscribeFails(p)
      PROVE  Leaves(p)
  BY <1>0, <1>2, LeaveEffects DEF SubscribeReturns, SubscribeFails,
     UnsubscribeReturns, UnsubscribeFails
<1> QED BY <1>1, <1>2

\* The steps that take the opMu, activate, unlock or bring an id move one
\* goroutine on.
LEMMA CallSettlesEffects ==
    ASSUME Typed(go), NEW g \in Goroutines
    PROVE  /\ BeginSubscribe(g) =>
                Becomes(g, "call", go[g].op, go[g].id, go[g].out, go[g].sock)
           /\ AwaitSubscribed(g) =>
                Becomes(g, "handle", go[g].op, go[g].id, go[g].out, go[g].sock)
           /\ UnlockOpMu(g) =>
                Becomes(g, "settle", "subscribe", go[g].id, Result(g),
                        go[g].sock)
           /\ ServeSubscribe(g) =>
                \E i \in Assignable(go[g].sock) :
                    /\ Becomes(g, go[g].at, go[g].op, i, "ok", go[g].sock)
                    /\ server' = [server EXCEPT ![go[g].sock][i] = go[g].sub]
<1>1. ASSUME BeginSubscribe(g)
      PROVE  Becomes(g, "call", go[g].op, go[g].id, go[g].out, go[g].sock)
  BY <1>1, MoveEffects DEF BeginSubscribe, Goto
<1>2. ASSUME AwaitSubscribed(g)
      PROVE  Becomes(g, "handle", go[g].op, go[g].id, go[g].out, go[g].sock)
  BY <1>2, MoveEffects DEF AwaitSubscribed, Goto
<1>3. ASSUME UnlockOpMu(g)
      PROVE  Becomes(g, "settle", "subscribe", go[g].id, Result(g), go[g].sock)
  BY <1>3, TurnEffects DEF UnlockOpMu
<1>4. ASSUME ServeSubscribe(g)
      PROVE  \E i \in Assignable(go[g].sock) :
                /\ Becomes(g, go[g].at, go[g].op, i, "ok", go[g].sock)
                /\ server' = [server EXCEPT ![go[g].sock][i] = go[g].sub]
  <2>1. PICK i \in Assignable(go[g].sock) :
           /\ server' = [server EXCEPT ![go[g].sock][i] = go[g].sub]
           /\ go' = [go EXCEPT ![g].out = "ok", ![g].id = i]
    BY <1>4 DEF ServeSubscribe
  <2>2. i \in Ids \cup {NoId}
    BY DEF Assignable
  <2> QED BY <2>1, <2>2, AssignEffects
<1> QED BY <1>1, <1>2, <1>3, <1>4

\* resubscribe starts a goroutine for each subscription that was taken.
Starts(h) ==
    /\ h \in Ids /\ taken[h] # NoSub
    /\ go'[h].at = "opMu" /\ go'[h].op = "subscribe"
    /\ go'[h].sub = taken[h] /\ go'[h].out = "none"

\* A reconnect starts restorers, one for each subscription it took, and touches
\* no other operation.
LEMMA ReconnectSettlesEffects ==
    ASSUME TypeOK, ReconnectSettles, NEW h \in Goroutines
    PROVE  /\ Stays(h) \/ Starts(h)
           /\ ReconnectPublishes /\ h \in Ids /\ taken[h] # NoSub => Starts(h)
           /\ ReconnectPublishes \/ Stays(h)
<1>1. CASE ReconnectPublishes
  <2>1. go' = StartRestorers
    BY <1>1 DEF ReconnectPublishes
  <2>2. CASE h \in Ids /\ taken[h] # NoSub
    <3>1. go'[h] = [NoOperation EXCEPT !.at = "opMu", !.op = "subscribe",
                                        !.sub = taken[h]]
      BY <2>1, <2>2 DEF StartRestorers
    <3> QED BY <1>1, <2>2, <3>1 DEF Starts, NoOperation
  <2>3. CASE ~(h \in Ids /\ taken[h] # NoSub)
    <3>1. go'[h] = go[h]
      BY <2>1, <2>3 DEF StartRestorers
    <3> QED BY <1>1, <2>3, <3>1 DEF Stays
  <2> QED BY <2>2, <2>3
<1>2. CASE ~ReconnectPublishes
  <2>1. go' = go
    BY <1>2 DEF ReconnectSettles, ReconnectTakes, ReconnectAbandons,
       ReconnectSweeps, CloseSweeps
  <2> QED BY <1>2, <2>1 DEF Stays
<1> QED BY <1>1, <1>2

-----------------------------------------------------------------------------
(* Who answers for an active Subscription.                                 *)

\* What a goroutine can be doing in each place.
Kind(g) ==
    /\ go[g].at = "idle" <=> go[g].op = "none"
    /\ go[g].at \in {"handle", "settle"} => go[g].op = "subscribe"
    /\ go[g].op = "cleanup" => InHandshake(g)
    /\ go[g].at \in {"subscriptionOpMu", "wait", "opMu", "call", "ensure",
                    "write"} => go[g].out = "none"

\* Every goroutine is in such a place.
Kinds == \A g \in Goroutines : Kind(g)

\* wg.Wait: no restorer outlives the attempt that has started it.
RestorersInJoin == rec # "join" => \A i \in Restorers : go[i].at = "idle"

\* A Subscription is marked by an Unsubscribe that is in its handshake.
Marks(p, s) ==
    go[p].op = "unsubscribe" /\ InHandshake(p) /\ go[p].sub = s
Marked == \A s \in Subs : unsubscribing[s] => \E p \in Callers : Marks(p, s)

\* The answer to a subscribe request is there and was not looked at.
Pending(g) ==
    go[g].at = "await" /\ go[g].op = "subscribe" /\ go[g].out = "ok"

\* Two Subscriptions never share an id.
DistinctIds == \A r, s \in Subs : id[r] = id[s] /\ id[r] # NoId => r = s

\* An id that is on its way to a Subscription is on its way to one only.
PendingFresh ==
    \A g \in Goroutines : Pending(g) =>
        /\ go[g].id \in Ids
        /\ \A s \in Subs : id[s] # go[g].id
        /\ \A h \in Goroutines : Pending(h) /\ go[h].id = go[g].id => h = g

\* Every step keeps the places consistent.
LEMMA KindsStep ==
    ASSUME TypeOK, BusyHasSub, Kinds, [Next]_vars PROVE Kinds'
<1> SUFFICES ASSUME NEW h \in Goroutines PROVE Kind(h)'
  BY DEF Kinds
<1> USE DEF Kind, InHandshake
<1>0. Typed(go) /\ Kind(h)
  BY DEF TypeOK, Typed, Kinds
<1>1. ASSUME Stays(h) PROVE Kind(h)'
  BY <1>0, <1>1 DEF Stays
<1>2. ASSUME NEW g \in Goroutines, OthersStay(g), h # g PROVE Kind(h)'
  BY <1>1, <1>2 DEF OthersStay
<1>3. ASSUME NEW g \in Goroutines, Leaves(g) PROVE Kind(h)'
  BY <1>2, <1>3 DEF Leaves
<1>4. ASSUME NEW p \in Callers, Waits(p) PROVE Kind(h)'
  <2>1. CASE h = p
    BY <1>0, <1>4, <2>1 DEF Waits, Outside, MayStart
  <2> QED BY <1>2, <1>4, <2>1 DEF Waits
<1>5. ASSUME NEW g \in Goroutines, Walks(g) PROVE Kind(h)'
  <2>1. CASE h = g
    BY <1>0, <1>5, <2>1 DEF Walks, WalkAct
  <2> QED BY <1>2, <1>5, <2>1 DEF Walks
<1>6. ASSUME NEW p \in Callers, CallerSettles(p) PROVE Kind(h)'
  <2>1. CASE BeginUnsubscribe(p)
    <3>1. Becomes(p, "call", go[p].op, id[go[p].sub], go[p].out, go[p].sock)
      BY <2>1, CallerSettlesEffects
    <3>2. go[p].at = "opMu" /\ go[p].op = "unsubscribe"
      BY <2>1 DEF BeginUnsubscribe
    <3> QED BY <1>0, <1>2, <3>1, <3>2 DEF Becomes
  <2>2. CASE ~BeginUnsubscribe(p)
    BY <1>3, <1>6, <2>2, CallerSettlesEffects DEF CallerSettles
  <2> QED BY <2>1, <2>2
<1>7. ASSUME NEW g \in Goroutines, CallSettles(g) PROVE Kind(h)'
  <2>1. PICK place, kind, i, result :
           /\ Becomes(g, place, kind, i, result, go[g].sock)
           /\ \/ /\ go[g].at = "opMu" /\ go[g].op = "subscribe"
                 /\ place = "call" /\ kind = "subscribe" /\ result = go[g].out
              \/ /\ go[g].at = "await" /\ go[g].op = "subscribe"
                 /\ place \in {"handle", "await"} /\ kind = "subscribe"
              \/ go[g].at = "return" /\ place = "settle" /\ kind = "subscribe"
    BY <1>0, <1>7, CallSettlesEffects DEF CallSettles, BeginSubscribe,
       AwaitSubscribed, UnlockOpMu, ServeSubscribe, Answer
  <2> QED BY <1>0, <1>2, <2>1 DEF Becomes
<1>8. ASSUME NEW i \in Restorers, RestorerSteps(i) PROVE Kind(h)'
  <2>1. Leaves(i)
    BY <1>0, <1>8, LeaveEffects DEF RestorerSteps, Restored,
       RestoreInterrupted, RestoreFails
  <2> QED BY <1>3, <2>1
<1>9. ASSUME ReconnectSettles PROVE Kind(h)'
  BY <1>1, <1>9, ReconnectSettlesEffects DEF Starts
<1>10. ASSUME Quiets PROVE Kind(h)'
  BY <1>1, <1>10 DEF Quiets
<1> QED BY <1>0, <1>4, <1>5, <1>6, <1>7, <1>8, <1>9, <1>10, StepKinds

\* Restorers start with the join and are through when it ends.
LEMMA JoinStep ==
    ASSUME TypeOK, BusyHasSub, Kinds, RestorersInJoin, [Next]_vars
    PROVE  RestorersInJoin'
<1> SUFFICES ASSUME NEW i \in Restorers, (rec # "join")'
             PROVE  (go[i].at = "idle")'
  BY DEF RestorersInJoin
<1>0. Typed(go) /\ i \in Goroutines /\ (rec # "join" => go[i].at = "idle")
  BY DEF TypeOK, Typed, RestorersInJoin
<1>1. ASSUME Stays(i), rec # "join" PROVE (go[i].at = "idle")'
  BY <1>0, <1>1 DEF Stays
<1>2. ASSUME NEW g \in Goroutines, OthersStay(g), go[g].at # "idle",
             rec # "join"
      PROVE  (go[i].at = "idle")'
  BY <1>0, <1>1, <1>2 DEF OthersStay
<1>3. ASSUME NEW p \in Callers, OthersStay(p), rec # "join"
      PROVE  (go[i].at = "idle")'
  <2>1. i # p
    OBVIOUS
  <2> QED BY <1>0, <1>1, <1>3, <2>1 DEF OthersStay
<1>4. ASSUME NEW p \in Callers, Waits(p) PROVE (go[i].at = "idle")'
  BY <1>3, <1>4 DEF Waits, recVars
<1>5. ASSUME NEW g \in Goroutines, Walks(g) PROVE (go[i].at = "idle")'
  BY <1>2, <1>5 DEF Walks, WalkAct, StartReconnect, reconnecting
<1>6. ASSUME NEW p \in Callers, CallerSettles(p) PROVE (go[i].at = "idle")'
  <2>1. rec' = rec
    BY <1>6 DEF CallerSettles, BeginUnsubscribe, SubscribeReturns,
       SubscribeFails, UnsubscribeReturns, UnsubscribeFails, recVars
  <2> QED BY <1>3, <1>6, <2>1, CallerSettlesEffects
       DEF CallerSettles, Becomes, Leaves
<1>7. ASSUME NEW g \in Goroutines, CallSettles(g) PROVE (go[i].at = "idle")'
  <2>1. rec' = rec /\ go[g].at # "idle"
    BY <1>7 DEF CallSettles, BeginSubscribe, AwaitSubscribed, UnlockOpMu,
       ServeSubscribe, Answer, recVars
  <2> QED BY <1>0, <1>2, <1>7, <2>1, CallSettlesEffects
       DEF CallSettles, Becomes
<1>8. ASSUME NEW j \in Restorers, RestorerSteps(j) PROVE (go[i].at = "idle")'
  <2>1. rec' = rec /\ go[j].at # "idle"
    BY <1>8 DEF RestorerSteps, Restored, RestoreInterrupted, RestoreFails,
       recVars
  <2> QED BY <2>1 DEF RestorersInJoin
<1>9. ASSUME ReconnectSettles PROVE (go[i].at = "idle")'
  <2>1. CASE ReconnectPublishes
    BY <2>1 DEF ReconnectPublishes
  <2>2. CASE ~ReconnectPublishes
    <3>1. Stays(i)
      BY <1>0, <1>9, <2>2, ReconnectSettlesEffects
    <3>2. rec # "join"
      BY <1>9, <2>2 DEF ReconnectSettles, ReconnectTakes, ReconnectAbandons,
         ReconnectSweeps, CloseSweeps, recVars
    <3> QED BY <1>1, <3>1, <3>2
  <2> QED BY <2>1, <2>2
<1>10. ASSUME Quiets PROVE (go[i].at = "idle")'
  BY <1>0, <1>10 DEF Quiets, RecMoves, Stays
<1> QED BY <1>0, <1>4, <1>5, <1>6, <1>7, <1>8, <1>9, <1>10, StepKinds

\* A mark is set and cleared by the handshake that it stands for.
LEMMA MarkedStep ==
    ASSUME TypeOK, BusyHasSub, Kinds, Marked, [Next]_vars
    PROVE  Marked'
<1> SUFFICES ASSUME NEW s \in Subs, unsubscribing'[s]
             PROVE  \E p \in Callers : Marks(p, s)'
  BY DEF Marked
<1>0. Typed(go) /\ (unsubscribing[s] => \E p \in Callers : Marks(p, s))
  BY DEF TypeOK, Typed, Marked
<1>1. ASSUME NEW h \in Goroutines, Stays(h), Marks(h, s) PROVE Marks(h, s)'
  BY <1>1 DEF Stays, Marks, InHandshake
<1>2. ASSUME unsubscribing[s], NEW g \in Goroutines, OthersStay(g),
             Marks(g, s) => Marks(g, s)'
      PROVE  \E p \in Callers : Marks(p, s)'
  <2>1. PICK p \in Callers : Marks(p, s)
    BY <1>0, <1>2
  <2> QED BY <1>1, <1>2, <2>1 DEF OthersStay
<1>3. ASSUME unsubscribing[s], \A h \in Goroutines : Stays(h) \/ ~Marks(h, s)
      PROVE  \E p \in Callers : Marks(p, s)'
  BY <1>0, <1>1, <1>3
<1>4. ASSUME NEW p \in Callers, Waits(p) PROVE \E q \in Callers : Marks(q, s)'
  <2>1. ~Marks(p, s)
    BY <1>4 DEF Waits, Outside, Marks, InHandshake
  <2>2. p \in Goroutines /\ unsubscribing[s] /\ OthersStay(p)
    BY <1>4 DEF Waits, subVars
  <2> QED BY <1>2, <2>1, <2>2
<1>5. ASSUME NEW g \in Goroutines, Walks(g)
      PROVE  \E q \in Callers : Marks(q, s)'
  <2>1. unsubscribing[s] /\ OthersStay(g)
    BY <1>5 DEF Walks, subVars
  <2>2. Marks(g, s) => Marks(g, s)'
    BY <1>5 DEF Marks, InHandshake, Walks, WalkAct, Kinds, Kind
  <2> QED BY <1>2, <2>1, <2>2
<1>6. ASSUME NEW p \in Callers, CallerSettles(p)
      PROVE  \E q \in Callers : Marks(q, s)'
  <2>0. p \in Goroutines
    OBVIOUS
  <2>1. CASE BeginUnsubscribe(p)
    <3>1. Becomes(p, "call", go[p].op, id[go[p].sub], go[p].out, go[p].sock)
      BY <2>1, CallerSettlesEffects
    <3>2. CASE s = go[p].sub
      <4>1. Marks(p, s)'
        BY <2>1, <3>1, <3>2 DEF BeginUnsubscribe, Becomes, Marks, InHandshake
      <4> QED BY <4>1
    <3>3. CASE s # go[p].sub
      <4>1. unsubscribing[s]
        BY <2>1, <3>3 DEF BeginUnsubscribe, TypeOK
      <4> QED BY <1>2, <2>0, <3>1, <3>3, <4>1 DEF Becomes, Marks
    <3> QED BY <3>2, <3>3
  <2>2. CASE ~BeginUnsubscribe(p)
    <3>1. Leaves(p)
      BY <1>6, <2>2, CallerSettlesEffects DEF CallerSettles
    <3>2. unsubscribing[s]
      BY <1>6, <2>2 DEF CallerSettles, SubscribeReturns, SubscribeFails,
         UnsubscribeReturns, UnsubscribeFails, Deactivate, TypeOK
    <3>3. ~Marks(p, s)
      BY <1>6, <2>2 DEF CallerSettles, SubscribeReturns, SubscribeFails,
         UnsubscribeReturns, UnsubscribeFails, Deactivate, TypeOK, Marks,
         InHandshake
    <3> QED BY <1>2, <2>0, <3>1, <3>2, <3>3 DEF Leaves
  <2> QED BY <2>1, <2>2
<1>7. ASSUME NEW g \in Goroutines, CallSettles(g)
      PROVE  \E q \in Callers : Marks(q, s)'
  <2>1. unsubscribing[s]
    BY <1>7 DEF CallSettles, BeginSubscribe, AwaitSubscribed, UnlockOpMu,
       ServeSubscribe, Answer, subVars, TypeOK
  <2>2. ~Marks(g, s)
    BY <1>7 DEF CallSettles, BeginSubscribe, AwaitSubscribed, UnlockOpMu,
       ServeSubscribe, Answer, Marks
  <2> QED BY <1>0, <1>2, <1>7, <2>1, <2>2, CallSettlesEffects
       DEF CallSettles, Becomes
<1>8. ASSUME NEW j \in Restorers, RestorerSteps(j)
      PROVE  \E q \in Callers : Marks(q, s)'
  <2>1. unsubscribing[s] /\ Leave(j)
    BY <1>8 DEF RestorerSteps, Restored, RestoreInterrupted, RestoreFails,
       Deactivate, TypeOK
  <2>2. ~Marks(j, s)
    BY <1>8 DEF RestorerSteps, Restored, RestoreInterrupted, RestoreFails,
       Marks, InHandshake
  <2>3. OthersStay(j)
    BY <1>0, <2>1, LeaveEffects DEF Leaves
  <2> QED BY <1>2, <2>1, <2>2, <2>3
<1>9. ASSUME ReconnectSettles PROVE \E q \in Callers : Marks(q, s)'
  <2>1. unsubscribing[s]
    BY <1>9 DEF ReconnectSettles, ReconnectTakes, ReconnectAbandons,
       ReconnectPublishes, ReconnectSweeps, CloseSweeps, Deactivate, subVars,
       TypeOK
  <2>2. PICK p \in Callers : Marks(p, s)
    BY <1>0, <2>1
  <2>3. Stays(p)
    BY <1>9, ReconnectSettlesEffects DEF Starts
  <2> QED BY <1>1, <2>2, <2>3
<1>10. ASSUME Quiets PROVE \E q \in Callers : Marks(q, s)'
  BY <1>3, <1>10 DEF Quiets, subVars
<1> QED BY <1>0, <1>4, <1>5, <1>6, <1>7, <1>8, <1>9, <1>10, StepKinds

\* Without a reuse of ids the ids of the Subscriptions stay distinct.
LEMMA IdsStep ==
    ASSUME TypeOK, BusyHasSub, Kinds, "idReuse" \notin Overlaps,
           DistinctIds, PendingFresh, [Next]_vars
    PROVE  DistinctIds' /\ PendingFresh'
<1>0. Typed(go)
  BY DEF TypeOK, Typed
<1>1. ASSUME id' = id,
             \A h \in Goroutines :
                 Pending(h)' => Pending(h) /\ go'[h].id = go[h].id
      PROVE  DistinctIds' /\ PendingFresh'
  BY <1>1 DEF DistinctIds, PendingFresh
<1>2. ASSUME NEW h \in Goroutines, Stays(h)
      PROVE  Pending(h)' => Pending(h) /\ go'[h].id = go[h].id
  BY <1>2 DEF Stays, Pending
<1>3. ASSUME NEW g \in Goroutines, OthersStay(g), id' = id, ~Pending(g)'
      PROVE  DistinctIds' /\ PendingFresh'
  BY <1>1, <1>2, <1>3 DEF OthersStay
<1>4. ASSUME NEW p \in Callers, Waits(p) PROVE DistinctIds' /\ PendingFresh'
  <2>1. p \in Goroutines /\ OthersStay(p) /\ id' = id /\ ~Pending(p)'
    BY <1>4 DEF Waits, Outside, subVars, Pending
  <2> QED BY <1>3, <2>1
<1>5. ASSUME NEW g \in Goroutines, Walks(g) PROVE DistinctIds' /\ PendingFresh'
  <2>1. OthersStay(g) /\ id' = id
    BY <1>5 DEF Walks, subVars
  <2>2. ~Pending(g)'
    BY <1>5 DEF Walks, WalkAct, Kinds, Kind, Pending
  <2> QED BY <1>3, <2>1, <2>2
<1>6. ASSUME NEW p \in Callers, CallerSettles(p)
      PROVE  DistinctIds' /\ PendingFresh'
  <2>1. id' = id
    BY <1>6 DEF CallerSettles, BeginUnsubscribe, SubscribeReturns,
       SubscribeFails, UnsubscribeReturns, UnsubscribeFails
  <2>2. OthersStay(p) /\ ~Pending(p)'
    BY <1>6, CallerSettlesEffects DEF CallerSettles, Becomes, Leaves, Pending
  <2> QED BY <1>3, <2>1, <2>2
<1>7. ASSUME NEW g \in Goroutines, BeginSubscribe(g) \/ UnlockOpMu(g)
      PROVE  DistinctIds' /\ PendingFresh'
  <2>1. id' = id
    BY <1>7 DEF BeginSubscribe, UnlockOpMu, subVars
  <2>2. OthersStay(g) /\ ~Pending(g)'
    BY <1>0, <1>7, CallSettlesEffects DEF Becomes, Pending
  <2> QED BY <1>3, <2>1, <2>2
<1>8. ASSUME NEW g \in Goroutines, AwaitSubscribed(g)
      PROVE  DistinctIds' /\ PendingFresh'
  <2>1. Pending(g) /\ id' = [id EXCEPT ![go[g].sub] = go[g].id]
        /\ go[g].sub \in Subs
    BY <1>8 DEF AwaitSubscribed, Pending, BusyHasSub
  <2>2. OthersStay(g) /\ ~Pending(g)'
    BY <1>0, <1>8, CallSettlesEffects DEF Becomes, Pending
  <2>3. /\ id'[go[g].sub] = go[g].id
        /\ \A s \in Subs : s # go[g].sub => id'[s] = id[s]
    BY <2>1 DEF TypeOK
  <2>4. go[g].id \in Ids /\ \A s \in Subs : id[s] # go[g].id
    BY <2>1 DEF PendingFresh
  <2>5. DistinctIds'
    BY <2>3, <2>4 DEF DistinctIds
  <2>6. ASSUME NEW h \in Goroutines, Pending(h)'
        PROVE  h # g /\ Pending(h) /\ go'[h].id = go[h].id
    BY <1>2, <2>2, <2>6 DEF OthersStay
  <2>7. ASSUME NEW h \in Goroutines, Pending(h)'
        PROVE  /\ go'[h].id \in Ids /\ \A s \in Subs : id'[s] # go'[h].id
               /\ \A k \in Goroutines :
                      Pending(k)' /\ go'[k].id = go'[h].id => k = h
    BY <2>1, <2>3, <2>6, <2>7 DEF PendingFresh
  <2> QED BY <2>5, <2>7 DEF PendingFresh
<1>9. ASSUME NEW g \in Goroutines, ServeSubscribe(g)
      PROVE  DistinctIds' /\ PendingFresh'
  <2>1. id' = id
    BY <1>9 DEF ServeSubscribe, Answer, subVars
  <2>2. PICK i \in Assignable(go[g].sock) :
           Becomes(g, go[g].at, go[g].op, i, "ok", go[g].sock)
    BY <1>0, <1>9, CallSettlesEffects
  <2>3. /\ i \in Ids /\ \A s \in Subs : id[s] # i
        /\ \A h \in Goroutines : go[h].id # i
    BY DEF Assignable
  <2>4. \A h \in Goroutines :
            h # g /\ Pending(h)' => Pending(h) /\ go'[h].id = go[h].id
    BY <1>2, <2>2 DEF Becomes, OthersStay
  <2>5. go'[g].id = i
    BY <2>2 DEF Becomes
  <2>6. DistinctIds'
    BY <2>1 DEF DistinctIds
  <2>7. PendingFresh'
    BY <2>1, <2>3, <2>4, <2>5 DEF PendingFresh
  <2> QED BY <2>6, <2>7
<1>10. ASSUME NEW i \in Restorers, RestorerSteps(i)
       PROVE  DistinctIds' /\ PendingFresh'
  <2>1. id' = id /\ Leave(i)
    BY <1>10 DEF RestorerSteps, Restored, RestoreInterrupted, RestoreFails
  <2>2. OthersStay(i) /\ ~Pending(i)'
    BY <1>0, <2>1, LeaveEffects DEF Leaves, Pending
  <2> QED BY <1>3, <2>1, <2>2
<1>11. ASSUME ReconnectSettles PROVE DistinctIds' /\ PendingFresh'
  <2>1. id' = id
    BY <1>11 DEF ReconnectSettles, ReconnectTakes, ReconnectAbandons,
       ReconnectPublishes, ReconnectSweeps, CloseSweeps, subVars
  <2>2. \A h \in Goroutines : Pending(h)' => Pending(h) /\ go'[h].id = go[h].id
    BY <1>2, <1>11, ReconnectSettlesEffects DEF Starts, Pending
  <2> QED BY <1>1, <2>1, <2>2
<1>12. ASSUME Quiets PROVE DistinctIds' /\ PendingFresh'
  BY <1>1, <1>2, <1>12 DEF Quiets, subVars
<1> QED BY <1>0, <1>4, <1>5, <1>6, <1>7, <1>8, <1>9, <1>10, <1>11, <1>12,
           StepKinds DEF CallSettles

\* An operation that will still track the Subscription or deactivate it.
Settling(g) ==
    \/ go[g].op = "cleanup"
    \/ go[g].op = "subscribe" /\ go[g].at = "handle"
    \/ /\ go[g].op = "subscribe" /\ go[g].at \in {"return", "settle"}
       /\ go[g].out = "ok"
    \/ go[g].op = "subscribe" /\ go[g].at = "settle" /\ go[g].out = "failed"
    \/ /\ go[g].op = "unsubscribe" /\ go[g].at = "return"
       /\ go[g].out = "interrupted"

\* Goroutine g answers for Subscription s: every restorer does until it ends.
Answers(g, s) ==
    /\ go[g].sub = s
    /\ Settling(g) \/ (g \in Restorers /\ go[g].at # "idle")

\* The reconnect holds Subscription s until it starts a restorer for it.
Carried(s) == rec \in {"dial", "publish"} /\ \E i \in Ids : taken[i] = s

\* Somebody answers for Subscription s.
Owned(s) == \/ tracked[id[s]] = s
            \/ Carried(s)
            \/ \E g \in Goroutines : Answers(g, s)

\* Every active Subscription has an id and an owner.
ActiveOwned == \A s \in Subs : active[s] => id[s] \in Ids /\ Owned(s)

\* No reconnect runs while the answer to an Unsubscribe is open.
Undisturbed ==
    rec # "off" => \A p \in Callers :
        go[p].op = "unsubscribe" /\ InHandshake(p)
            => go[p].at = "return" /\ go[p].out = "interrupted"

\* An active subscription passes from owner to owner: caller, map, reconnect,
\* restorer.  DistinctIds keeps one of them from displacing another in the map.
LEMMA OwnedStep ==
    ASSUME TypeOK, BusyHasSub, Kinds, RestorersInJoin, Marked, DistinctIds,
           PendingFresh, ActiveOwned, Undisturbed, [Next]_vars
    PROVE  ActiveOwned'
<1> SUFFICES ASSUME NEW s \in Subs, active'[s]
             PROVE  id'[s] \in Ids /\ Owned(s)'
  BY DEF ActiveOwned
<1>0. Typed(go) /\ (active[s] => id[s] \in Ids /\ Owned(s))
  BY DEF TypeOK, Typed, ActiveOwned
<1>1. ASSUME NEW h \in Goroutines, Stays(h), Answers(h, s)
      PROVE  Answers(h, s)'
  BY <1>1 DEF Stays, Answers, Settling
<1>2. ASSUME active[s], id'[s] = id[s],
             tracked[id[s]] = s => Owned(s)',
             Carried(s) => Owned(s)',
             \A h \in Goroutines : Answers(h, s) => Stays(h) \/ Owned(s)'
      PROVE  id'[s] \in Ids /\ Owned(s)'
  <2>1. CASE \E h \in Goroutines : Answers(h, s)
    BY <1>0, <1>1, <1>2, <2>1 DEF Owned
  <2> QED BY <1>0, <1>2, <2>1 DEF Owned
\* Subscription, tracking and reconnect stay, and one goroutine moves.
<1>3. ASSUME NEW g \in Goroutines, OthersStay(g),
             Answers(g, s) => Answers(g, s)' \/ Owned(s)',
             active[s], id'[s] = id[s], tracked'[id[s]] = tracked[id[s]],
             Carried(s) => Carried(s)'
      PROVE  id'[s] \in Ids /\ Owned(s)'
  BY <1>2, <1>3 DEF Owned, OthersStay
\* A goroutine leaves after it has tracked its Subscription.
<1>4. ASSUME NEW g \in Goroutines, OthersStay(g), go[g].sub \in Subs,
             Track(go[g].sub), active' = active, id' = id,
             Carried(s) => Carried(s)'
      PROVE  id'[s] \in Ids /\ Owned(s)'
  <2>1. active[s] /\ id[s] \in Ids /\ Owned(s)
    BY <1>0, <1>4
  <2>2. CASE s = go[g].sub
    <3>1. tracked'[id[s]] = s
      BY <1>4, <2>1, <2>2 DEF Track, TypeOK
    <3> QED BY <1>4, <2>1, <3>1 DEF Owned
  <2>3. CASE s # go[g].sub
    <3>1. id[s] # id[go[g].sub]
      BY <1>4, <2>1, <2>3 DEF DistinctIds
    <3>2. tracked'[id[s]] = tracked[id[s]]
      BY <1>4, <2>1, <3>1 DEF Track, TypeOK
    <3>3. ~Answers(g, s)
      BY <2>3 DEF Answers
    <3> QED BY <1>3, <1>4, <2>1, <3>2, <3>3
  <2> QED BY <2>2, <2>3
\* A goroutine leaves after it has deactivated its Subscription.
<1>5. ASSUME NEW g \in Goroutines, OthersStay(g), go[g].sub \in Subs,
             Deactivate({go[g].sub}), id' = id,
             tracked' = tracked \/ Untrack(go[g].sub),
             Carried(s) => Carried(s)'
      PROVE  id'[s] \in Ids /\ Owned(s)'
  <2>1. active[s] /\ s # go[g].sub
    BY <1>5 DEF Deactivate, TypeOK
  <2>2. id[s] \in Ids /\ id[s] # id[go[g].sub]
    BY <1>0, <1>5, <2>1 DEF DistinctIds
  <2>3. tracked'[id[s]] = tracked[id[s]]
    BY <1>5, <2>2 DEF Untrack, TypeOK
  <2>4. ~Answers(g, s)
    BY <2>1 DEF Answers
  <2> QED BY <1>3, <1>5, <2>1, <2>3, <2>4
<1>6. ASSUME NEW p \in Callers, Waits(p) PROVE id'[s] \in Ids /\ Owned(s)'
  <2>1. /\ p \in Goroutines /\ p \notin Restorers /\ OthersStay(p)
        /\ UNCHANGED <<active, id, tracked, rec, taken>>
    BY <1>6 DEF Waits, subVars, recVars
  <2>2. ~Answers(p, s)
    BY <1>6, <2>1 DEF Waits, Outside, Answers, Settling, Kinds, Kind,
       InHandshake
  <2> QED BY <1>3, <2>1, <2>2 DEF Carried
<1>7. ASSUME NEW g \in Goroutines, Walks(g) PROVE id'[s] \in Ids /\ Owned(s)'
  <2>1. /\ OthersStay(g) /\ UNCHANGED <<active, id, tracked, taken>>
        /\ Carried(s) => Carried(s)'
    BY <1>7 DEF Walks, subVars, StartReconnect, reconnecting, Carried
  <2>2. Answers(g, s) => Answers(g, s)'
    BY <1>7 DEF Walks, WalkAct, Answers, Settling, Kinds, Kind
  <2> QED BY <1>3, <2>1, <2>2
<1>8. ASSUME NEW p \in Callers, CallerSettles(p)
      PROVE  id'[s] \in Ids /\ Owned(s)'
  <2>0. p \in Goroutines /\ p \notin Restorers
    OBVIOUS
  <2>1. CASE BeginUnsubscribe(p)
    <3>1. OthersStay(p)
      BY <2>1, CallerSettlesEffects DEF Becomes
    <3>2. UNCHANGED <<active, id, tracked, rec, taken>>
      BY <2>1 DEF BeginUnsubscribe, recVars
    <3>3. ~Answers(p, s)
      BY <2>0, <2>1 DEF BeginUnsubscribe, Answers, Settling
    <3> QED BY <1>3, <2>0, <3>1, <3>2, <3>3 DEF Carried
  <2>2. CASE UnsubscribeFails(p)
    <3>1. OthersStay(p)
      BY <2>2, CallerSettlesEffects DEF Leaves
    <3>2. UNCHANGED <<active, id, tracked, rec, taken>>
      BY <2>2 DEF UnsubscribeFails, recVars
    <3>3. ~Answers(p, s)
      BY <2>0, <2>2 DEF UnsubscribeFails, Answers, Settling
    <3> QED BY <1>3, <2>0, <3>1, <3>2, <3>3 DEF Carried
  <2>3. CASE SubscribeReturns(p) \/ SubscribeFails(p) \/ UnsubscribeReturns(p)
    <3>1. OthersStay(p)
      BY <2>3, CallerSettlesEffects DEF Leaves
    <3>2. go[p].sub \in Subs
      BY <2>0, <2>3 DEF BusyHasSub, SubscribeReturns, SubscribeFails,
         UnsubscribeReturns
    <3>3. UNCHANGED <<id, rec, taken>>
      BY <2>3 DEF SubscribeReturns, SubscribeFails, UnsubscribeReturns, recVars
    <3>4. \/ Track(go[p].sub) /\ active' = active
          \/ /\ Deactivate({go[p].sub})
             /\ tracked' = tracked \/ Untrack(go[p].sub)
      BY <2>3 DEF SubscribeReturns, SubscribeFails, UnsubscribeReturns
    <3> QED BY <1>4, <1>5, <2>0, <3>1, <3>2, <3>3, <3>4 DEF Carried
  <2> QED BY <1>8, <2>1, <2>2, <2>3 DEF CallerSettles
<1>9. ASSUME NEW g \in Goroutines, CallSettles(g)
      PROVE  id'[s] \in Ids /\ Owned(s)'
  <2>0. OthersStay(g)
    BY <1>0, <1>9, CallSettlesEffects DEF CallSettles, Becomes
  <2>1. UNCHANGED <<tracked, rec, taken>>
    BY <1>9 DEF CallSettles, BeginSubscribe, AwaitSubscribed, UnlockOpMu,
       ServeSubscribe, Answer, subVars, recVars
  <2>2. CASE AwaitSubscribed(g)
    <3>1. Pending(g) /\ go[g].sub \in Subs
      BY <2>2 DEF AwaitSubscribed, Pending, BusyHasSub
    <3>2. CASE s = go[g].sub
      <4>1. id'[s] \in Ids
        BY <2>2, <3>1, <3>2 DEF AwaitSubscribed, PendingFresh, TypeOK
      <4>2. Answers(g, s)'
        BY <1>0, <2>2, <3>2, CallSettlesEffects DEF AwaitSubscribed, Becomes,
           Answers, Settling
      <4> QED BY <4>1, <4>2 DEF Owned
    <3>3. CASE s # go[g].sub
      <4>1. active[s] /\ id'[s] = id[s]
        BY <2>2, <3>1, <3>3 DEF AwaitSubscribed, TypeOK
      <4>2. ~Answers(g, s)
        BY <3>3 DEF Answers
      <4> QED BY <1>3, <2>0, <2>1, <4>1, <4>2 DEF Carried
    <3> QED BY <3>2, <3>3
  <2>3. CASE ~AwaitSubscribed(g)
    <3>1. UNCHANGED <<active, id>>
      BY <1>9, <2>3 DEF CallSettles, BeginSubscribe, UnlockOpMu,
         ServeSubscribe, Answer, subVars
    <3>2. Answers(g, s) => Answers(g, s)'
      <4>1. CASE BeginSubscribe(g)
        BY <1>0, <4>1, CallSettlesEffects DEF BeginSubscribe, Becomes, Answers,
           Settling
      <4>2. CASE UnlockOpMu(g)
        <5>1. /\ go'[g].at = "settle" /\ go'[g].op = "subscribe"
              /\ go'[g].out = Result(g) /\ go'[g].sub = go[g].sub
          BY <1>0, <4>2, CallSettlesEffects DEF Becomes
        <5>2. go[g].at = "return" /\ go[g].op # "unsubscribe"
          BY <4>2 DEF UnlockOpMu
        <5>3. Settling(g) => Settling(g)'
          BY <5>1, <5>2 DEF Settling, Result
        <5> QED BY <5>1, <5>3 DEF Answers
      <4>3. CASE ServeSubscribe(g)
        BY <1>0, <4>3, CallSettlesEffects DEF ServeSubscribe, Answer, Becomes,
           Answers, Settling
      <4> QED BY <1>9, <2>3, <4>1, <4>2, <4>3 DEF CallSettles
    <3> QED BY <1>3, <2>0, <2>1, <3>1, <3>2 DEF Carried
  <2> QED BY <2>2, <2>3
<1>10. ASSUME NEW i \in Restorers, RestorerSteps(i)
       PROVE  id'[s] \in Ids /\ Owned(s)'
  <2>1. Leave(i) /\ i \in Goroutines /\ go[i].sub \in Subs
        /\ UNCHANGED <<id, rec, taken>>
    BY <1>10 DEF RestorerSteps, Restored, RestoreInterrupted, RestoreFails,
       BusyHasSub, recVars
  <2>2. OthersStay(i)
    BY <1>0, <2>1, LeaveEffects DEF Leaves
  <2>3. \/ Track(go[i].sub) /\ active' = active
        \/ Deactivate({go[i].sub}) /\ tracked' = tracked
    BY <1>10 DEF RestorerSteps, Restored, RestoreInterrupted, RestoreFails
  <2> QED BY <1>4, <1>5, <2>1, <2>2, <2>3 DEF Carried
\* While a reconnect runs, what is tracked and active is not marked, unless an
\* interrupted Unsubscribe answers for it.
<1>11. ASSUME active[s], rec # "off", tracked[id[s]] = s, go' = go
       PROVE  s \in TakenNow \/ Owned(s)'
  <2>1. CASE unsubscribing[s]
    <3>1. PICK p \in Callers : Marks(p, s)
      BY <2>1 DEF Marked
    <3>2. Answers(p, s)
      BY <1>11, <3>1 DEF Undisturbed, Marks, Answers, Settling
    <3>3. Answers(p, s)'
      BY <1>1, <1>11, <3>2 DEF Stays
    <3> QED BY <3>3 DEF Owned
  <2>2. CASE ~unsubscribing[s]
    <3>1. id[s] \in Ids /\ Takes[id[s]] = s
      BY <1>0, <1>11, <2>2 DEF Takes, ShouldResubscribe
    <3> QED BY <3>1 DEF TakenNow
  <2> QED BY <2>1, <2>2
<1>12. ASSUME ReconnectTakes PROVE id'[s] \in Ids /\ Owned(s)'
  <2>1. /\ active[s] /\ id' = id /\ go' = go /\ rec = "take" /\ taken' = Takes
        /\ rec' = IF TakenNow = {} THEN "shut" ELSE "dial"
    BY <1>12 DEF ReconnectTakes
  <2>2. s \in TakenNow => Owned(s)'
    BY <2>1 DEF TakenNow, Owned, Carried
  <2>3. ~Carried(s) /\ \A h \in Goroutines : Stays(h)
    BY <2>1 DEF Carried, Stays
  <2> QED BY <1>2, <1>11, <2>1, <2>2, <2>3
<1>13. ASSUME ReconnectSweeps PROVE id'[s] \in Ids /\ Owned(s)'
  <2>1. id' = id /\ go' = go /\ rec = "sweep"
    BY <1>13 DEF ReconnectSweeps
  <2>2. ~Carried(s) /\ \A h \in Goroutines : Stays(h)
    BY <2>1 DEF Carried, Stays
  <2>3. CASE closed
    <3>1. active[s] /\ s \notin TakenNow
      BY <1>13, <2>3 DEF ReconnectSweeps, Deactivate, TypeOK
    <3> QED BY <1>2, <1>11, <2>1, <2>2, <3>1
  <2>4. CASE ~closed
    <3>1. active[s] /\ tracked' = tracked
      BY <1>13, <2>4 DEF ReconnectSweeps
    <3>2. tracked[id[s]] = s => Owned(s)'
      BY <2>1, <3>1 DEF Owned
    <3> QED BY <1>2, <2>1, <2>2, <3>1, <3>2
  <2> QED BY <2>3, <2>4
<1>14. ASSUME ReconnectAbandons PROVE id'[s] \in Ids /\ Owned(s)'
  <2>1. /\ active[s] /\ s \notin Held
    BY <1>14 DEF ReconnectAbandons, Deactivate, TypeOK
  <2>2. id' = id /\ go' = go /\ tracked' = tracked
    BY <1>14 DEF ReconnectAbandons
  <2>3. ~Carried(s)
    BY <2>1 DEF Carried, Held
  <2>4. tracked[id[s]] = s => Owned(s)'
    BY <2>2 DEF Owned
  <2>5. \A h \in Goroutines : Stays(h)
    BY <2>2 DEF Stays
  <2> QED BY <1>2, <2>1, <2>2, <2>3, <2>4, <2>5
<1>15. ASSUME ReconnectPublishes PROVE id'[s] \in Ids /\ Owned(s)'
  <2>0. ReconnectSettles
    BY <1>15 DEF ReconnectSettles
  <2>1. active[s] /\ id' = id /\ tracked' = tracked /\ rec = "publish"
    BY <1>15 DEF ReconnectPublishes, subVars
  <2>2. tracked[id[s]] = s => Owned(s)'
    BY <2>1 DEF Owned
  <2>3. ASSUME NEW i \in Ids, taken[i] = s PROVE Owned(s)'
    <3>1. Starts(i) /\ i \in Goroutines
      BY <1>15, <2>0, <2>3, ReconnectSettlesEffects
    <3>2. Answers(i, s)'
      BY <2>3, <3>1 DEF Starts, Answers
    <3> QED BY <3>1, <3>2 DEF Owned
  <2>4. Carried(s) => Owned(s)'
    BY <2>3 DEF Carried
  <2>5. ASSUME NEW h \in Goroutines, Answers(h, s) PROVE Stays(h)
    <3>1. h \notin Restorers
      BY <2>1, <2>5 DEF Answers, Settling, RestorersInJoin, Kinds, Kind
    <3> QED BY <2>0, <3>1, ReconnectSettlesEffects DEF Starts
  <2> QED BY <1>2, <2>1, <2>2, <2>4, <2>5
<1>16. ASSUME CloseSweeps PROVE id'[s] \in Ids /\ Owned(s)'
  <2>1. active[s]
    BY <1>16 DEF CloseSweeps, Deactivate, TypeOK
  <2>2. UNCHANGED <<id, go, tracked, rec, taken>>
    BY <1>16 DEF CloseSweeps, recVars
  <2>3. \A h \in Goroutines : Stays(h)
    BY <2>2 DEF Stays
  <2> QED BY <1>2, <2>1, <2>2, <2>3 DEF Owned, Carried
<1>17. ASSUME Quiets PROVE id'[s] \in Ids /\ Owned(s)'
  <2>1. /\ UNCHANGED <<active, id, tracked>>
        /\ Carried(s) => Carried(s)'
    BY <1>17 DEF Quiets, subVars, RecMoves, Carried
  <2> QED BY <1>2, <1>17, <2>1 DEF Quiets, Owned
<1> QED BY <1>0, <1>6, <1>7, <1>8, <1>9, <1>10, <1>12, <1>13, <1>14, <1>15,
           <1>16, <1>17, StepKinds DEF ReconnectSettles

\* What holds at every step of an undisturbed Conn.
OwnInv == /\ Inv /\ Kinds /\ RestorersInJoin /\ Marked
          /\ DistinctIds /\ PendingFresh /\ ActiveOwned

\* Nothing is active at first.
LEMMA InitOwn == Init => OwnInv
<1> SUFFICES ASSUME Init PROVE OwnInv
  OBVIOUS
<1>1. \A g \in Goroutines : /\ go[g].at = "idle" /\ go[g].op = "none"
                            /\ go[g].out = "none"
  BY DEF Init, NoOperation
<1>2. Kinds /\ RestorersInJoin /\ PendingFresh
  BY <1>1 DEF Kinds, Kind, InHandshake, RestorersInJoin, PendingFresh, Pending
<1>3. Marked /\ DistinctIds /\ ActiveOwned
  BY DEF Init, Marked, DistinctIds, ActiveOwned
<1> QED BY <1>2, <1>3, InitInv DEF OwnInv

\* While the behaviour is undisturbed every step keeps the invariant.
LEMMA OwnStep ==
    ASSUME "idReuse" \notin Overlaps
    PROVE  OwnInv /\ Undisturbed /\ [Next]_vars => OwnInv'
<1> SUFFICES ASSUME OwnInv, Undisturbed, [Next]_vars PROVE OwnInv'
  OBVIOUS
<1>1. TypeOK /\ BusyHasSub /\ Inv'
  BY InvStep DEF OwnInv, Inv
<1> QED BY <1>1, KindsStep, JoinStep, MarkedStep, IdsStep, OwnedStep DEF OwnInv

\* About: ActiveIsOwned.  In any behaviour in which no reconnect runs while the
\* answer to an Unsubscribe is open, and the server does not reuse ids, an
\* active subscription is always tracked, held by the reconnect, or in the
\* hands of an operation that will settle it.
THEOREM UndisturbedOwns ==
    ASSUME "idReuse" \notin Overlaps
    PROVE  Spec /\ []Undisturbed => []ActiveIsOwned
<1>1. OwnInv => ActiveIsOwned
  <2> SUFFICES ASSUME OwnInv, NEW s \in Subs, active[s]
               PROVE  \/ \E i \in Ids : tracked[i] = s \/ taken[i] = s
                      \/ \E g \in Goroutines : /\ go[g].sub = s
                                                /\ go[g].at # "idle"
    BY DEF ActiveIsOwned
  <2>1. id[s] \in Ids /\ Owned(s)
    BY DEF OwnInv, ActiveOwned
  <2>2. ASSUME NEW g \in Goroutines, Answers(g, s)
        PROVE  go[g].sub = s /\ go[g].at # "idle"
    BY <2>2 DEF Answers, Settling, OwnInv, Kinds, Kind
  <2> QED BY <2>1, <2>2 DEF Owned, Carried
<1>2. Init => OwnInv
  BY InitOwn
<1>3. OwnInv /\ Undisturbed /\ [Next]_vars => OwnInv'
  BY OwnStep
<1> QED BY <1>1, <1>2, <1>3, PTL DEF Spec

-----------------------------------------------------------------------------
(* When no reconnect disturbs an Unsubscribe.                              *)

\* A reader that has stopped has lost its socket.
StoppedIsDown ==
    \A s \in Sockets : reader[s] \in {"failed", "current"} => sock[s] = "down"

\* A reader stops after its socket was lost, and no socket comes back.
LEMMA StoppedStep ==
    ASSUME TypeOK, SocketsInv, StoppedIsDown, [Next]_vars
    PROVE  StoppedIsDown'
<1> USE DEF TypeOK, SocketsInv, UndialedUnused, StoppedIsDown
<1>1. ASSUME UNCHANGED <<sock, reader>> PROVE StoppedIsDown'
  BY <1>1
<1>2. ASSUME NEW p \in Callers, OutsideStep(p) PROVE StoppedIsDown'
  BY <1>1, <1>2 DEF OutsideStep, StartSubscribe, StartUnsubscribe,
     WaitReturns, WaitFails, LockSubscriptionOpMu, NothingToDo,
     SubscribeRetries, OnlyGoChanges, netVars
<1>3. ASSUME NEW p \in Callers, CallerSettles(p) PROVE StoppedIsDown'
  BY <1>1, <1>3 DEF CallerSettles, BeginUnsubscribe, SubscribeReturns,
     SubscribeFails, UnsubscribeReturns, UnsubscribeFails, netVars
<1>4. ASSUME NEW g \in Goroutines, WalkStep(g) PROVE StoppedIsDown'
  <2>1. CASE EnsureDials(g)
    BY <2>1 DEF EnsureDials, Dialed
  <2>2. CASE ~EnsureDials(g)
    BY <1>1, <1>4, <2>2 DEF WalkStep, CallStarts, EnsureCurrent, CallFails,
       Write, WriteFails, AwaitFails, AwaitReturns, HandleSubscribe,
       HandleSubscribeFails, ServeUnsubscribe, ServeRefusal, Answer,
       OnlyGoChanges, netVars
  <2> QED BY <2>1, <2>2
<1>5. ASSUME NEW g \in Goroutines, CallSettles(g) PROVE StoppedIsDown'
  BY <1>1, <1>5 DEF CallSettles, BeginSubscribe, AwaitSubscribed, UnlockOpMu,
     ServeSubscribe, Answer, netVars
<1>6. ASSUME NEW i \in Restorers, RestorerSteps(i) PROVE StoppedIsDown'
  BY <1>1, <1>6 DEF RestorerSteps, Restored, RestoreInterrupted, RestoreFails,
     netVars
<1>7. ASSUME ReconnectSettles PROVE StoppedIsDown'
  <2>1. ASSUME ReconnectPublishes PROVE StoppedIsDown'
    BY <2>1 DEF ReconnectPublishes
  <2>2. ASSUME ReconnectAbandons PROVE StoppedIsDown'
    BY <2>2 DEF ReconnectAbandons, Down
  <2> QED BY <1>1, <1>7, <2>1, <2>2 DEF ReconnectSettles, ReconnectTakes,
         ReconnectSweeps, CloseSweeps, netVars
<1>8. ASSUME QuietStep PROVE StoppedIsDown'
  <2>1. ASSUME NEW s \in Sockets, ReaderSteps(s) \/ Drop(s)
        PROVE  StoppedIsDown'
    BY <2>1 DEF ReaderSteps, ReadFails, ReaderChecks, ReaderReconnects, Drop,
       Down
  <2>2. ASSUME ReconnectDials PROVE StoppedIsDown'
    BY <2>2 DEF ReconnectDials, Dialed
  <2>3. ASSUME ReconnectShuts \/ CloseShuts PROVE StoppedIsDown'
    BY <2>3 DEF ReconnectShuts, CloseShuts, CloseWebSocket, Down
  <2> QED BY <1>1, <1>8, <2>1, <2>2, <2>3 DEF QuietStep, ReconnectJoins,
         ReconnectRetries, ReconnectFinishes, CloseCancels, netVars, vars
<1> QED BY <1>2, <1>3, <1>4, <1>5, <1>6, <1>7, <1>8, StepCases

\* An outage begins with a call that cannot be written, with the loss of a
\* socket, or with Close.
LEMMA OutageStarts ==
    ASSUME TypeOK, SocketsInv, StoppedIsDown, ~Outage, Outage', [Next]_vars
    PROVE  \/ \E g \in Goroutines : WriteFails(g) /\ ~closed
           \/ \E s \in Sockets : Drop(s)
           \/ CloseShuts
<1> USE DEF TypeOK, SocketsInv, UndialedUnused, StoppedIsDown, Outage
<1>1. ASSUME UNCHANGED <<sock, reader, rec>> PROVE FALSE
  BY <1>1
<1>2. ASSUME NEW p \in Callers, OutsideStep(p) PROVE FALSE
  BY <1>1, <1>2 DEF OutsideStep, StartSubscribe, StartUnsubscribe,
     WaitReturns, WaitFails, LockSubscriptionOpMu, NothingToDo,
     SubscribeRetries, OnlyGoChanges, netVars, recVars
<1>3. ASSUME NEW p \in Callers, CallerSettles(p) PROVE FALSE
  BY <1>1, <1>3 DEF CallerSettles, BeginUnsubscribe, SubscribeReturns,
     SubscribeFails, UnsubscribeReturns, UnsubscribeFails, netVars, recVars
<1>4. ASSUME NEW g \in Goroutines, WalkStep(g) PROVE WriteFails(g) /\ ~closed
  <2>1. ASSUME EnsureDials(g) PROVE FALSE
    BY <2>1 DEF EnsureDials, Dialed, recVars
  <2>2. ASSUME ~EnsureDials(g), ~WriteFails(g) PROVE FALSE
    BY <1>1, <1>4, <2>2 DEF WalkStep, CallStarts, EnsureCurrent, CallFails,
       Write, AwaitFails, AwaitReturns, HandleSubscribe,
       HandleSubscribeFails, ServeUnsubscribe, ServeRefusal, Answer,
       OnlyGoChanges, netVars, recVars
  <2>3. WriteFails(g) => ~closed
    BY <1>1 DEF WriteFails, StartReconnect, netVars
  <2> QED BY <2>1, <2>2, <2>3
<1>5. ASSUME NEW g \in Goroutines, CallSettles(g) PROVE FALSE
  BY <1>1, <1>5 DEF CallSettles, BeginSubscribe, AwaitSubscribed, UnlockOpMu,
     ServeSubscribe, Answer, netVars, recVars
<1>6. ASSUME NEW i \in Restorers, RestorerSteps(i) PROVE FALSE
  BY <1>1, <1>6 DEF RestorerSteps, Restored, RestoreInterrupted, RestoreFails,
     netVars, recVars
<1>7. ASSUME ReconnectSettles PROVE FALSE
  BY <1>1, <1>7 DEF ReconnectSettles, ReconnectTakes, ReconnectAbandons,
     ReconnectPublishes, ReconnectSweeps, CloseSweeps, netVars, recVars
<1>8. ASSUME QuietStep, ~CloseShuts PROVE \E s \in Sockets : Drop(s)
  <2>1. ASSUME NEW s \in Sockets, ReaderSteps(s) PROVE FALSE
    BY <2>1 DEF ReaderSteps, ReadFails, ReaderChecks, ReaderReconnects
  <2> QED BY <1>1, <1>8, <2>1 DEF QuietStep, ReconnectShuts, ReconnectDials,
       ReconnectJoins, ReconnectRetries, ReconnectFinishes, CloseCancels,
       netVars, recVars, vars
<1> QED BY <1>2, <1>3, <1>4, <1>5, <1>6, <1>7, <1>8, StepCases

\* The reconnect never starts on a closed Conn, which never opens again.
LEMMA ClosedForGood ==
    ASSUME TypeOK, closed, [Next]_vars
    PROVE  closed' /\ (rec = "off" => rec' = "off")
<1> USE DEF closed
<1>1. CASE Quiets
  BY <1>1 DEF Quiets, RecMoves, CloseMoves
<1>2. CASE \E p \in Callers : Waits(p) \/ CallerSettles(p)
  BY <1>2 DEF Waits, CallerSettles, BeginUnsubscribe, SubscribeReturns,
     SubscribeFails, UnsubscribeReturns, UnsubscribeFails, recVars
<1>3. CASE \E g \in Goroutines : Walks(g) \/ CallSettles(g)
  BY <1>3 DEF Walks, StartReconnect, CallSettles, BeginSubscribe,
     AwaitSubscribed, UnlockOpMu, ServeSubscribe, Answer, recVars
<1>4. CASE \E i \in Restorers : RestorerSteps(i)
  BY <1>4 DEF RestorerSteps, Restored, RestoreInterrupted, RestoreFails,
     recVars
<1>5. CASE ReconnectSettles
  BY <1>5 DEF ReconnectSettles, ReconnectTakes, ReconnectAbandons,
     ReconnectPublishes, ReconnectSweeps, CloseSweeps, recVars
<1> QED BY <1>1, <1>2, <1>3, <1>4, <1>5, StepKinds

\* An Unsubscribe begins when the application may start it, and once its
\* answer is there only its own goroutine goes on.
LEMMA UnsubscribeKept ==
    ASSUME TypeOK, BusyHasSub, NEW p \in Callers, [Next]_vars,
           go'[p].op = "unsubscribe"
    PROVE  \/ /\ go[p].op = "unsubscribe"
              /\ go[p].at = "return" => Stays(p)
           \/ go[p].at = "idle" /\ MayStart("unsubscribe") /\ Waits(p)
<1> DEFINE Goal == \/ /\ go[p].op = "unsubscribe"
                      /\ go[p].at = "return" => Stays(p)
                   \/ go[p].at = "idle" /\ MayStart("unsubscribe") /\ Waits(p)
<1>0. Typed(go) /\ p \in Goroutines /\ p \notin Restorers
  BY DEF TypeOK, Typed
<1>1. Stays(p) => Goal
  BY DEF Stays
<1>2. ASSUME NEW g, OthersStay(g), g # p PROVE Goal
  BY <1>0, <1>1, <1>2 DEF OthersStay
<1>3. ASSUME NEW q \in Callers, Waits(q) PROVE Goal
  <2>1. CASE q = p
    BY <1>3, <2>1 DEF Waits, Outside
  <2> QED BY <1>2, <1>3, <2>1 DEF Waits
<1>4. ASSUME NEW q \in Callers, CallerSettles(q) PROVE Goal
  <2>1. CASE q = p
    BY <1>4, <2>1, CallerSettlesEffects DEF CallerSettles, BeginUnsubscribe,
       Becomes, Leaves
  <2> QED BY <1>2, <1>4, <2>1, CallerSettlesEffects DEF CallerSettles, Becomes,
         Leaves
<1>5. ASSUME NEW g \in Goroutines, Walks(g) PROVE Goal
  <2>1. CASE g = p
    BY <1>5, <2>1 DEF Walks, WalkAct
  <2> QED BY <1>2, <1>5, <2>1 DEF Walks
<1>6. ASSUME NEW g \in Goroutines, CallSettles(g) PROVE Goal
  <2>1. OthersStay(g) /\ go'[g].op # "unsubscribe"
    BY <1>0, <1>6, CallSettlesEffects DEF CallSettles, BeginSubscribe,
       AwaitSubscribed, UnlockOpMu, ServeSubscribe, Becomes
  <2> QED BY <1>2, <2>1
<1>7. ASSUME NEW i \in Restorers, RestorerSteps(i) PROVE Goal
  <2>1. Leave(i)
    BY <1>7 DEF RestorerSteps, Restored, RestoreInterrupted, RestoreFails
  <2> QED BY <1>0, <1>2, <2>1, LeaveEffects DEF Leaves
<1>8. ASSUME ReconnectSettles PROVE Goal
  BY <1>0, <1>1, <1>8, ReconnectSettlesEffects DEF Starts
<1>9. ASSUME Quiets PROVE Goal
  BY <1>0, <1>1, <1>9 DEF Quiets
<1> QED BY <1>0, <1>3, <1>4, <1>5, <1>6, <1>7, <1>8, <1>9, StepKinds

\* The one caller, if outages spare its Unsubscribes, is not disturbed: either
\* there is no outage, or it has itself run into one, or the Conn is closed.
Spared(p) == \/ ~Outage
             \/ go[p].at = "return" /\ go[p].out = "interrupted"
             \/ closed /\ rec = "off"

\* Callers come one at a time and outages spare an Unsubscribe, or nobody
\* unsubscribes.
Orderly == \/ "unsubscribe" \notin Workload
           \/ /\ "outageDuringUnsubscribe" \notin Overlaps
              /\ \A p, q \in Callers : p = q

\* Every Unsubscribe is spared.
Attended ==
    \A p \in Callers : go[p].op = "unsubscribe" =>
        "unsubscribe" \in Workload /\ Spared(p)

\* An Unsubscribe that is under way when an outage begins has run into it.
LEMMA AttendedStep ==
    ASSUME Inv, RestorersInJoin, StoppedIsDown, Attended, Orderly,
           [Next]_vars
    PROVE  Attended'
<1> SUFFICES ASSUME NEW p \in Callers, go'[p].op = "unsubscribe"
             PROVE  "unsubscribe" \in Workload /\ Spared(p)'
  BY DEF Attended
<1>0. TypeOK /\ BusyHasSub /\ SocketsInv /\ Typed(go) /\ p \in Goroutines
  BY DEF Inv, TypeOK, Typed
<1>1. CASE go[p].op = "unsubscribe"
  <2>1. "unsubscribe" \in Workload /\ Spared(p)
    BY <1>1 DEF Attended
  <2>2. CASE go[p].at = "return" /\ go[p].out = "interrupted"
    <3>1. Stays(p)
      BY <1>0, <1>1, <2>2, UnsubscribeKept
    <3> QED BY <2>1, <2>2, <3>1 DEF Stays, Spared
  <2>3. CASE closed /\ rec = "off"
    BY <1>0, <2>1, <2>3, ClosedForGood DEF Spared
  <2>4. CASE ~Outage /\ Outage'
    <3>1. ASSUME NEW g \in Goroutines, WriteFails(g) PROVE Spared(p)'
      <4>1. rec # "join"
        BY <2>4 DEF Outage
      <4>2. g \in Callers
        BY <3>1, <4>1 DEF WriteFails, RestorersInJoin
      <4>3. g = p
        BY <2>1, <4>2 DEF Orderly
      <4>4. Typed(Drained(go[p].sock))
        BY <1>0, DrainedType
      <4>5. go'[p].at = "return" /\ go'[p].out = "interrupted"
        BY <1>0, <3>1, <4>3, <4>4 DEF WriteFails, Typed, Operation
      <4> QED BY <4>5 DEF Spared
    <3>2. ASSUME NEW s \in Sockets, Drop(s) PROVE FALSE
      BY <1>1, <2>1, <3>2 DEF Drop, Unsubscribing, Orderly
    <3>3. ASSUME CloseShuts PROVE Spared(p)'
      BY <2>4, <3>3 DEF CloseShuts, recVars, Outage, Spared, closed
    <3> QED BY <1>0, <2>1, <2>4, <3>1, <3>2, <3>3, OutageStarts
  <2> QED BY <2>1, <2>2, <2>3, <2>4 DEF Spared
<1>2. CASE go[p].op # "unsubscribe"
  <2>1. MayStart("unsubscribe") /\ Waits(p)
    BY <1>0, <1>2, UnsubscribeKept
  <2>2. "unsubscribe" \in Workload /\ ~Outage
    BY <2>1 DEF MayStart, Orderly
  <2>3. ~Outage'
    BY <2>1, <2>2 DEF Waits, Outage, netVars, recVars
  <2> QED BY <2>2, <2>3 DEF Spared
<1> QED BY <1>1, <1>2

\* An orderly Conn is undisturbed.
LEMMA OrderlyUndisturbed ==
    ASSUME "idReuse" \notin Overlaps, Orderly
    PROVE  Spec => []Undisturbed
<1> DEFINE I == OwnInv /\ StoppedIsDown /\ Attended
<1>1. Init => I
  <2> SUFFICES ASSUME Init PROVE StoppedIsDown /\ Attended
    BY InitOwn
  <2>1. \A p \in Callers : go[p].op = "none"
    BY DEF Init, NoOperation
  <2> QED BY <2>1 DEF Init, StoppedIsDown, Attended
<1>2. I => Undisturbed
  BY DEF Attended, Spared, Undisturbed, Outage
<1>3. I /\ [Next]_vars => I'
  <2> SUFFICES ASSUME I, [Next]_vars PROVE I'
    OBVIOUS
  <2>1. OwnInv'
    BY <1>2, OwnStep
  <2>2. Inv /\ RestorersInJoin /\ TypeOK /\ SocketsInv
    BY DEF OwnInv, Inv
  <2> QED BY <2>1, <2>2, StoppedStep, AttendedStep
<1> HIDE DEF I
<1> QED BY <1>1, <1>2, <1>3, PTL DEF Spec

\* What a step may do to the sockets, the reconnect and Close.
NetStep ==
    \/ UNCHANGED <<conn, sock, reader, rec, dialedByRec, closing>>
    \/ \E g \in Goroutines : EnsureDials(g) \/ WriteFails(g)
    \/ \E s \in Sockets : ReaderSteps(s) \/ Drop(s)
    \/ ReconnectSteps \/ CloseCancels \/ CloseSteps

\* Every other step leaves them alone.
LEMMA NetSteps == ASSUME [Next]_vars PROVE NetStep
<1> USE DEF NetStep
<1>1. ASSUME NEW p \in Callers, OutsideStep(p) PROVE NetStep
  BY <1>1 DEF OutsideStep, StartSubscribe, StartUnsubscribe,
     WaitReturns, WaitFails, LockSubscriptionOpMu, NothingToDo,
     SubscribeRetries, OnlyGoChanges, netVars, recVars
<1>2. ASSUME NEW p \in Callers, CallerSettles(p) PROVE NetStep
  BY <1>2 DEF CallerSettles, BeginUnsubscribe, SubscribeReturns,
     SubscribeFails, UnsubscribeReturns, UnsubscribeFails, netVars, recVars
<1>3. ASSUME NEW g \in Goroutines, WalkStep(g) PROVE NetStep
  BY <1>3 DEF WalkStep, CallStarts, EnsureCurrent, CallFails,
     Write, AwaitFails, AwaitReturns, HandleSubscribe,
     HandleSubscribeFails, ServeUnsubscribe, ServeRefusal, Answer,
     OnlyGoChanges, netVars, recVars
<1>4. ASSUME NEW g \in Goroutines, CallSettles(g) PROVE NetStep
  BY <1>4 DEF CallSettles, BeginSubscribe, AwaitSubscribed, UnlockOpMu,
     ServeSubscribe, Answer, netVars, recVars
<1>5. ASSUME NEW i \in Restorers, RestorerSteps(i) PROVE NetStep
  BY <1>5 DEF RestorerSteps, Restored, RestoreInterrupted, RestoreFails,
     netVars, recVars
<1>6. ASSUME ReconnectSettles PROVE NetStep
  BY <1>6 DEF ReconnectSettles, ReconnectSteps, CloseSteps
<1>7. ASSUME QuietStep PROVE NetStep
  BY <1>7 DEF QuietStep, ReconnectSteps, CloseSteps, netVars, recVars, vars
<1> QED BY <1>1, <1>2, <1>3, <1>4, <1>5, <1>6, <1>7, StepCases

\* A caller that is at work was at work, or the application may start.
LEMMA CallerStarts ==
    ASSUME TypeOK, BusyHasSub, NEW p \in Callers, [Next]_vars,
           go[p].at = "idle", go'[p].at # "idle"
    PROVE  Waits(p) /\ MayStart(go'[p].op)
<1> DEFINE Goal == Waits(p) /\ MayStart(go'[p].op)
<1>0. Typed(go) /\ p \in Goroutines /\ p \notin Restorers
  BY DEF TypeOK, Typed
<1>1. Stays(p) => Goal
  BY DEF Stays
<1>2. ASSUME NEW g, OthersStay(g), g # p PROVE Goal
  BY <1>0, <1>1, <1>2 DEF OthersStay
<1>3. ASSUME NEW q \in Callers, Waits(q) PROVE Goal
  <2>1. CASE q = p
    BY <1>3, <2>1 DEF Waits
  <2> QED BY <1>2, <1>3, <2>1 DEF Waits
<1>4. ASSUME NEW q \in Callers, CallerSettles(q) PROVE Goal
  <2>1. go[q].at # "idle"
    BY <1>4 DEF CallerSettles, BeginUnsubscribe, SubscribeReturns,
       SubscribeFails, UnsubscribeReturns, UnsubscribeFails
  <2>2. OthersStay(q)
    BY <1>4, CallerSettlesEffects DEF CallerSettles, Becomes, Leaves
  <2> QED BY <1>2, <2>1, <2>2
<1>5. ASSUME NEW g \in Goroutines, Walks(g) PROVE Goal
  BY <1>2, <1>5 DEF Walks, WalkAct
<1>6. ASSUME NEW g \in Goroutines, CallSettles(g) PROVE Goal
  <2>1. go[g].at # "idle"
    BY <1>6 DEF CallSettles, BeginSubscribe, AwaitSubscribed, UnlockOpMu,
       ServeSubscribe, Answer
  <2>2. OthersStay(g)
    BY <1>0, <1>6, CallSettlesEffects DEF CallSettles, Becomes
  <2> QED BY <1>2, <2>1, <2>2
<1>7. ASSUME NEW i \in Restorers, RestorerSteps(i) PROVE Goal
  <2>1. Leave(i)
    BY <1>7 DEF RestorerSteps, Restored, RestoreInterrupted, RestoreFails
  <2> QED BY <1>0, <1>2, <2>1, LeaveEffects DEF Leaves
<1>8. ASSUME ReconnectSettles PROVE Goal
  BY <1>0, <1>1, <1>8, ReconnectSettlesEffects DEF Starts
<1>9. ASSUME Quiets PROVE Goal
  BY <1>0, <1>1, <1>9 DEF Quiets
<1> QED BY <1>0, <1>3, <1>4, <1>5, <1>6, <1>7, <1>8, <1>9, StepKinds

-----------------------------------------------------------------------------
(* Close.                                                                  *)

\* A Close that waits for the operations finds no caller at work.
CallersGone == closed => \A p \in Callers : go[p].at = "idle"

\* Nobody starts on a closed Conn, and Close starts when nobody is at work.
LEMMA GoneStep ==
    ASSUME TypeOK, BusyHasSub, Kinds, "closeDuringOperation" \notin Overlaps,
           CallersGone, [Next]_vars
    PROVE  CallersGone'
<1> SUFFICES ASSUME NEW p \in Callers, closed', go'[p].at # "idle" PROVE FALSE
  BY DEF CallersGone
<1> USE DEF closed
<1>1. CASE go[p].at = "idle"
  <2>1. Waits(p) /\ MayStart(go'[p].op)
    BY <1>1, CallerStarts
  <2> QED BY <2>1 DEF Waits, MayStart
<1>2. CASE go[p].at # "idle"
  <2>1. ~closed
    BY <1>2 DEF CallersGone
  <2>2. CloseCancels
    BY <2>1, NetSteps DEF NetStep, EnsureDials, WriteFails, ReaderSteps,
       ReadFails, ReaderChecks, ReaderReconnects, Drop, ReconnectSteps,
       ReconnectTakes, ReconnectShuts, ReconnectDials, ReconnectAbandons,
       ReconnectPublishes, ReconnectJoins, ReconnectRetries, ReconnectSweeps,
       ReconnectFinishes, CloseSteps, CloseShuts, CloseSweeps
  <2>3. ~Subscribing /\ ~Unsubscribing
    BY <2>2 DEF CloseCancels
  <2>4. go[p].op \in {"none", "subscribe", "unsubscribe", "cleanup"}
    BY DEF TypeOK, Operation
  <2> QED BY <1>2, <2>3, <2>4 DEF Subscribing, Unsubscribing, Kinds, Kind
<1> QED BY <1>1, <1>2

\* Once Close has swept, what is still active is in the hands of the reconnect,
\* which sweeps as well before it ends.
Swept == closing = "done" /\ rec \in {"off", "take", "shut", "finish"}
             => \A s \in Subs : ~active[s]

\* What Close finds in the map it deactivates; what it does not find there the
\* reconnect holds, or will track and then sweep.
LEMMA SweptStep ==
    ASSUME OwnInv, CallersGone, Swept, [Next]_vars
    PROVE  Swept'
<1> SUFFICES ASSUME closing' = "done", NEW s \in Subs, active'[s],
                    rec' \in {"off", "take", "shut", "finish"}
             PROVE  FALSE
  BY DEF Swept
<1> USE DEF OwnInv, Inv, CallersGone, closed
<1>0. Typed(go)
  BY DEF TypeOK, Typed
<1>1. ASSUME active[s], closed, rec # "join", ~Carried(s)
      PROVE  tracked[id[s]] = s /\ id[s] \in Ids /\ ~unsubscribing[s]
  <2>1. \A h \in Goroutines : go[h].at = "idle"
    BY <1>1 DEF RestorersInJoin
  <2>2. \A h \in Goroutines : ~Answers(h, s)
    BY <2>1 DEF Answers, Settling, Kinds, Kind
  <2>3. ~unsubscribing[s]
    BY <2>1 DEF Marked, Marks, InHandshake
  <2> QED BY <1>1, <2>2, <2>3 DEF ActiveOwned, Owned
<1>2. ASSUME closing = "done", active[s], rec' = rec PROVE FALSE
  BY <1>2 DEF Swept
<1>3. ASSUME NEW p \in Callers, Waits(p) PROVE FALSE
  BY <1>2, <1>3 DEF Waits, subVars, recVars
<1>4. ASSUME NEW p \in Callers, CallerSettles(p) PROVE FALSE
  BY <1>4 DEF CallerSettles, BeginUnsubscribe, SubscribeReturns,
     SubscribeFails, UnsubscribeReturns, UnsubscribeFails
<1>5. ASSUME NEW g \in Goroutines, Walks(g) PROVE FALSE
  BY <1>2, <1>5 DEF Walks, subVars, StartReconnect
<1>6. ASSUME NEW g \in Goroutines, CallSettles(g) PROVE FALSE
  <2>1. /\ go[g].at # "idle" /\ closing = "done" /\ rec' = rec
    BY <1>6 DEF CallSettles, BeginSubscribe, AwaitSubscribed, UnlockOpMu,
       ServeSubscribe, Answer, recVars
  <2> QED BY <2>1 DEF RestorersInJoin
<1>7. ASSUME NEW i \in Restorers, RestorerSteps(i) PROVE FALSE
  <2>1. go[i].at # "idle" /\ rec' = rec
    BY <1>7 DEF RestorerSteps, Restored, RestoreInterrupted, RestoreFails,
       recVars
  <2> QED BY <2>1 DEF RestorersInJoin
<1>8. ASSUME ReconnectSettles PROVE FALSE
  <2>1. CASE ReconnectTakes
    BY <2>1 DEF ReconnectTakes, Swept
  <2>2. CASE ReconnectAbandons \/ ReconnectPublishes
    BY <2>2 DEF ReconnectAbandons, ReconnectPublishes
  <2>3. CASE ReconnectSweeps
    <3>1. active[s] /\ s \notin TakenNow /\ closed /\ rec = "sweep"
      BY <2>3 DEF ReconnectSweeps, Deactivate, TypeOK
    <3>2. tracked[id[s]] = s /\ id[s] \in Ids /\ ~unsubscribing[s]
      BY <1>1, <3>1 DEF Carried
    <3>3. Takes[id[s]] = s
      BY <3>1, <3>2 DEF Takes, ShouldResubscribe
    <3> QED BY <3>1, <3>2, <3>3 DEF TakenNow
  <2>4. CASE CloseSweeps
    <3>1. active[s] /\ s \notin { tracked[i] : i \in Ids } /\ rec' = rec
          /\ closed
      BY <2>4 DEF CloseSweeps, Deactivate, TypeOK, recVars
    <3> QED BY <1>1, <3>1 DEF Carried
  <2> QED BY <1>8, <2>1, <2>2, <2>3, <2>4 DEF ReconnectSettles
<1>9. ASSUME Quiets PROVE FALSE
  <2>1. closing = "done" /\ active[s]
    BY <1>9 DEF Quiets, CloseMoves, subVars
  <2>2. rec = "finish" \/ rec' = rec
    BY <1>9, <2>1 DEF Quiets, RecMoves
  <2> QED BY <1>2, <2>1, <2>2 DEF Swept
<1> QED BY <1>0, <1>3, <1>4, <1>5, <1>6, <1>7, <1>8, <1>9, StepKinds

\* About: ClosedDeactivates.  In any behaviour in which no reconnect runs while
\* the answer to an Unsubscribe is open and Close waits for the operations, no
\* subscription is active once a closed Conn is at rest.
THEOREM UndisturbedDeactivates ==
    ASSUME "idReuse" \notin Overlaps, "closeDuringOperation" \notin Overlaps
    PROVE  Spec /\ []Undisturbed => []ClosedDeactivates
<1> DEFINE I == OwnInv /\ CallersGone /\ Swept
<1>1. Init => I
  BY InitOwn DEF Init, CallersGone, Swept, closed
<1>2. I /\ Undisturbed /\ [Next]_vars => I'
  <2> SUFFICES ASSUME I, Undisturbed, [Next]_vars PROVE I'
    OBVIOUS
  <2>1. TypeOK /\ BusyHasSub /\ Kinds
    BY DEF OwnInv, Inv
  <2> QED BY <2>1, OwnStep, GoneStep, SweptStep
<1>3. I => ClosedDeactivates
  BY DEF ClosedDeactivates, Quiescent, Swept, closed
<1> HIDE DEF I
<1> QED BY <1>1, <1>2, <1>3, PTL DEF Spec

-----------------------------------------------------------------------------
(* A calm network: outages come between the operations, one at a time.     *)

\* Outages come between the operations of the callers, and never two at once.
Calm == /\ "outageDuringSubscribe" \notin Overlaps
        /\ "outageDuringUnsubscribe" \notin Overlaps
        /\ "outageDuringReconnect" \notin Overlaps

\* A caller is at work only while no outage is, or on a closed Conn.
BusyCalm ==
    \A p \in Callers :
        go[p].at # "idle" => ~Outage \/ (closed /\ rec = "off")

\* A call is made on the current socket of an open Conn.
CallsOnCurrent ==
    ~closed => \A g \in Goroutines :
        go[g].at \in {"write", "await"} => conn # NoSocket /\ go[g].sock = conn

\* Only the current socket can be lost, and the reconnect waits for its reader.
LostIsCurrent ==
    ~closed => \A s \in Sockets :
        sock[s] = "down" /\ reader[s] \notin {"none", "done"}
            => rec = "off" /\ conn = s

\* The current socket is open, unless its loss is being dealt with.
CurrentOpen ==
    ~closed /\ conn # NoSocket =>
        \/ sock[conn] = "open"
        \/ sock[conn] = "down" /\ rec = "off" /\ reader[conn] # "done"
        \/ sock[conn] = "down" /\ rec \in {"take", "shut", "dial", "publish"}

\* A reconnect has a reason: there is no live socket until it publishes one.
ReconnectsLost ==
    ~closed /\ rec \in {"take", "shut", "dial", "publish"}
        => conn = NoSocket \/ sock[conn] = "down"

\* The socket that the reconnect has dialed is open until it is published.
FreshOpen ==
    /\ dialedByRec # NoSocket => rec = "publish"
    /\ ~closed /\ rec = "publish"
         => dialedByRec # NoSocket /\ sock[dialedByRec] = "open"

\* No open socket is lost sight of.
OpenIsKnown ==
    \A s \in Sockets : sock[s] = "open" =>
        conn = s \/ (rec = "publish" /\ dialedByRec = s)

\* How the current socket, the fresh one and their readers hang together.
CalmSockets == /\ LostIsCurrent /\ CurrentOpen /\ ReconnectsLost
               /\ FreshOpen /\ OpenIsKnown

\* Nothing interrupts a call on an open Conn.
NoneInterrupted ==
    ~closed => /\ \A g \in Goroutines :
                     go[g].out \notin {"drained", "interrupted"}
               /\ ~interrupted /\ rec # "backoff"

\* An open Conn without a socket has nothing to receive.
NoSocketNoActive ==
    ~closed /\ (conn = NoSocket \/ rec = "shut") => \A s \in Subs : ~active[s]

\* No server holds another Subscription under an id that a Subscription has,
\* or is about to have.
ServersAgree ==
    /\ \A t \in Sockets, s \in Subs :
           id[s] \in Ids => server[t][id[s]] \in {s, NoSub}
    /\ \A t \in Sockets, g \in Goroutines :
           Pending(g) => server[t][go[g].id] \in {go[g].sub, NoSub}

\* The calls of an open Conn are on a live socket.
CallsLive ==
    ~closed => \A g \in Goroutines :
        go[g].at \in {"write", "await"} => sock[go[g].sock] = "open"

\* No call of an open Conn writes to, or waits on, a lost socket.
LEMMA CallsAreLive ==
    ASSUME TypeOK, SocketsInv, RestorersInJoin, BusyCalm, CallsOnCurrent,
           CurrentOpen
    PROVE  CallsLive
<1> SUFFICES ASSUME ~closed, NEW g \in Goroutines,
                    go[g].at \in {"write", "await"}
             PROVE  sock[go[g].sock] = "open"
  BY DEF CallsLive
<1>1. conn # NoSocket /\ go[g].sock = conn
  BY DEF CallsOnCurrent
<1>2. CASE g \in Callers
  <2>1. ~Outage
    BY <1>2 DEF BusyCalm
  <2> QED BY <1>1, <2>1 DEF Outage, CurrentOpen, SocketsInv, CurrentHasReader,
         TypeOK
<1>3. CASE g \in Restorers
  BY <1>1, <1>3 DEF RestorersInJoin, CurrentOpen
<1> QED BY <1>2, <1>3

\* An outage begins when no caller is at work, and no caller starts in it.
LEMMA BusyStep ==
    ASSUME KeepsClear, TypeOK, BusyHasSub, SocketsInv, StoppedIsDown, Kinds,
           CallsLive, BusyCalm, [Next]_vars
    PROVE  BusyCalm'
<1> SUFFICES ASSUME NEW p \in Callers, go'[p].at # "idle"
             PROVE  (~Outage \/ (closed /\ rec = "off"))'
  BY DEF BusyCalm
<1>1. CASE go[p].at = "idle"
  <2>1. Waits(p) /\ ~Outage
    BY <1>1, CallerStarts DEF KeepsClear
  <2> QED BY <2>1 DEF Waits, Outage, netVars, recVars
<1>2. CASE go[p].at # "idle" /\ closed /\ rec = "off"
  BY <1>2, ClosedForGood
<1>3. CASE go[p].at # "idle" /\ ~Outage /\ Outage'
  <2>1. ASSUME NEW g \in Goroutines, WriteFails(g), ~closed PROVE FALSE
    BY <2>1 DEF WriteFails, CallsLive
  <2>2. ASSUME NEW s \in Sockets, Drop(s) PROVE FALSE
    BY <1>3, <2>2 DEF KeepsClear
  <2>3. CASE CloseShuts
    BY <1>3, <2>3 DEF CloseShuts, recVars, Outage, closed
  <2> QED BY <1>3, <2>1, <2>2, <2>3, OutageStarts
<1> QED BY <1>1, <1>2, <1>3 DEF BusyCalm

\* What ties the current socket to its reader and to the reconnect is kept.
LEMMA CalmSocketsStep ==
    ASSUME KeepsClear, TypeOK, SocketsInv, StoppedIsDown, RestorersInJoin,
           CallsLive, BusyCalm, NoneInterrupted, CalmSockets, [Next]_vars
    PROVE  CalmSockets'
<1> USE DEF TypeOK, SocketsInv, UndialedUnused, CurrentHasReader,
            StoppedIsDown, NoneInterrupted, CalmSockets, LostIsCurrent,
            CurrentOpen, ReconnectsLost, FreshOpen, OpenIsKnown, closed
<1>1. CASE UNCHANGED <<conn, sock, reader, rec, dialedByRec, closing>>
  BY <1>1
<1>2. ASSUME NEW g \in Goroutines, EnsureDials(g) PROVE CalmSockets'
  <2>1. ~closed => rec \in {"off", "join"}
    BY <1>2 DEF EnsureDials, BusyCalm, RestorersInJoin, Outage
  <2>2. PICK s \in Sockets :
           /\ dialed < MaxSockets /\ s = dialed + 1 /\ conn = NoSocket
           /\ sock' = [sock EXCEPT ![s] = "open"] /\ conn' = s
           /\ reader' = [reader EXCEPT ![s] = "reading"]
           /\ rec' = rec /\ dialedByRec' = dialedByRec /\ closing' = closing
    BY <1>2 DEF EnsureDials, Dialed, recVars
  <2> QED BY <2>1, <2>2
<1>3. ASSUME NEW g \in Goroutines, WriteFails(g) PROVE CalmSockets'
  <2>1. closed /\ rec' = rec
    BY <1>3 DEF WriteFails, CallsLive, StartReconnect
  <2> QED BY <1>3, <2>1 DEF WriteFails, netVars
<1>4. ASSUME NEW s \in Sockets, ReadFails(s) PROVE CalmSockets'
  BY <1>4 DEF ReadFails, recVars
<1>5. ASSUME NEW s \in Sockets, ReaderChecks(s) PROVE CalmSockets'
  BY <1>5 DEF ReaderChecks, recVars
<1>6. ASSUME NEW s \in Sockets, ReaderReconnects(s) PROVE CalmSockets'
  BY <1>6 DEF ReaderReconnects, StartReconnect, reconnecting
<1>7. ASSUME NEW s \in Sockets, Drop(s) PROVE CalmSockets'
  BY <1>7 DEF Drop, Down, KeepsClear, Outage, recVars, OpenIsRead
<1>8. CASE ReconnectTakes
  BY <1>8 DEF ReconnectTakes, netVars
<1>9. CASE ReconnectShuts
  BY <1>9 DEF ReconnectShuts, CloseWebSocket, Down
<1>10. CASE ReconnectDials
  BY <1>10 DEF ReconnectDials, Dialed
<1>11. CASE ReconnectAbandons
  BY <1>11 DEF ReconnectAbandons, Down
<1>12. CASE ReconnectPublishes
  BY <1>12 DEF ReconnectPublishes
<1>13. CASE ReconnectJoins \/ ReconnectRetries \/ ReconnectSweeps
            \/ ReconnectFinishes
  BY <1>13 DEF ReconnectJoins, ReconnectRetries, ReconnectSweeps,
     ReconnectFinishes, netVars
<1>14. CASE CloseCancels \/ CloseSweeps
  BY <1>14 DEF CloseCancels, CloseSweeps, netVars, recVars
<1>15. CASE CloseShuts
  BY <1>15 DEF CloseShuts, CloseWebSocket, Down, recVars
<1> QED BY <1>1, <1>2, <1>3, <1>4, <1>5, <1>6, <1>7, <1>8, <1>9, <1>10, <1>11,
           <1>12, <1>13, <1>14, <1>15, NetSteps
           DEF NetStep, ReaderSteps, ReconnectSteps, CloseSteps

\* The current socket is replaced only when no call uses it.
LEMMA OnCurrentStep ==
    ASSUME TypeOK, BusyHasSub, Kinds, RestorersInJoin, BusyCalm,
           CallsOnCurrent, [Next]_vars
    PROVE  CallsOnCurrent'
<1> SUFFICES ASSUME ~closed', NEW h \in Goroutines,
                    go'[h].at \in {"write", "await"}
             PROVE  conn' # NoSocket /\ go'[h].sock = conn'
  BY DEF CallsOnCurrent
<1> DEFINE Goal == conn' # NoSocket /\ go'[h].sock = conn'
           Same == conn' = conn \/ conn = NoSocket
<1> USE DEF closed
<1>0. /\ Typed(go)
      /\ ~closed /\ go[h].at \in {"write", "await"}
            => conn # NoSocket /\ go[h].sock = conn
  BY DEF TypeOK, Typed, CallsOnCurrent
<1>1. ASSUME Stays(h), ~closed, Same PROVE Goal
  BY <1>0, <1>1 DEF Stays
<1>2. ASSUME NEW g, OthersStay(g), ~closed, Same,
             g = h => go'[h].at \notin {"write", "await"} PROVE Goal
  BY <1>1, <1>2 DEF OthersStay
<1>3. ASSUME NEW p \in Callers, Waits(p) PROVE Goal
  BY <1>2, <1>3 DEF Waits, Outside, netVars
<1>4. ASSUME NEW p \in Callers, CallerSettles(p) PROVE Goal
  <2>1. ~closed /\ Same
    BY <1>4 DEF CallerSettles, BeginUnsubscribe, SubscribeReturns,
       SubscribeFails, UnsubscribeReturns, UnsubscribeFails, netVars
  <2> QED BY <1>2, <1>4, <2>1, CallerSettlesEffects DEF CallerSettles, Becomes,
         Leaves
<1>5. ASSUME NEW g \in Goroutines, WalkStep(g) PROVE Goal
  <2>1. Walks(g)
    BY <1>0, <1>5, WalkEffects
  <2>2. ~closed /\ Same
    BY <1>5 DEF WalkStep, CallStarts, EnsureCurrent, EnsureDials, CallFails,
       Write, WriteFails, AwaitFails, AwaitReturns, HandleSubscribe,
       HandleSubscribeFails, ServeUnsubscribe, ServeRefusal, Answer,
       OnlyGoChanges, netVars
  <2>3. CASE h = g /\ go'[g].at = "await"
    <3>1. go[g].at \in {"write", "await"} /\ go'[g].sock = go[g].sock
      BY <1>0, <2>1, <2>3 DEF Walks, WalkAct
    <3> QED BY <1>0, <2>2, <2>3, <3>1
  <2>4. CASE h = g /\ go'[g].at = "write"
    BY <2>1, <2>4 DEF Walks
  <2> QED BY <1>2, <2>1, <2>2, <2>3, <2>4 DEF Walks
<1>6. ASSUME NEW g \in Goroutines, CallSettles(g) PROVE Goal
  <2>1. ~closed /\ Same
    BY <1>6 DEF CallSettles, BeginSubscribe, AwaitSubscribed, UnlockOpMu,
       ServeSubscribe, Answer, netVars
  <2>2. OthersStay(g) /\ go'[g].sock = go[g].sock
    BY <1>0, <1>6, CallSettlesEffects DEF CallSettles, Becomes
  <2>3. go'[g].at \in {"write", "await"} => go[g].at = "await"
    BY <1>0, <1>6, CallSettlesEffects DEF CallSettles, Becomes, ServeSubscribe,
       Answer
  <2> QED BY <1>0, <1>2, <2>1, <2>2, <2>3
<1>7. ASSUME NEW i \in Restorers, RestorerSteps(i) PROVE Goal
  <2>1. Leave(i) /\ ~closed /\ Same
    BY <1>7 DEF RestorerSteps, Restored, RestoreInterrupted, RestoreFails,
       netVars
  <2> QED BY <1>0, <1>2, <2>1, LeaveEffects DEF Leaves
\* While the reconnect replaces or closes the socket, no call is in progress.
<1>8. ASSUME Stays(h), ~closed, rec # "off", rec # "join" PROVE Goal
  <2>1. go[h].at = "idle"
    BY <1>8 DEF BusyCalm, RestorersInJoin, Outage
  <2> QED BY <1>8, <2>1 DEF Stays
<1>9. ASSUME ReconnectSettles PROVE Goal
  <2>1. ~closed
    BY <1>9 DEF ReconnectSettles, ReconnectTakes, ReconnectAbandons,
       ReconnectPublishes, ReconnectSweeps, CloseSweeps
  <2>2. Stays(h)
    BY <1>0, <1>9, ReconnectSettlesEffects DEF Starts
  <2> QED BY <1>1, <1>8, <1>9, <2>1, <2>2 DEF ReconnectSettles, ReconnectTakes,
         ReconnectAbandons, ReconnectPublishes, ReconnectSweeps, CloseSweeps,
         netVars
<1>10. ASSUME QuietStep PROVE Goal
  <2>1. Stays(h) /\ ~closed
    BY <1>0, <1>10, QuietEffects DEF Quiets, CloseMoves
  <2>2. CASE CloseShuts
    BY <2>2 DEF CloseShuts
  <2>3. CASE ReconnectShuts
    BY <1>8, <2>1, <2>3 DEF ReconnectShuts
  <2> QED BY <1>1, <1>10, <2>1, <2>2, <2>3 DEF QuietStep, ReaderSteps,
         ReadFails, ReaderChecks, ReaderReconnects, Drop, ReconnectDials,
         ReconnectJoins, ReconnectRetries, ReconnectFinishes, CloseCancels,
         netVars, vars
<1> QED BY <1>0, <1>3, <1>4, <1>5, <1>6, <1>7, <1>9, <1>10, StepCases,
           OutsideEffects

\* A call on a live socket is not drained, so no restorer is interrupted.
LEMMA NoneInterruptedStep ==
    ASSUME TypeOK, BusyHasSub, Kinds, CallsLive, CallsLive', NoneInterrupted,
           [Next]_vars
    PROVE  NoneInterrupted'
<1> SUFFICES ASSUME ~closed'
             PROVE  /\ \A h \in Goroutines :
                          go'[h].out \notin {"drained", "interrupted"}
                    /\ ~interrupted' /\ rec' # "backoff"
  BY DEF NoneInterrupted
<1>0. Typed(go) /\ ~closed /\ ~interrupted /\ rec # "backoff"
  BY ClosedForGood DEF NoneInterrupted, TypeOK, Typed
<1>1. ASSUME NEW h \in Goroutines
      PROVE  go'[h].out \notin {"drained", "interrupted"}
  <2> DEFINE Goal == go'[h].out \notin {"drained", "interrupted"}
  <2>0. go[h].out \notin {"drained", "interrupted"}
    BY <1>0 DEF NoneInterrupted
  <2>1. ASSUME Stays(h) PROVE Goal
    BY <2>0, <2>1 DEF Stays, CallsLive
  <2>2. ASSUME NEW g, OthersStay(g),
               g = h => go'[h].out \in {"none", "ok", "refused", "failed",
                                        go[h].out}
        PROVE  Goal
    BY <2>0, <2>1, <2>2 DEF OthersStay
  <2>3. ASSUME NEW p \in Callers, Waits(p) PROVE Goal
    BY <2>2, <2>3 DEF Waits
  <2>4. ASSUME NEW p \in Callers, CallerSettles(p) PROVE Goal
    BY <2>2, <2>4, CallerSettlesEffects DEF CallerSettles, Becomes, Leaves
  <2>5. ASSUME NEW g \in Goroutines, Walks(g) PROVE Goal
    <3>1. CASE g = h
      BY <1>0, <2>0, <2>5, <3>1 DEF Walks, WalkAct, CallsLive
    <3> QED BY <2>2, <2>5, <3>1 DEF Walks
  <2>6. ASSUME NEW g \in Goroutines, CallSettles(g) PROVE Goal
    BY <1>0, <2>2, <2>6, CallSettlesEffects DEF CallSettles, Becomes, Result
  <2>7. ASSUME NEW i \in Restorers, RestorerSteps(i) PROVE Goal
    <3>1. Leave(i)
      BY <2>7 DEF RestorerSteps, Restored, RestoreInterrupted, RestoreFails
    <3> QED BY <1>0, <2>2, <3>1, LeaveEffects DEF Leaves
  <2>8. ASSUME ReconnectSettles PROVE Goal
    BY <2>1, <2>8, ReconnectSettlesEffects DEF Starts
  <2>9. ASSUME Quiets PROVE Goal
    BY <2>1, <2>9 DEF Quiets
  <2> QED BY <1>0, <2>3, <2>4, <2>5, <2>6, <2>7, <2>8, <2>9, StepKinds
<1>2. ASSUME NEW i \in Restorers, RestoreInterrupted(i) PROVE FALSE
  BY <1>0, <1>2 DEF RestoreInterrupted, NoneInterrupted
<1>3. ~interrupted' /\ rec' # "backoff"
  <2>1. CASE \E p \in Callers : Waits(p) \/ CallerSettles(p)
    BY <1>0, <2>1 DEF Waits, CallerSettles, BeginUnsubscribe, SubscribeReturns,
       SubscribeFails, UnsubscribeReturns, UnsubscribeFails, recVars
  <2>2. CASE \E g \in Goroutines : Walks(g) \/ CallSettles(g)
    BY <1>0, <2>2 DEF Walks, CallSettles, BeginSubscribe, AwaitSubscribed,
       UnlockOpMu, ServeSubscribe, Answer, recVars, StartReconnect
  <2>3. CASE \E i \in Restorers : RestorerSteps(i)
    BY <1>0, <1>2, <2>3 DEF RestorerSteps, Restored, RestoreFails, recVars
  <2>4. CASE ReconnectSettles
    BY <1>0, <2>4 DEF ReconnectSettles, ReconnectTakes, ReconnectAbandons,
       ReconnectPublishes, ReconnectSweeps, CloseSweeps, recVars
  <2>5. CASE QuietStep
    BY <1>0, <2>5 DEF QuietStep, ReaderSteps, ReadFails, ReaderChecks,
       ReaderReconnects, StartReconnect, Drop, ReconnectShuts, ReconnectDials,
       ReconnectJoins, ReconnectRetries, ReconnectFinishes, CloseCancels,
       CloseShuts, recVars, vars
  <2> QED BY <1>0, <2>1, <2>2, <2>3, <2>4, <2>5, StepCases, OutsideEffects,
         WalkEffects
<1> QED BY <1>1, <1>3

\* The reconnect closes the socket only after it found nothing to restore.
LEMMA NoActiveStep ==
    ASSUME OwnInv, BusyCalm, CallsOnCurrent, FreshOpen, NoSocketNoActive,
           [Next]_vars
    PROVE  NoSocketNoActive'
<1> SUFFICES ASSUME ~closed', conn' = NoSocket \/ rec' = "shut",
                    NEW s \in Subs, active'[s]
             PROVE  FALSE
  BY DEF NoSocketNoActive
<1> USE DEF OwnInv, Inv, closed
<1>0. Typed(go)
  BY DEF TypeOK, Typed
<1>1. ASSUME active[s], ~closed, conn = NoSocket \/ rec = "shut" PROVE FALSE
  BY <1>1 DEF NoSocketNoActive
<1>2. ASSUME rec # "off", rec # "join", ~closed
      PROVE  \A h \in Goroutines : go[h].at = "idle"
  BY <1>2 DEF BusyCalm, RestorersInJoin, Outage
<1>3. ASSUME NEW p \in Callers, Waits(p) PROVE FALSE
  BY <1>1, <1>3 DEF Waits, subVars, recVars, netVars
<1>4. ASSUME NEW p \in Callers, CallerSettles(p) PROVE FALSE
  BY <1>1, <1>4 DEF CallerSettles, BeginUnsubscribe, SubscribeReturns,
     SubscribeFails, UnsubscribeReturns, UnsubscribeFails, Deactivate, TypeOK,
     recVars, netVars
<1>5. ASSUME NEW g \in Goroutines, WalkStep(g) PROVE FALSE
  BY <1>1, <1>5 DEF WalkStep, CallStarts, EnsureCurrent, EnsureDials,
     CallFails, Write, WriteFails, AwaitFails, AwaitReturns, HandleSubscribe,
     HandleSubscribeFails, ServeUnsubscribe, ServeRefusal, Answer,
     OnlyGoChanges, StartReconnect, subVars, netVars, recVars
<1>6. ASSUME NEW g \in Goroutines, CallSettles(g) PROVE FALSE
  <2>1. CASE AwaitSubscribed(g)
    <3>1. ~closed /\ go[g].at = "await" /\ conn' = conn /\ rec' = rec
      BY <2>1 DEF AwaitSubscribed, netVars, recVars
    <3>2. conn # NoSocket /\ rec # "shut"
      BY <1>2, <3>1 DEF CallsOnCurrent
    <3> QED BY <3>1, <3>2
  <2> QED BY <1>1, <1>6, <2>1 DEF CallSettles, BeginSubscribe, UnlockOpMu,
         ServeSubscribe, Answer, subVars, recVars, netVars
<1>7. ASSUME NEW i \in Restorers, RestorerSteps(i) PROVE FALSE
  BY <1>1, <1>7 DEF RestorerSteps, Restored, RestoreInterrupted, RestoreFails,
     Deactivate, TypeOK, recVars, netVars
<1>8. ASSUME ReconnectSettles PROVE FALSE
  <2>1. CASE ReconnectTakes
    <3>1. /\ active[s] /\ ~closed /\ rec = "take" /\ conn' = conn
          /\ TakenNow = {} \/ conn = NoSocket
      BY <2>1 DEF ReconnectTakes, netVars
    <3>2. \A h \in Goroutines : go[h].at = "idle"
      BY <1>2, <3>1
    <3>3. tracked[id[s]] = s /\ id[s] \in Ids
      BY <3>1, <3>2 DEF ActiveOwned, Owned, Carried, Answers, Settling, Kinds,
         Kind
    <3>4. ~unsubscribing[s]
      BY <3>2 DEF Marked, Marks, InHandshake
    <3>5. Takes[id[s]] = s
      BY <3>1, <3>3, <3>4 DEF Takes, ShouldResubscribe
    <3>6. s \in TakenNow
      BY <3>3, <3>5 DEF TakenNow
    <3> QED BY <1>1, <3>1, <3>6
  <2>2. CASE ReconnectPublishes
    BY <2>2 DEF ReconnectPublishes, FreshOpen, closed
  <2> QED BY <1>1, <1>8, <2>1, <2>2 DEF ReconnectSettles, ReconnectAbandons,
         ReconnectSweeps, CloseSweeps, Deactivate, TypeOK, recVars, netVars
<1>9. ASSUME QuietStep PROVE FALSE
  BY <1>1, <1>9 DEF QuietStep, ReaderSteps, ReadFails, ReaderChecks,
     ReaderReconnects, StartReconnect, Drop, ReconnectShuts, ReconnectDials,
     ReconnectJoins, ReconnectRetries, ReconnectFinishes, CloseCancels,
     CloseShuts, recVars, netVars, subVars, vars
<1> QED BY <1>0, <1>3, <1>4, <1>5, <1>6, <1>7, <1>8, <1>9, StepCases,
           OutsideEffects

\* A server forgets some of what it holds.
Forgets ==
    \A t \in Sockets, i \in Ids : server'[t][i] \in {server[t][i], NoSub}

\* The server learns that Subscription s is to be known under the id i.
Learns(u, i, s) == i \in Assignable(u) /\ server' = [server EXCEPT ![u][i] = s]

\* What a step does to the servers.
LEMMA ForgetsCases ==
    ASSUME TypeOK, NEW u, NEW i,
           \/ server' = server
           \/ server' = [server EXCEPT ![u][i] = NoSub]
           \/ server' = [server EXCEPT ![u] = [j \in Ids |-> NoSub]]
    PROVE  Forgets
BY DEF TypeOK, Forgets

\* Only these steps touch the servers.
ServerStep ==
    \/ Forgets
    \/ \E g \in Goroutines : ServeSubscribe(g)
    \/ \E g \in Goroutines, i \in Ids :
         /\ AwaitFails(g) /\ go[g].op = "subscribe"
         /\ Learns(go[g].sock, i, go[g].sub)

\* Every step is one of these.
LEMMA ServerSteps == ASSUME TypeOK, [Next]_vars PROVE ServerStep
<1> USE DEF ServerStep
<1>0. server' = server => Forgets
  BY ForgetsCases
<1>1. ASSUME NEW p \in Callers, OutsideStep(p) PROVE ServerStep
  BY <1>0, <1>1 DEF OutsideStep, StartSubscribe, StartUnsubscribe,
     WaitReturns, WaitFails, LockSubscriptionOpMu, NothingToDo,
     SubscribeRetries, OnlyGoChanges, netVars
<1>2. ASSUME NEW p \in Callers, CallerSettles(p) PROVE ServerStep
  BY <1>0, <1>2 DEF CallerSettles, BeginUnsubscribe, SubscribeReturns,
     SubscribeFails, UnsubscribeReturns, UnsubscribeFails, netVars
<1>3. ASSUME NEW g \in Goroutines, WalkStep(g) PROVE ServerStep
  <2>1. CASE AwaitFails(g)
    <3>1. CASE go[g].op = "subscribe" /\ server' # server
      BY <2>1, <3>1 DEF AwaitFails, Learns, Assignable
    <3>2. CASE ~(go[g].op = "subscribe" /\ server' # server)
      <4>1. \/ server' = server
            \/ server' = [server EXCEPT ![go[g].sock][go[g].id] = NoSub]
        BY <2>1, <3>2 DEF AwaitFails
      <4> QED BY <4>1, ForgetsCases
    <3> QED BY <3>1, <3>2
  <2>2. CASE ServeUnsubscribe(g)
    BY <2>2, ForgetsCases DEF ServeUnsubscribe
  <2> QED BY <1>0, <1>3, <2>1, <2>2 DEF WalkStep, CallStarts, EnsureCurrent,
         EnsureDials, CallFails, Write, WriteFails, AwaitReturns,
         HandleSubscribe, HandleSubscribeFails, ServeRefusal, OnlyGoChanges,
         netVars
<1>4. ASSUME NEW g \in Goroutines, CallSettles(g) PROVE ServerStep
  BY <1>0, <1>4 DEF CallSettles, BeginSubscribe, AwaitSubscribed, UnlockOpMu,
     netVars
<1>5. ASSUME NEW i \in Restorers, RestorerSteps(i) PROVE ServerStep
  BY <1>0, <1>5 DEF RestorerSteps, Restored, RestoreInterrupted, RestoreFails,
     netVars
<1>6. ASSUME NEW s, Down(s) PROVE ServerStep
  BY <1>6, ForgetsCases DEF Down
<1>7. ASSUME ReconnectSettles PROVE ServerStep
  BY <1>0, <1>6, <1>7 DEF ReconnectSettles, ReconnectTakes, ReconnectAbandons,
     ReconnectPublishes, ReconnectSweeps, CloseSweeps, netVars
<1>8. ASSUME QuietStep PROVE ServerStep
  <2>1. ASSUME NEW s \in Sockets, ReaderSteps(s) \/ Drop(s) PROVE ServerStep
    BY <1>0, <1>6, <2>1 DEF ReaderSteps, ReadFails, ReaderChecks,
       ReaderReconnects, Drop
  <2>2. CASE ReconnectShuts \/ CloseShuts
    BY <1>0, <1>6, <2>2 DEF ReconnectShuts, CloseShuts, CloseWebSocket
  <2> QED BY <1>0, <1>8, <2>1, <2>2 DEF QuietStep, ReconnectDials,
       ReconnectJoins, ReconnectRetries, ReconnectFinishes, CloseCancels,
       netVars, vars
<1> QED BY <1>1, <1>2, <1>3, <1>4, <1>5, <1>7, <1>8, StepCases

\* An answer is pending when it was before, or when it has just come.
LEMMA PendingBefore ==
    ASSUME TypeOK, BusyHasSub, Kinds, [Next]_vars, NEW h \in Goroutines,
           Pending(h)'
    PROVE  \/ Pending(h) /\ go'[h].id = go[h].id /\ go'[h].sub = go[h].sub
           \/ ServeSubscribe(h)
<1> DEFINE Goal == \/ /\ Pending(h)
                      /\ go'[h].id = go[h].id /\ go'[h].sub = go[h].sub
                   \/ ServeSubscribe(h)
<1>0. Typed(go)
  BY DEF TypeOK, Typed
<1>1. Stays(h) => Goal
  BY DEF Stays, Pending
<1>2. ASSUME NEW g, OthersStay(g), g # h PROVE Goal
  BY <1>1, <1>2 DEF OthersStay
<1>3. ASSUME NEW p \in Callers, Waits(p) PROVE Goal
  <2>1. p # h
    BY <1>3 DEF Waits, Outside, Pending
  <2> QED BY <1>2, <1>3, <2>1 DEF Waits
<1>4. ASSUME NEW p \in Callers, CallerSettles(p) PROVE Goal
  BY <1>2, <1>4, CallerSettlesEffects DEF CallerSettles, Becomes, Leaves,
     Pending
<1>5. ASSUME NEW g \in Goroutines, Walks(g) PROVE Goal
  <2>1. g # h
    BY <1>5 DEF Walks, WalkAct, Pending, Kinds, Kind
  <2> QED BY <1>2, <1>5, <2>1 DEF Walks
<1>6. ASSUME NEW g \in Goroutines, CallSettles(g) PROVE Goal
  <2>1. OthersStay(g)
    BY <1>0, <1>6, CallSettlesEffects DEF CallSettles, Becomes
  <2>2. g = h => ServeSubscribe(h)
    BY <1>0, <1>6, CallSettlesEffects DEF CallSettles, Becomes, Pending
  <2> QED BY <1>2, <2>1, <2>2
<1>7. ASSUME NEW i \in Restorers, RestorerSteps(i) PROVE Goal
  <2>1. Leave(i)
    BY <1>7 DEF RestorerSteps, Restored, RestoreInterrupted, RestoreFails
  <2> QED BY <1>0, <1>2, <2>1, LeaveEffects DEF Leaves, Pending
<1>8. ASSUME ReconnectSettles PROVE Goal
  BY <1>1, <1>8, ReconnectSettlesEffects DEF Starts, Pending
<1>9. ASSUME Quiets PROVE Goal
  BY <1>1, <1>9 DEF Quiets
<1> QED BY <1>3, <1>4, <1>5, <1>6, <1>7, <1>8, <1>9, StepKinds

\* A Subscription gets an id from an answer that was pending.
LEMMA IdBefore ==
    ASSUME TypeOK, [Next]_vars, NEW s \in Subs, id'[s] # id[s]
    PROVE  \E g \in Goroutines : /\ Pending(g) /\ go[g].sub = s
                                 /\ id'[s] = go[g].id /\ server' = server
<1>1. CASE \E g \in Goroutines : AwaitSubscribed(g)
  BY <1>1 DEF AwaitSubscribed, TypeOK, netVars, Pending
<1>2. CASE ~\E g \in Goroutines : AwaitSubscribed(g)
  BY <1>2, StepKinds DEF Quiets, Waits, CallerSettles, BeginUnsubscribe,
     SubscribeReturns, SubscribeFails, UnsubscribeReturns, UnsubscribeFails,
     Walks, CallSettles, BeginSubscribe, UnlockOpMu, ServeSubscribe, Answer,
     RestorerSteps, Restored, RestoreInterrupted, RestoreFails,
     ReconnectSettles, ReconnectTakes, ReconnectAbandons, ReconnectPublishes,
     ReconnectSweeps, CloseSweeps, subVars
<1> QED BY <1>1, <1>2

\* A fresh id concerns one Subscription, and no server is told otherwise.
LEMMA ServersStep ==
    ASSUME "idReuse" \notin Overlaps, TypeOK, BusyHasSub, Kinds, PendingFresh,
           ServersAgree, [Next]_vars
    PROVE  ServersAgree'
<1>0. Typed(go)
  BY DEF TypeOK, Typed
\* What a server holds under an id that was known is what it held before.
<1>1. ASSUME NEW t \in Sockets, NEW i \in Ids,
             \/ \E s \in Subs : id[s] = i
             \/ \E g \in Goroutines : go[g].id = i /\ Pending(g)
      PROVE  server'[t][i] \in {server[t][i], NoSub}
  <2>1. ASSUME NEW u, NEW j, NEW x, Learns(u, j, x)
        PROVE  server'[t][i] = server[t][i]
    <3>1. j # i
      BY <1>1, <2>1 DEF Learns, Assignable
    <3> QED BY <2>1, <3>1 DEF Learns, TypeOK
  <2>2. ASSUME NEW g \in Goroutines, ServeSubscribe(g)
        PROVE  server'[t][i] = server[t][i]
    BY <2>1, <2>2 DEF ServeSubscribe, Learns
  <2> QED BY <2>1, <2>2, ServerSteps DEF ServerStep, Forgets
<1>2. ASSUME NEW t \in Sockets, NEW s \in Subs, id'[s] \in Ids
      PROVE  server'[t][id'[s]] \in {s, NoSub}
  <2>1. CASE id'[s] = id[s]
    BY <1>1, <1>2, <2>1 DEF ServersAgree
  <2>2. CASE id'[s] # id[s]
    BY <1>2, <2>2, IdBefore DEF ServersAgree
  <2> QED BY <2>1, <2>2
<1>3. ASSUME NEW t \in Sockets, NEW h \in Goroutines, Pending(h)'
      PROVE  server'[t][go'[h].id] \in {go'[h].sub, NoSub}
  <2>1. CASE Pending(h) /\ go'[h].id = go[h].id /\ go'[h].sub = go[h].sub
    <3>1. go[h].id \in Ids
      BY <2>1 DEF PendingFresh
    <3> QED BY <1>1, <2>1, <3>1 DEF ServersAgree
  <2>2. CASE ServeSubscribe(h)
    <3>1. PICK i \in Assignable(go[h].sock) :
             /\ Becomes(h, go[h].at, go[h].op, i, "ok", go[h].sock)
             /\ server' = [server EXCEPT ![go[h].sock][i] = go[h].sub]
      BY <1>0, <2>2, CallSettlesEffects
    <3>2. go'[h].id = i /\ go'[h].sub = go[h].sub /\ i \in Ids
      BY <3>1 DEF Becomes, Assignable
    <3>3. server[t][i] = NoSub
      BY <3>1 DEF Assignable
    <3> QED BY <3>1, <3>2, <3>3 DEF TypeOK
  <2> QED BY <1>3, <2>1, <2>2, PendingBefore
<1> QED BY <1>2, <1>3 DEF ServersAgree

-----------------------------------------------------------------------------
(* The sockets of a calm Conn at every step, and what follows.             *)

\* What holds at every step on a calm network.
CalmInv == /\ Inv /\ Kinds /\ RestorersInJoin /\ StoppedIsDown
           /\ BusyCalm /\ CallsOnCurrent /\ CalmSockets /\ NoneInterrupted

\* A new Conn is calm.
LEMMA InitCalm == Init => CalmInv
<1> SUFFICES ASSUME Init PROVE CalmInv
  OBVIOUS
<1>1. \A g \in Goroutines : go[g].at = "idle" /\ go[g].out = "none"
  BY DEF Init, NoOperation
<1>2. Inv /\ Kinds /\ RestorersInJoin
  BY InitOwn DEF OwnInv
<1>3. BusyCalm /\ CallsOnCurrent /\ NoneInterrupted
  BY <1>1 DEF BusyCalm, CallsOnCurrent, NoneInterrupted, Init
<1>4. StoppedIsDown /\ LostIsCurrent /\ OpenIsKnown
  BY DEF Init, StoppedIsDown, LostIsCurrent, OpenIsKnown
<1>5. CurrentOpen /\ ReconnectsLost /\ FreshOpen
  BY DEF Init, CurrentOpen, ReconnectsLost, FreshOpen
<1> QED BY <1>2, <1>3, <1>4, <1>5 DEF CalmInv, CalmSockets

\* It stays so, whatever the callers, the server and Close do.
LEMMA CalmStep ==
    ASSUME KeepsClear, CalmInv, [Next]_vars PROVE CalmInv'
<1> USE DEF CalmInv
<1>1. TypeOK /\ BusyHasSub /\ SocketsInv
  BY DEF Inv
<1>2. Inv' /\ TypeOK' /\ SocketsInv' /\ Kinds' /\ RestorersInJoin'
  BY <1>1, InvStep, KindsStep, JoinStep DEF Inv
<1>3. CallsLive
  BY <1>1, CallsAreLive DEF CalmSockets
<1>4. StoppedIsDown' /\ BusyCalm' /\ CalmSockets' /\ CallsOnCurrent'
  BY <1>1, <1>3, StoppedStep, BusyStep, CalmSocketsStep, OnCurrentStep
<1>5. CallsLive'
  <2>1. CurrentOpen'
    BY <1>4 DEF CalmSockets
  <2> QED BY <1>2, <1>4, <2>1, CallsAreLive, PTL
<1>6. NoneInterrupted'
  BY <1>1, <1>3, <1>5, NoneInterruptedStep
<1> QED BY <1>2, <1>4, <1>6

\* An instance without such overlaps keeps them clear.
LEMMA CalmKeepsClear ==
    ASSUME Calm, TypeOK, BusyHasSub, Kinds, [Next]_vars PROVE KeepsClear
<1>1. ASSUME NEW p \in Callers, go[p].at = "idle", go'[p].at # "idle"
      PROVE  ~Outage
  BY <1>1, CallerStarts DEF MayStart, Calm
<1>2. ASSUME NEW s \in Sockets, Drop(s)
      PROVE  ~Outage /\ \A p \in Callers : go[p].at = "idle"
  <2>1. ~Subscribing /\ ~Unsubscribing /\ ~Outage
    BY <1>2 DEF Drop, Calm
  <2>2. \A p \in Callers :
            go[p].op \in {"none", "subscribe", "unsubscribe", "cleanup"}
    BY DEF TypeOK, Operation, Goroutines
  <2> QED BY <2>1, <2>2 DEF Subscribing, Unsubscribing, Kinds, Kind, Goroutines
<1> QED BY <1>1, <1>2 DEF KeepsClear

\* A reconnect never runs while the answer to an Unsubscribe is open, if there
\* is one caller and outages spare its Unsubscribes, if nobody unsubscribes, or
\* if outages come between the operations of all callers.
LEMMA NeverDisturbed ==
    ASSUME "idReuse" \notin Overlaps, Orderly \/ Calm
    PROVE  Spec => []Undisturbed
<1>1. CASE Calm
  <2>1. CalmInv => Undisturbed
    BY DEF CalmInv, BusyCalm, Undisturbed, Outage, InHandshake
  <2>2. CalmInv /\ [Next]_vars => CalmInv'
    BY <1>1, CalmKeepsClear, CalmStep DEF CalmInv, Inv
  <2> QED BY <2>1, <2>2, InitCalm, PTL DEF Spec
<1>2. CASE Orderly
  BY <1>2, OrderlyUndisturbed
<1> QED BY <1>1, <1>2

\* About: ActiveIsOwned.  The same, with no condition on the behaviour: one
\* goroutine uses the Conn at a time and outages spare its Unsubscribes, or
\* nobody unsubscribes, or outages come between the operations.  Subscribes,
\* reconnects and Close may be interrupted.
THEOREM ActiveIsOwnedAlways ==
    ASSUME "idReuse" \notin Overlaps, Orderly \/ Calm
    PROVE  Spec => []ActiveIsOwned
BY NeverDisturbed, UndisturbedOwns, PTL

\* About: ClosedDeactivates.  The same for these Conns, on which Close may come
\* in the middle of a reconnect.
THEOREM ClosedDeactivatesAlways ==
    ASSUME "idReuse" \notin Overlaps, Orderly \/ Calm,
           "closeDuringOperation" \notin Overlaps
    PROVE  Spec => []ClosedDeactivates
BY NeverDisturbed, UndisturbedDeactivates, PTL

\* What keeps the active subscriptions in place.
PlaceInv == CalmInv /\ OwnInv /\ NoSocketNoActive /\ ServersAgree

LEMMA InitPlace == Init => PlaceInv
<1> SUFFICES ASSUME Init PROVE NoSocketNoActive /\ ServersAgree
  BY InitCalm, InitOwn DEF PlaceInv
<1>1. \A g \in Goroutines : go[g].at = "idle"
  BY DEF Init, NoOperation
<1> QED BY <1>1 DEF Init, NoSocketNoActive, ServersAgree, Pending

\* A step that keeps outages clear of the operations preserves it.
LEMMA PlaceStep ==
    ASSUME "idReuse" \notin Overlaps, KeepsClear, PlaceInv, [Next]_vars
    PROVE  PlaceInv'
<1>1. CalmInv /\ OwnInv /\ NoSocketNoActive /\ ServersAgree
  BY DEF PlaceInv
<1>2. TypeOK /\ BusyHasSub /\ Kinds /\ PendingFresh /\ BusyCalm
      /\ CallsOnCurrent /\ FreshOpen
  BY <1>1 DEF OwnInv, Inv, CalmInv, CalmSockets
<1>3. Undisturbed
  BY <1>2 DEF BusyCalm, Undisturbed, Outage, InHandshake
<1> QED BY <1>1, <1>2, <1>3, CalmStep, OwnStep, NoActiveStep, ServersStep
        DEF PlaceInv

\* An open Conn at rest has a live socket for every active subscription.
LEMMA PlacedNotStranded == PlaceInv => NoStranded
<1> SUFFICES ASSUME PlaceInv, Quiescent, ~closed, NEW s \in Subs, active[s]
             PROVE  /\ conn # NoSocket /\ sock[conn] = "open"
                    /\ server[conn][id[s]] \in {s, NoSub}
                    /\ tracked[id[s]] = s
  BY DEF NoStranded
<1> USE DEF PlaceInv, CalmInv, OwnInv, Inv
<1>1. conn # NoSocket
  BY DEF NoSocketNoActive
<1>2. sock[conn] = "open"
  BY <1>1 DEF CalmSockets, CurrentOpen, Quiescent, TypeOK, SocketsInv,
     CurrentHasReader
<1>3. id[s] \in Ids /\ tracked[id[s]] = s
  BY DEF Quiescent, ActiveOwned, Owned, Carried, Answers, Settling, Kinds,
     Kind
<1> QED BY <1>1, <1>2, <1>3 DEF ServersAgree, TypeOK

\* About: NoStranded.  On a calm network whose server does not reuse ids, with
\* any number of callers that subscribe and unsubscribe at will, with answers
\* that are late, and with Close at any moment: whenever an open Conn is at
\* rest, the current socket of an active subscription is alive, and the
\* subscription is tracked under an id that no other one has there.
THEOREM NoStrandedAlways ==
    ASSUME "idReuse" \notin Overlaps, Calm
    PROVE  Spec => []NoStranded
<1>1. PlaceInv /\ [Next]_vars => PlaceInv'
  BY PlaceStep, CalmKeepsClear DEF PlaceInv, CalmInv, Inv
<1> QED BY <1>1, InitPlace, PlacedNotStranded, PTL DEF Spec

\* A step of a calm behaviour is one of RtaConn that keeps outages clear.
LEMMA SafetySteps ==
    ASSUME calm, TypeOK, [SafetyNext]_<<vars, calm>>
    PROVE  KeepsClear /\ [Next]_vars
<1>1. CASE SafetyNext
  BY <1>1 DEF SafetyNext
<1>2. CASE UNCHANGED <<vars, calm>>
  <2>1. ASSUME NEW s \in Sockets, Drop(s) PROVE FALSE
    BY <1>2, <2>1 DEF vars, netVars, Drop, Down, TypeOK
  <2> QED BY <1>2, <2>1 DEF KeepsClear, vars
<1> QED BY <1>1, <1>2

\* About: CalmStrandsNobody.  The same of every behaviour in which outages keep
\* clear of the operations and of each other, whatever Overlaps permits.
THEOREM CalmStrandsNobodyAlways ==
    ASSUME "idReuse" \notin Overlaps
    PROVE  SafetySpec => []CalmStrandsNobody
<1> DEFINE I == calm => PlaceInv
<1>1. SafetyInit => I
  BY InitPlace DEF SafetyInit
<1>2. I /\ [SafetyNext]_<<vars, calm>> => I'
  <2> SUFFICES ASSUME I, [SafetyNext]_<<vars, calm>>, calm' PROVE PlaceInv'
    OBVIOUS
  <2>1. calm
    BY DEF SafetyNext
  <2> QED BY <2>1, SafetySteps, PlaceStep DEF PlaceInv, CalmInv, Inv
<1>3. I => CalmStrandsNobody
  BY PlacedNotStranded DEF CalmStrandsNobody
<1> HIDE DEF I
<1> QED BY <1>1, <1>2, <1>3, PTL DEF SafetySpec

\* Close has closed the current socket for good once the callers are gone.
ShutForGood == closing \in {"shut", "done"} => conn = NoSocket

\* Only a caller could dial again, and all of them are gone.
LEMMA ShutStep ==
    ASSUME TypeOK, CallersGone, ShutForGood, [Next]_vars PROVE ShutForGood'
<1> USE DEF ShutForGood, closed
<1>1. CASE UNCHANGED <<conn, sock, reader, rec, dialedByRec, closing>>
  BY <1>1
<1>2. ASSUME NEW g \in Goroutines, EnsureDials(g) PROVE ShutForGood'
  BY <1>2 DEF EnsureDials, CallersGone
<1>3. ASSUME NEW g \in Goroutines, WriteFails(g) PROVE ShutForGood'
  BY <1>3 DEF WriteFails, netVars
<1>4. ASSUME NEW s \in Sockets, ReaderSteps(s) \/ Drop(s) PROVE ShutForGood'
  BY <1>4 DEF ReaderSteps, ReadFails, ReaderChecks, ReaderReconnects, Drop
<1>5. CASE ReconnectSteps
  BY <1>5 DEF ReconnectSteps, ReconnectTakes, ReconnectShuts, ReconnectDials,
     ReconnectAbandons, ReconnectPublishes, ReconnectJoins, ReconnectRetries,
     ReconnectSweeps, ReconnectFinishes, CloseWebSocket, netVars
<1>6. CASE CloseCancels \/ CloseSteps
  BY <1>6 DEF CloseCancels, CloseSteps, CloseShuts, CloseSweeps,
     CloseWebSocket, netVars
<1> QED BY <1>1, <1>2, <1>3, <1>4, <1>5, <1>6, NetSteps DEF NetStep

\* What is left of the sockets when Close has come to rest.
ShutInv == CalmInv /\ CallersGone /\ ShutForGood

LEMMA InitShut == Init => ShutInv
BY InitCalm DEF Init, CallersGone, ShutForGood, closed, ShutInv

\* A step that keeps outages clear of the operations preserves it.
LEMMA ShutInvStep ==
    ASSUME "closeDuringOperation" \notin Overlaps, KeepsClear, ShutInv,
           [Next]_vars
    PROVE  ShutInv'
<1>1. TypeOK /\ BusyHasSub /\ Kinds
  BY DEF ShutInv, CalmInv, Inv
<1> QED BY <1>1, CalmStep, GoneStep, ShutStep DEF ShutInv

\* A closed Conn at rest knows of no open socket.
LEMMA ShutLeavesNone == ShutInv => ClosedLeavesNoOpenSocket
BY DEF ShutInv, CalmInv, CalmSockets, ShutForGood, OpenIsKnown, Quiescent,
   closed, ClosedLeavesNoOpenSocket

\* About: ClosedLeavesNoOpenSocket.  On a calm network, a Close that waits for
\* the operations leaves no socket open, not even one that a reconnect dials
\* meanwhile: with any number of callers, and whatever ids the server gives.
THEOREM ClosedLeavesNoOpenSocketAlways ==
    ASSUME Calm, "closeDuringOperation" \notin Overlaps
    PROVE  Spec => []ClosedLeavesNoOpenSocket
<1>1. ShutInv /\ [Next]_vars => ShutInv'
  BY ShutInvStep, CalmKeepsClear DEF ShutInv, CalmInv, Inv
<1> QED BY <1>1, InitShut, ShutLeavesNone, PTL DEF Spec

\* About: CalmCloseLeavesNoOpenSocket.  The same of every behaviour in which
\* outages keep clear of the operations and of each other, whatever outages
\* Overlaps permits.
THEOREM CalmCloseLeavesNoOpenSocketAlways ==
    ASSUME "closeDuringOperation" \notin Overlaps
    PROVE  SafetySpec => []CalmCloseLeavesNoOpenSocket
<1> DEFINE I == calm => ShutInv
<1>1. SafetyInit => I
  BY InitShut DEF SafetyInit
<1>2. I /\ [SafetyNext]_<<vars, calm>> => I'
  <2> SUFFICES ASSUME I, [SafetyNext]_<<vars, calm>>, calm' PROVE ShutInv'
    OBVIOUS
  <2>1. calm
    BY DEF SafetyNext
  <2> QED BY <2>1, SafetySteps, ShutInvStep DEF ShutInv, CalmInv, Inv
<1>3. I => CalmCloseLeavesNoOpenSocket
  BY ShutLeavesNone DEF CalmCloseLeavesNoOpenSocket
<1> HIDE DEF I
<1> QED BY <1>1, <1>2, <1>3, PTL DEF SafetySpec
=============================================================================
