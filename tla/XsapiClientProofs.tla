-------------------------- MODULE XsapiClientProofs --------------------------
(***************************************************************************)
(* xsapi.Client implements what its parts are promised: each of its steps  *)
(* is a step of presence.Client and one of social.Client, or none, so that *)
(* what is proved of these holds of the whole.  Then: no connection that   *)
(* ensureRTA has dialed is ever forgotten.                                 *)
(***************************************************************************)
EXTENDS XsapiClient, ClientPartsProofs

LEMMA ClientStepIsPresenceStep ==
    ASSUME [ClientNext]_clientVars
    PROVE  [PresenceNext]_presenceVars
<1>1. CASE UNCHANGED clientVars
  BY <1>1 DEF clientVars
<1>2. CASE LoseSubscription \/ ReportLoss
  BY <1>2 DEF LoseSubscription, ReportLoss
<1>3. ASSUME NEW p \in Callers,
             \/ MpsdSubscribe(p) \/ Subscribe(p) \/ RegisterHandler(p)
             \/ \E r \in Registrations : Unsubscribe(p, r)
             \/ RtaStep(p)
      PROVE  UNCHANGED presenceVars
  BY <1>3 DEF MpsdSubscribe, Subscribe, RegisterHandler, Unsubscribe, RtaStep,
     Ensure, Lookup, Dial, DialFails, Dialed, Discard, ConnSubscribe,
     ConnUnsubscribe, FailsToSubscribe
<1>4. ASSUME NEW p \in Callers, Update(p) \/ UpdateStopsWaiting(p)
      PROVE  PresenceNext
  BY <1>4 DEF Update, UpdateStopsWaiting, PresenceNext, UpdateStep
<1>5. ASSUME NEW p \in Callers, RemovePresence(p) \/ ClosePresence(p)
      PROVE  PresenceNext
  BY <1>5 DEF RemovePresence, ClosePresence, PresenceNext, RemoveStep
<1>6. ASSUME NEW p \in Callers,
             \/ CloseContext(p) \/ ClosesMpsd(p) \/ CloseSocial(p) \/ Join(p)
             \/ CloseRTA(p) \/ CloseConn(p) \/ StopsWaiting(p) \/ CloseStopsWaiting(p)
      PROVE  UNCHANGED presenceVars
  BY <1>6 DEF CloseContext, ClosesMpsd, CloseSocial, Join, CloseRTA, CloseConn,
     StopsWaiting, CloseStopsWaiting, FailsToSubscribe
<1> QED
  BY <1>1, <1>2, <1>3, <1>4, <1>5, <1>6 DEF ClientNext, CloseStep, ContextEnds

LEMMA ClientStepIsSocialStep ==
    ASSUME [ClientNext]_clientVars
    PROVE  [SocialNext]_socialVars
<1>1. CASE UNCHANGED clientVars
  BY <1>1 DEF clientVars
<1>2. CASE LoseSubscription \/ ReportLoss
  BY <1>2 DEF LoseSubscription, ReportLoss, SocialNext
<1>3. ASSUME NEW p \in Callers, MethodFails(p)
      PROVE  [SocialNext]_socialVars
  BY <1>3 DEF MethodFails, SocialNext, SocialStep
<1>4. ASSUME NEW p \in Callers, MpsdSubscribe(p) \/ Subscribe(p) \/ RegisterHandler(p)
      PROVE  [SocialNext]_socialVars
  BY <1>4 DEF MpsdSubscribe, Subscribe, RegisterHandler, SocialNext, SocialStep
<1>5. ASSUME NEW p \in Callers, NEW r \in Registrations, Unsubscribe(p, r)
      PROVE  [SocialNext]_socialVars
  BY <1>5 DEF Unsubscribe, SocialNext, SocialStep
<1>6. ASSUME NEW p \in Callers, RtaStep(p)
      PROVE  [SocialNext]_socialVars
  <2>1. CASE Ensure(p) \/ Lookup(p) \/ DialFails(p) \/ Discard(p)
    BY <1>3, <2>1 DEF Ensure, Lookup, DialFails, Discard, FailsToSubscribe
  <2>2. CASE Dial(p) \/ Dialed(p)
    BY <2>2 DEF Dial, Dialed
  <2>3. CASE ConnSubscribe(p)
    BY <1>3, <2>3 DEF ConnSubscribe, FailsToSubscribe, SocialNext, SocialStep
  <2>4. CASE ConnUnsubscribe(p)
    BY <2>4 DEF ConnUnsubscribe, SocialNext, SocialStep
  <2> QED
    BY <1>6, <2>1, <2>2, <2>3, <2>4 DEF RtaStep
<1>7. ASSUME NEW p \in Callers, Update(p) \/ UpdateStopsWaiting(p) \/ RemovePresence(p)
      PROVE  UNCHANGED socialVars
  BY <1>7 DEF Update, UpdateStopsWaiting, RemovePresence
<1>8. ASSUME NEW p \in Callers, CloseContext(p) \/ CloseStep(p) \/ ContextEnds(p)
      PROVE  [SocialNext]_socialVars
  <2>1. CASE CloseSocial(p) \/ CloseConn(p)
    BY <2>1 DEF CloseSocial, CloseConn, SocialNext, SocialStep
  <2>2. CASE StopsWaiting(p)
    BY <1>3, <2>2 DEF StopsWaiting, FailsToSubscribe
  <2>3. CASE \/ CloseContext(p) \/ ClosesMpsd(p) \/ ClosePresence(p) \/ Join(p)
             \/ CloseRTA(p) \/ CloseStopsWaiting(p) \/ UpdateStopsWaiting(p)
    BY <2>3 DEF CloseContext, ClosesMpsd, ClosePresence, Join, CloseRTA,
       CloseStopsWaiting, UpdateStopsWaiting
  <2> QED
    BY <1>8, <2>1, <2>2, <2>3 DEF CloseStep, ContextEnds
<1> QED
  BY <1>1, <1>2, <1>4, <1>5, <1>6, <1>7, <1>8 DEF ClientNext

\* The composition leaves both clients as they are: whatever the application
\* and CloseContext do with them is a behaviour of their own specifications.
\* About: xsapi.Client.CloseContext, lazyRTA.
THEOREM ClientImplementsParts == ClientSpec => PresenceSpec /\ SocialSpec
<1>1. ClientInit => PresenceInit /\ SocialInit
  BY DEF ClientInit
<1>2. [ClientNext]_clientVars => [PresenceNext]_presenceVars
  BY ClientStepIsPresenceStep
<1>3. [ClientNext]_clientVars => [SocialNext]_socialVars
  BY ClientStepIsSocialStep
<1> QED
  BY <1>1, <1>2, <1>3, PTL DEF ClientSpec, PresenceSpec, SocialSpec

\* About: presence.Client and social.Client as parts of xsapi.Client.
THEOREM PartsKeepPromises ==
    ClientSpec => [](CleanedStaysClean /\ LossIsReported /\ SubscriptionHasHandler)
BY ClientImplementsParts, CleanedStaysCleanHolds, LossIsReportedHolds,
   SubscriptionHasHandlerHolds, PTL

-----------------------------------------------------------------------------
(* The connection *)

\* The types of the variables that belong to the client itself.
OwnTypeOK ==
    /\ rtaMode \in RTAModes
    /\ closed \in BOOLEAN
    /\ closeMu \in Callers \cup {Nobody}
    /\ rta \in Conns \cup {NoConn}
    /\ rtaDialing \in Callers \cup {Nobody}
    /\ dialed \in 0..MaxConns
    /\ open \subseteq Conns
    /\ go \in [Callers -> Call]
    /\ lost \in 0..MaxLosses

\* One goroutine at a time dials, and none when there is a connection.
DialsWithoutConn ==
    /\ rtaDialing # Nobody => rta = NoConn
    /\ \A p \in Callers : go[p].at \in {"dial", "dialed"} => rtaDialing = p

ClientInv == OwnTypeOK /\ DialsWithoutConn /\ NoForgottenConnection

LEMMA ClientInitInv == ClientInit => ClientInv
<1> SUFFICES ASSUME ClientInit PROVE ClientInv
  OBVIOUS
<1>1. closed \in BOOLEAN /\ ~closed
  BY Zenon DEF ClientInit
<1>2. OwnTypeOK
  BY <1>1, ClientAssumption
     DEF ClientInit, RTAModes, OwnTypeOK, Conns, NoConn, NoCall, Call, Places
<1>3. DialsWithoutConn
  BY DEF ClientInit, DialsWithoutConn, NoCall
<1>4. NoForgottenConnection
  BY <1>1 DEF ClientInit, NoForgottenConnection
<1> QED
  BY <1>2, <1>3, <1>4 DEF ClientInv

\* What a step may make of a call.
LEMMA CallTypes ==
    /\ NoCall \in Call /\ NoCall.at = "idle"
    /\ \A c \in Call, place \in Places, conn \in Conns \cup {NoConn}, b \in BOOLEAN :
          /\ [c EXCEPT !.at = place] \in Call
          /\ [c EXCEPT !.at = place, !.conn = conn] \in Call
          /\ [c EXCEPT !.at = place, !.failed = b] \in Call
          /\ [c EXCEPT !.at = place, !.conn = conn, !.failed = b] \in Call
          /\ c.failed \in BOOLEAN /\ c.conn \in Conns \cup {NoConn}
<1>1. NoCall \in Call /\ NoCall.at = "idle"
  BY FALSE \in BOOLEAN DEF NoCall, Call, Places, NoConn
<1>2. ASSUME NEW c \in Call, NEW place \in Places, NEW conn \in Conns \cup {NoConn},
             NEW b \in BOOLEAN
      PROVE  /\ [c EXCEPT !.at = place] \in Call
             /\ [c EXCEPT !.at = place, !.conn = conn] \in Call
             /\ [c EXCEPT !.at = place, !.failed = b] \in Call
             /\ [c EXCEPT !.at = place, !.conn = conn, !.failed = b] \in Call
             /\ c.failed \in BOOLEAN /\ c.conn \in Conns \cup {NoConn}
  <2>1. c.failed \in BOOLEAN /\ c.conn \in Conns \cup {NoConn}
    BY DEF Call
  <2>2. [c EXCEPT !.at = place] \in Call
    BY DEF Call
  <2>3. [c EXCEPT !.at = place, !.conn = conn] \in Call
    BY DEF Call
  <2>4. [c EXCEPT !.at = place, !.failed = b] \in Call
    BY DEF Call
  <2>5. [c EXCEPT !.at = place, !.conn = conn, !.failed = b] \in Call
    BY DEF Call
  <2> QED
    BY <2>1, <2>2, <2>3, <2>4, <2>5
<1> QED
  BY <1>1, <1>2

\* Of most steps only one goroutine moves.
Moves(p, places) ==
    /\ go' \in [Callers -> Call]
    /\ go'[p].at \in places
    /\ \A q \in Callers \ {p} : go'[q] = go[q]

LEMMA CallMoves ==
    ASSUME ClientInv, NEW p \in Callers
    PROVE  /\ \A place \in Places : Goto(p, place) => Moves(p, {place})
           /\ Ends(p) => Moves(p, {"idle"})
           /\ LooksUpConn(p) => Moves(p, {"unsubscribe"})
           /\ UNCHANGED go => Moves(p, {go[p].at})
<1> USE DEF ClientInv, OwnTypeOK, Moves
<1>1. ASSUME NEW place \in Places, Goto(p, place) PROVE Moves(p, {place})
  <2>1. [go[p] EXCEPT !.at = place] \in Call
    BY CallTypes, FALSE \in BOOLEAN
  <2>2. go' = [go EXCEPT ![p] = [go[p] EXCEPT !.at = place]]
    BY <1>1 DEF Goto
  <2>3. [go[p] EXCEPT !.at = place].at = place
    BY DEF Call
  <2> QED
    BY <2>1, <2>2, <2>3
<1>2. ASSUME Ends(p) PROVE Moves(p, {"idle"})
  BY <1>2, CallTypes DEF Ends
<1>3. ASSUME LooksUpConn(p) PROVE Moves(p, {"unsubscribe"})
  <2> DEFINE c == [go[p] EXCEPT !.at = "unsubscribe", !.conn = rta]
  <2>1. c \in Call
    BY CallTypes, FALSE \in BOOLEAN DEF Places
  <2>2. go' = [go EXCEPT ![p] = c]
    BY <1>3 DEF LooksUpConn
  <2>3. c.at = "unsubscribe"
    BY DEF Call
  <2> HIDE DEF c
  <2> QED
    BY <2>1, <2>2, <2>3
<1>4. ASSUME UNCHANGED go PROVE Moves(p, {go[p].at})
  BY <1>4
<1> QED
  BY <1>1, <1>2, <1>3, <1>4

\* Places in which a goroutine has no connection in hand that is not known to
\* the client, and does not decide about one.
Outside == Places \ {"dial", "dialed", "discard", "closeRTA", "closeConn"}

LEMMA OneMovesOutside ==
    ASSUME ClientInv, NEW p \in Callers,
           UNCHANGED <<open, rta, closed, rtaDialing, dialed, rtaMode, lost>>,
           closeMu' \in Callers \cup {Nobody},
           go[p].at \in Outside, Moves(p, Outside)
    PROVE  ClientInv'
<1>1. OwnTypeOK'
  BY DEF ClientInv, OwnTypeOK, Moves
<1>2. DialsWithoutConn'
  BY DEF ClientInv, DialsWithoutConn, Moves, Outside
<1>3. NoForgottenConnection'
  BY DEF ClientInv, NoForgottenConnection, Moves, Outside, At
<1> QED
  BY <1>1, <1>2, <1>3 DEF ClientInv

LEMMA CallsKeepInv ==
    ASSUME ClientInv, NEW p \in Callers,
           \/ MpsdSubscribe(p) \/ Subscribe(p) \/ RegisterHandler(p)
           \/ \E r \in Registrations : Unsubscribe(p, r)
           \/ Update(p) \/ RemovePresence(p) \/ ContextEnds(p)
    PROVE  ClientInv'
<1> USE DEF ClientInv, OwnTypeOK, rtaVars, closeVars, At, Places, Outside
<1>1. CASE MpsdSubscribe(p) \/ Subscribe(p)
  <2>1. go[p].at = "idle"
    BY <1>1 DEF MpsdSubscribe, Subscribe, Idle
  <2>2. Moves(p, Outside)
    BY <1>1, <2>1, CallMoves DEF MpsdSubscribe, Subscribe, Moves
  <2> QED
    BY <1>1, <2>1, <2>2, OneMovesOutside DEF MpsdSubscribe, Subscribe
<1>2. CASE \E r \in Registrations : Unsubscribe(p, r)
  <2>1. go[p].at = "idle"
    BY <1>2 DEF Unsubscribe, Idle
  <2>2. Moves(p, Outside)
    BY <1>2, <2>1, CallMoves DEF Unsubscribe, Moves
  <2> QED
    BY <1>2, <2>1, <2>2, OneMovesOutside DEF Unsubscribe
<1>3. CASE RegisterHandler(p) \/ Update(p) \/ RemovePresence(p) \/ UpdateStopsWaiting(p)
  BY <1>3 DEF RegisterHandler, Update, RemovePresence, UpdateStopsWaiting,
     NoForgottenConnection, DialsWithoutConn
<1>4. CASE StopsWaiting(p) \/ CloseStopsWaiting(p)
  <2>1. go[p].at \in {"waitDial", "awaitDial"}
    BY <1>4 DEF StopsWaiting, CloseStopsWaiting
  <2>2. Moves(p, Outside)
    BY <1>4, <2>1, CallMoves
       DEF StopsWaiting, CloseStopsWaiting, FailsToSubscribe, CloseReturns, Moves
  <2> QED
    BY <1>4, <2>1, <2>2, OneMovesOutside
       DEF StopsWaiting, CloseStopsWaiting, FailsToSubscribe, CloseReturns
<1> QED
  BY <1>1, <1>2, <1>3, <1>4 DEF ContextEnds

\* close(done) takes no connection out of anybody's hands.
LEMMA WokenKeeps ==
    ASSUME NEW calls \in [Callers -> Call]
    PROVE  /\ Woken(calls) \in [Callers -> Call]
           /\ \A q \in Callers :
                 /\ Woken(calls)[q].conn = calls[q].conn
                 /\ calls[q].at \notin {"waitDial", "awaitDial"} =>
                       Woken(calls)[q].at = calls[q].at
BY DEF Woken, Call, Places

LEMMA RtaStepKeepsInv ==
    ASSUME ClientInv, NEW p \in Callers, RtaStep(p)
    PROVE  ClientInv'
<1> USE DEF ClientInv, OwnTypeOK, rtaVars, closeVars, At
<1>1. CASE Ensure(p)
  <2>1. go[p].at = "ensure"
    BY <1>1 DEF Ensure
  <2>2. Moves(p, Outside)
    BY <1>1, CallMoves DEF Ensure, FailsToSubscribe, Moves, Outside, Places
  <2> QED
    BY <1>1, <2>1, <2>2, OneMovesOutside DEF Ensure, FailsToSubscribe, Outside, Places
<1>2. CASE Lookup(p)
  <2>1. go[p].at = "lookup" /\ UNCHANGED <<rta, dialed, open, rtaMode, closeVars, lost>>
    BY <1>2 DEF Lookup, FailsToSubscribe
  <2>2. CASE rta # NoConn
    <3> DEFINE c == [go[p] EXCEPT !.at = "subscribe", !.conn = rta]
    <3>1. c \in Call
      BY CallTypes, FALSE \in BOOLEAN DEF Places
    <3>2. c.at = "subscribe"
      BY DEF Call
    <3>3. go' = [go EXCEPT ![p] = c] /\ UNCHANGED rtaDialing
      BY <1>2, <2>2 DEF Lookup
    <3> HIDE DEF c
    <3>4. Moves(p, Outside)
      BY <3>1, <3>3, <3>2 DEF Moves, Outside, Places
    <3> QED
      BY <2>1, <3>3, <3>4, OneMovesOutside DEF Outside, Places
  <2>3. CASE rta = NoConn /\ (closed \/ rtaDialing # Nobody)
    <3>1. UNCHANGED rtaDialing /\ (FailsToSubscribe(p) \/ Goto(p, "waitDial"))
      BY <1>2, <2>3 DEF Lookup
    <3>2. Moves(p, Outside)
      BY <3>1, CallMoves DEF FailsToSubscribe, Moves, Outside, Places
    <3> QED
      BY <2>1, <3>1, <3>2, OneMovesOutside DEF Outside, Places
  <2>4. CASE rta = NoConn /\ ~closed /\ rtaDialing = Nobody
    <3>1. rtaDialing' = p /\ Goto(p, "dial")
      BY <1>2, <2>4 DEF Lookup
    <3>2. Moves(p, {"dial"})
      BY <3>1, CallMoves DEF Places
    <3>3. OwnTypeOK'
      BY <2>1, <3>1, <3>2 DEF Moves
    <3>4. DialsWithoutConn'
      BY <2>1, <2>4, <3>1, <3>2, GoroutinesAssumption DEF DialsWithoutConn, Moves
    <3>5. NoForgottenConnection'
      BY <2>1, <3>2 DEF NoForgottenConnection, Moves
    <3> QED
      BY <3>3, <3>4, <3>5
  <2> QED
    BY <2>2, <2>3, <2>4
<1>3. CASE Dial(p)
  <2>1. /\ go[p].at = "dial" /\ dialed + 1 \in Conns /\ dialed + 1 \in 0..MaxConns
        /\ UNCHANGED <<closeVars, rtaMode, lost, rta, rtaDialing>>
        /\ dialed' = dialed + 1 /\ open' = open \cup {dialed + 1}
    BY <1>3, ClientAssumption DEF Dial, Conns
  <2> DEFINE c == [go[p] EXCEPT !.at = "dialed", !.conn = dialed + 1]
  <2>2. c \in Call
    BY <2>1, CallTypes, FALSE \in BOOLEAN DEF Places
  <2>3. c.at = "dialed" /\ c.conn = dialed + 1
    BY DEF Call
  <2>4. go' = [go EXCEPT ![p] = c]
    BY <1>3 DEF Dial
  <2> HIDE DEF c
  <2>5. OwnTypeOK'
    BY <2>1, <2>2, <2>4
  <2>6. DialsWithoutConn'
    BY <2>1, <2>2, <2>4 DEF DialsWithoutConn
  <2>7. NoForgottenConnection'
    BY <2>1, <2>2, <2>4, <2>3 DEF NoForgottenConnection
  <2> QED
    BY <2>5, <2>6, <2>7
<1>4. CASE DialFails(p)
  <2> DEFINE calls == [go EXCEPT ![p] = NoCall]
  <2>1. /\ go[p].at = "dial" /\ rtaDialing' = Nobody /\ dialed' \in 0..MaxConns
        /\ UNCHANGED <<open, rta, closeVars, rtaMode, lost>>
    BY <1>4, ClientAssumption DEF DialFails
  <2>2. calls \in [Callers -> Call] /\ calls[p].at = "idle"
    BY CallTypes
  <2>3. go' = Woken(calls) /\ \A q \in Callers \ {p} : calls[q] = go[q]
    BY <1>4 DEF DialFails
  <2> HIDE DEF calls
  <2>4. OwnTypeOK'
    BY <2>1, <2>2, <2>3, WokenKeeps
  <2>5. DialsWithoutConn'
    <3>1. \A q \in Callers \ {p} : go[q].at \notin {"dial", "dialed"}
      BY <2>1 DEF DialsWithoutConn
    <3>2. \A q \in Callers : go'[q].at \notin {"dial", "dialed"}
      BY <2>2, <2>3, <3>1 DEF Woken
    <3> QED
      BY <2>1, <3>2 DEF DialsWithoutConn
  <2>6. \A q \in Callers :
            go[q].at \in {"dialed", "discard", "closeConn", "closeRTA"} =>
                go'[q].at = go[q].at /\ go'[q].conn = go[q].conn
    BY <2>1, <2>2, <2>3, WokenKeeps
  <2>7. NoForgottenConnection'
    BY <2>1, <2>6 DEF NoForgottenConnection
  <2> QED
    BY <2>4, <2>5, <2>7
<1>5. CASE Dialed(p)
  <2> DEFINE place == IF closed THEN "discard" ELSE "subscribe"
             calls == [go EXCEPT ![p].at = place]
  <2>1. place \in {"discard", "subscribe"} /\ calls \in [Callers -> Call]
    BY CallTypes, FALSE \in BOOLEAN DEF Places
  <2>2. go' = Woken(calls) /\ go[p].at = "dialed" /\ rtaDialing' = Nobody
    BY <1>5 DEF Dialed
  <2>3. calls[p].at = place /\ calls[p].conn = go[p].conn
    BY DEF Call
  <2>4. \A q \in Callers \ {p} : calls[q] = go[q]
    OBVIOUS
  <2>5. /\ UNCHANGED <<open, closeVars, rtaMode, lost, dialed>>
        /\ rta' = IF closed THEN rta ELSE go[p].conn
    BY <1>5 DEF Dialed
  <2> HIDE DEF calls
  <2>6. \A q \in Callers \ {p} :
            go[q].at \in {"dialed", "discard", "closeConn", "closeRTA"} =>
                go'[q].at = go[q].at /\ go'[q].conn = go[q].conn
    BY <2>1, <2>2, <2>4, WokenKeeps
  <2>7. go'[p].conn = go[p].conn /\ go'[p].at = place /\ go' \in [Callers -> Call]
    BY <2>1, <2>2, <2>3, WokenKeeps
  <2>8. OwnTypeOK'
    <3>1. go[p].conn \in Conns \cup {NoConn}
      BY DEF Call
    <3> QED
      BY <2>2, <2>5, <2>7, <3>1
  <2>9. DialsWithoutConn'
    <3>1. \A q \in Callers \ {p} : go[q].at \notin {"dial", "dialed"}
      BY <2>2 DEF DialsWithoutConn
    <3>2. \A q \in Callers \ {p} : go'[q].at \notin {"dial", "dialed"}
      BY <2>2, <2>4, <3>1 DEF Woken
    <3> QED
      BY <2>2, <2>7, <3>2 DEF DialsWithoutConn
  <2>10. NoForgottenConnection'
    <3>1. CASE closed
      <4>1. rta' = rta /\ go'[p].at = "discard"
        BY <2>5, <2>7, <3>1
      <4> QED
        BY <2>2, <2>5, <2>6, <2>7, <3>1, <4>1 DEF NoForgottenConnection
    <3>2. CASE ~closed
      <4>1. rta' = go[p].conn /\ ~closed'
        BY <2>5, <3>2
      <4>2. rta = NoConn
        BY <2>2, GoroutinesAssumption DEF DialsWithoutConn
      <4> QED
        BY <2>5, <2>6, <4>1, <4>2 DEF NoForgottenConnection, NoConn, Conns
    <3> QED
      BY <3>1, <3>2
  <2> QED
    BY <2>8, <2>9, <2>10
<1>6. CASE Discard(p)
  <2>1. /\ open' = open \ {go[p].conn} /\ go[p].at = "discard" /\ Ends(p)
        /\ UNCHANGED <<rta, rtaDialing, dialed, closeVars, rtaMode, lost>>
    BY <1>6 DEF Discard, FailsToSubscribe
  <2>2. Moves(p, {"idle"})
    BY <2>1, CallMoves
  <2>3. OwnTypeOK'
    BY <2>1, <2>2 DEF Moves
  <2>4. DialsWithoutConn'
    BY <2>1, <2>2 DEF DialsWithoutConn, Moves
  <2>5. NoForgottenConnection'
    BY <2>1, <2>2 DEF NoForgottenConnection, Moves
  <2> QED
    BY <2>3, <2>4, <2>5
<1>7. CASE ConnSubscribe(p)
  <2>1. go[p].at = "subscribe" /\ Ends(p)
    BY <1>7 DEF ConnSubscribe, FailsToSubscribe
  <2>2. Moves(p, Outside)
    BY <2>1, CallMoves DEF Moves, Outside, Places
  <2> QED
    BY <1>7, <2>1, <2>2, OneMovesOutside DEF ConnSubscribe, FailsToSubscribe, Outside, Places
<1>8. CASE ConnUnsubscribe(p)
  <2>1. go[p].at = "unsubscribe"
    BY <1>8 DEF ConnUnsubscribe
  <2>2. ASSUME NEW b \in BOOLEAN, AfterUnsubscribe(p, b)
        PROVE  Moves(p, Outside)
    <3>1. CASE socialGo[p] = "close"
      <4> DEFINE f == go[p].failed \/ b
                 c == [go[p] EXCEPT !.at = "presence", !.conn = NoConn, !.failed = f]
      <4>1. f \in BOOLEAN
        BY Zenon
      <4>2. go' = [go EXCEPT ![p] = c]
        BY <2>2, <3>1 DEF AfterUnsubscribe
      <4> HIDE DEF f
      <4>3. c \in Call
        BY <4>1, CallTypes DEF Places
      <4>4. c.at = "presence"
        BY DEF Call
      <4> HIDE DEF c
      <4> QED
        BY <4>2, <4>3, <4>4 DEF Moves, Outside, Places
    <3>2. CASE socialGo[p] # "close"
      BY <2>2, <3>2, CallMoves DEF AfterUnsubscribe, Moves, Outside, Places
    <3> QED
      BY <3>1, <3>2
  <2>3. Moves(p, Outside)
    BY <1>8, <2>2 DEF ConnUnsubscribe
  <2> QED
    BY <1>8, <2>1, <2>3, OneMovesOutside DEF ConnUnsubscribe, Outside, Places
<1> QED
  BY <1>1, <1>2, <1>3, <1>4, <1>5, <1>6, <1>7, <1>8 DEF RtaStep
\* A step to place that notes a failure of a part.
LEMMA FailureMoves ==
    ASSUME ClientInv, NEW p \in Callers, NEW place \in Places, NEW b \in BOOLEAN,
           go' = [go EXCEPT ![p].at = place, ![p].failed = b]
    PROVE  Moves(p, {place})
<1> DEFINE c == [go[p] EXCEPT !.at = place, !.failed = b]
<1>1. go[p] \in Call
  BY DEF ClientInv, OwnTypeOK
<1>2. c \in Call
  BY <1>1, CallTypes DEF NoConn
<1>3. c.at = place
  BY <1>1 DEF Call
<1>4. go' = [go EXCEPT ![p] = c]
  OBVIOUS
<1> HIDE DEF c
<1> QED
  BY <1>2, <1>3, <1>4 DEF ClientInv, OwnTypeOK, Moves

LEMMA CloseKeepsInv ==
    ASSUME ClientInv, NEW p \in Callers, CloseContext(p) \/ CloseStep(p)
    PROVE  ClientInv'
<1> USE DEF ClientInv, OwnTypeOK, rtaVars, closeVars, At
<1>1. CASE CloseContext(p)
  <2>1. go[p].at = "idle" /\ Goto(p, "mpsd")
    BY <1>1 DEF CloseContext, Idle
  <2>2. Moves(p, Outside)
    BY <2>1, CallMoves DEF Moves, Outside, Places
  <2> QED
    BY <1>1, <2>1, <2>2, OneMovesOutside DEF CloseContext, Outside, Places
<1>2. CASE ClosesMpsd(p)
  <2>1. go[p].at = "mpsd"
    BY <1>2 DEF ClosesMpsd
  <2>2. Moves(p, {"social"})
    BY <1>2, FailureMoves DEF ClosesMpsd, Places
  <2>3. Moves(p, Outside)
    BY <2>2 DEF Moves, Outside, Places
  <2> QED
    BY <1>2, <2>1, <2>3, OneMovesOutside DEF ClosesMpsd, Outside, Places
<1>3. CASE CloseSocial(p)
  <2>1. go[p].at = "social" /\ (LooksUpConn(p) \/ Goto(p, "presence"))
    BY <1>3 DEF CloseSocial
  <2>2. Moves(p, Outside)
    BY <2>1, CallMoves DEF Moves, Outside, Places
  <2> QED
    BY <1>3, <2>1, <2>2, OneMovesOutside DEF CloseSocial, Outside, Places
<1>4. CASE ClosePresence(p)
  <2>1. go[p].at = "presence"
    BY <1>4 DEF ClosePresence
  <2>2. \/ UNCHANGED go \/ Goto(p, "join")
        \/ go' = [go EXCEPT ![p].at = "join", ![p].failed = TRUE]
    BY <1>4 DEF ClosePresence
  <2>3. Moves(p, Outside)
    <3>1. ASSUME UNCHANGED go \/ Goto(p, "join") PROVE Moves(p, Outside)
      BY <2>1, <3>1, CallMoves DEF Moves, Outside, Places
    <3>2. ASSUME go' = [go EXCEPT ![p].at = "join", ![p].failed = TRUE]
          PROVE  Moves(p, Outside)
      <4>1. Moves(p, {"join"})
        BY <3>2, TRUE \in BOOLEAN, FailureMoves DEF Places
      <4> QED
        BY <4>1 DEF Moves, Outside, Places
    <3> QED
      BY <2>2, <3>1, <3>2
  <2> QED
    BY <1>4, <2>1, <2>3, OneMovesOutside DEF ClosePresence, Outside, Places
<1>5. CASE Join(p)
  <2>1. go[p].at = "join" /\ UNCHANGED <<rta, rtaDialing, dialed, open, rtaMode, lost>>
    BY <1>5 DEF Join
  <2>2. CASE go[p].failed
    <3>1. Ends(p) /\ closeMu' = Nobody /\ UNCHANGED closed
      BY <1>5, <2>2 DEF Join
    <3>2. Moves(p, Outside)
      BY <3>1, CallMoves DEF Moves, Outside, Places
    <3> QED
      BY <2>1, <3>1, <3>2, OneMovesOutside DEF Outside, Places
  <2>3. CASE ~go[p].failed
    <3>1. closed' \in BOOLEAN
      BY <1>5, <2>3, Zenon DEF Join
    <3>2. Goto(p, "closeRTA") /\ UNCHANGED closeMu
      BY <1>5, <2>3 DEF Join
    <3>3. Moves(p, {"closeRTA"})
      BY <3>2, CallMoves DEF Places
    <3>4. OwnTypeOK'
      BY <2>1, <3>1, <3>2, <3>3 DEF Moves
    <3>5. DialsWithoutConn'
      BY <2>1, <3>3 DEF DialsWithoutConn, Moves
    <3>6. NoForgottenConnection'
      BY <2>1, <3>3 DEF NoForgottenConnection, Moves
    <3> QED
      BY <3>4, <3>5, <3>6
  <2> QED
    BY <2>2, <2>3
<1>6. CASE CloseRTA(p)
  <2>1. go[p].at = "closeRTA" /\ UNCHANGED <<rtaDialing, dialed, open, rtaMode, closed, lost>>
    BY <1>6 DEF CloseRTA
  <2>2. CASE rta = NoConn
    <3>1. /\ rta' = NoConn /\ closeMu' \in Callers \cup {Nobody}
          /\ Goto(p, "awaitDial") \/ Ends(p)
      BY <1>6, <2>2 DEF CloseRTA, CloseReturns
    <3>2. Moves(p, Outside)
      BY <3>1, CallMoves DEF Moves, Outside, Places
    <3>3. OwnTypeOK' /\ DialsWithoutConn'
      BY <2>1, <3>1, <3>2 DEF DialsWithoutConn, Moves, Outside
    <3>4. NoForgottenConnection'
      BY <2>1, <2>2, <3>1, <3>2 DEF NoForgottenConnection, Moves, NoConn, Conns
    <3> QED
      BY <3>3, <3>4
  <2>3. CASE rta # NoConn
    <3> DEFINE c == [go[p] EXCEPT !.at = "closeConn", !.conn = rta]
    <3>1. rta' = NoConn /\ go' = [go EXCEPT ![p] = c] /\ UNCHANGED closeMu
      BY <1>6, <2>3 DEF CloseRTA, DialsWithoutConn
    <3>2. c \in Call
      BY CallTypes, FALSE \in BOOLEAN DEF Places
    <3>3. c.at = "closeConn" /\ c.conn = rta
      BY DEF Call
    <3> HIDE DEF c
    <3>4. OwnTypeOK' /\ DialsWithoutConn'
      BY <2>1, <3>1, <3>2, <3>3 DEF DialsWithoutConn
    <3>5. NoForgottenConnection'
      BY <2>1, <3>1, <3>2, <3>3 DEF NoForgottenConnection
    <3> QED
      BY <3>4, <3>5
  <2> QED
    BY <2>2, <2>3
<1>7. CASE CloseConn(p)
  <2>1. /\ go[p].at = "closeConn" /\ open' = open \ {go[p].conn} /\ Ends(p)
        /\ closeMu' = Nobody /\ UNCHANGED <<rta, rtaDialing, dialed, rtaMode, closed, lost>>
    BY <1>7 DEF CloseConn, CloseReturns
  <2>2. Moves(p, {"idle"})
    BY <2>1, CallMoves
  <2>3. OwnTypeOK' /\ DialsWithoutConn'
    BY <2>1, <2>2 DEF DialsWithoutConn, Moves
  <2>4. NoForgottenConnection'
    BY <2>1, <2>2 DEF NoForgottenConnection, Moves
  <2> QED
    BY <2>3, <2>4
<1> QED
  BY <1>1, <1>2, <1>3, <1>4, <1>5, <1>6, <1>7 DEF CloseStep

LEMMA ClientNextKeepsInv == ClientInv /\ [ClientNext]_clientVars => ClientInv'
<1> SUFFICES ASSUME ClientInv, [ClientNext]_clientVars PROVE ClientInv'
  OBVIOUS
<1>1. CASE LoseSubscription \/ ReportLoss
  <2>1. UNCHANGED <<rtaVars, closeVars, rtaMode, go>> /\ lost' \in 0..MaxLosses
    BY <1>1, ClientAssumption DEF LoseSubscription, ReportLoss, ClientInv, OwnTypeOK
  <2> QED
    BY <2>1 DEF ClientInv, OwnTypeOK, DialsWithoutConn, NoForgottenConnection,
       rtaVars, closeVars, At
<1>2. CASE UNCHANGED clientVars
  BY <1>2 DEF clientVars, rtaVars, closeVars, ClientInv, OwnTypeOK, DialsWithoutConn,
     NoForgottenConnection, At
<1> QED
  BY <1>1, <1>2, CallsKeepInv, RtaStepKeepsInv, CloseKeepsInv DEF ClientNext

LEMMA ClientInvariant == ClientSpec => []ClientInv
BY ClientInitInv, ClientNextKeepsInv, PTL DEF ClientSpec

\* The types of all variables, those of the parts included.
\* About: xsapi.Client.
THEOREM ClientTypeCorrect == ClientSpec => []ClientTypeOK
<1>1. ClientInv /\ SocialTypeOK /\ PresenceTypeOK => ClientTypeOK
  BY DEF ClientInv, OwnTypeOK, ClientTypeOK
<1> QED
  BY <1>1, ClientInvariant, ClientImplementsParts, SocialTypeCorrect,
     PresenceTypeCorrect, PTL

\* However lazy dials of any number of goroutines, failed ones included, overlap
\* with CloseContext, no connection stays open that nobody would close.
\* About: ensureRTA and closeRTA.
THEOREM NoForgottenConnectionHolds == ClientSpec => []NoForgottenConnection
<1>1. ClientInv => NoForgottenConnection
  BY DEF ClientInv
<1> QED
  BY <1>1, ClientInvariant, PTL
=============================================================================
