----------------------------- MODULE XsapiClient -----------------------------
(***************************************************************************)
(* xsapi.Client: it dials the RTA connection when somebody first needs it, *)
(* hands it to social.Client through lazyRTA, and closes its parts and     *)
(* then the connection.  This module composes it with presence.Client and  *)
(* social.Client; mpsd.Client, which has modules of its own, takes part    *)
(* with calls that subscribe, and a CloseContext that succeeds or fails.   *)
(*                                                                         *)
(* A connection is a number; RtaConn models what happens inside one.  Here *)
(* it is dialed, carries the subscription of social.Client, may lose it,   *)
(* and is closed.                                                          *)
(***************************************************************************)
EXTENDS SocialClient, PresenceClient

CONSTANTS
    MaxConns,       \* bound: dials, of which the last one does not fail
    MaxLosses,      \* bound: subscriptions lost before the client is closed
    MaxVersion      \* bound: removals and closes of the presence

ASSUME ClientAssumption ==
    /\ MaxConns \in Nat \ {0}
    /\ MaxLosses \in Nat
    /\ MaxVersion \in Nat

NoConn == 0
Conns == 1..MaxConns

VARIABLES
    rtaMode,        \* ClientConfig.RTAMode
    closed,
    closeMu,        \* who holds the mutex
    rta,            \* Client.rta
    rtaDialing,     \* who dials, and closes the channel when it is done
    dialed,         \* number of dials that have ended
    open,           \* the connections that are not closed
    go,             \* go[p]: where goroutine p is in a method of Client
    lost            \* number of times the subscription was lost

rtaVars == <<rta, rtaDialing, dialed, open>>
closeVars == <<closed, closeMu>>
clientVars == <<socialVars, presenceVars, rtaVars, closeVars, rtaMode, go, lost>>

-----------------------------------------------------------------------------

\* ensureRTA: ensure, lookup, waitDial, dial, dialed, discard; the RTA
\* operation itself: subscribe, unsubscribe; CloseContext: mpsd, social,
\* presence, join, closeRTA, awaitDial, closeConn.
Places == {"idle", "ensure", "lookup", "waitDial", "dial", "dialed", "discard",
           "subscribe", "unsubscribe", "mpsd", "social", "presence", "join",
           "closeRTA", "awaitDial", "closeConn"}

\* failed says whether one of the parts has failed to close.
Call == [at : Places, conn : Conns \cup {NoConn}, failed : BOOLEAN]

NoCall == [at |-> "idle", conn |-> NoConn, failed |-> FALSE]

\* The zero value is "eager".
RTAModes == {"eager", "lazy", "disabled"}

ClientTypeOK ==
    /\ SocialTypeOK
    /\ PresenceTypeOK
    /\ rtaMode \in RTAModes
    /\ closed \in BOOLEAN
    /\ closeMu \in Callers \cup {Nobody}
    /\ rta \in Conns \cup {NoConn}
    /\ rtaDialing \in Callers \cup {Nobody}
    /\ dialed \in 0..MaxConns
    /\ open \subseteq Conns
    /\ go \in [Callers -> Call]
    /\ lost \in 0..MaxLosses

\* ClientConfig.New: with RTAEager it has dialed.
ClientInit ==
    /\ SocialInit
    /\ PresenceInit
    /\ \/ /\ rtaMode = "eager"
          /\ rta = 1 /\ dialed = 1 /\ open = {1}
       \/ /\ rtaMode \in RTAModes \ {"eager"}
          /\ rta = NoConn /\ dialed = 0 /\ open = {}
    /\ closed = FALSE
    /\ closeMu = Nobody
    /\ rtaDialing = Nobody
    /\ go = [p \in Callers |-> NoCall]
    /\ lost = 0

Idle(p) == go[p].at = "idle" /\ socialGo[p] = "idle" /\ presenceGo[p].at = "idle"

At(p, place) == go[p].at = place
Goto(p, place) == go' = [go EXCEPT ![p].at = place]
Ends(p) == go' = [go EXCEPT ![p] = NoCall]

-----------------------------------------------------------------------------
(* mpsd.Client and social.Client subscribe *)

Subscribing == {"ensure", "lookup", "waitDial", "dial", "dialed", "discard",
                "subscribe"}

\* On behalf of mpsd.Client, whose subscribeMu lets one goroutine at a time.
SubscribesMpsd(p) == go[p].at \in Subscribing /\ socialGo[p] = "idle"

MpsdSubscribe(p) ==
    /\ Idle(p)
    /\ \A q \in Callers : ~SubscribesMpsd(q)
    /\ Goto(p, "ensure")
    /\ UNCHANGED <<socialVars, presenceVars, rtaVars, closeVars, rtaMode, lost>>

Subscribe(p) ==
    /\ Idle(p)
    /\ SocialSubscribe(p)
    /\ IF socialGo'[p] = "subscribe" THEN Goto(p, "ensure") ELSE UNCHANGED go
    /\ UNCHANGED <<presenceVars, rtaVars, closeVars, rtaMode, lost>>

RegisterHandler(p) ==
    /\ Register(p)
    /\ UNCHANGED <<presenceVars, rtaVars, closeVars, rtaMode, go, lost>>

\* lazyRTA.Unsubscribe begins by reading Client.rta.
LooksUpConn(p) == go' = [go EXCEPT ![p].at = "unsubscribe", ![p].conn = rta]

Unsubscribe(p, r) ==
    /\ Idle(p)
    /\ RemoveHandler(p, r)
    /\ IF socialGo'[p] = "unsubscribe" THEN LooksUpConn(p) ELSE UNCHANGED go
    /\ UNCHANGED <<presenceVars, rtaVars, closeVars, rtaMode, lost>>

\* A subscription that fails ends the method that needed it.
MethodFails(p) ==
    \/ SocialSubscribeFails(p)
    \/ SubscribesMpsd(p) /\ UNCHANGED socialVars

FailsToSubscribe(p) ==
    /\ MethodFails(p)
    /\ Ends(p)
    /\ UNCHANGED <<presenceVars, rtaMode, closeVars, lost>>

-----------------------------------------------------------------------------
(* ensureRTA *)

\* It fails when RTA is disabled or, at its first look, the client is closed.
Ensure(p) ==
    /\ At(p, "ensure")
    /\ \/ /\ rtaMode = "disabled" \/ closed
          /\ FailsToSubscribe(p)
       \/ /\ rtaMode # "disabled" /\ ~closed
          /\ Goto(p, "lookup")
          /\ UNCHANGED <<socialVars, presenceVars, closeVars, rtaMode, lost>>
    /\ UNCHANGED rtaVars

\* The section under rtaMu before the dial.
Lookup(p) ==
    /\ At(p, "lookup")
    /\ \/ /\ rta # NoConn
          /\ go' = [go EXCEPT ![p].at = "subscribe", ![p].conn = rta]
          /\ UNCHANGED <<socialVars, rtaDialing, presenceVars, rtaMode, closeVars, lost>>
       \/ /\ rta = NoConn /\ closed
          /\ FailsToSubscribe(p)
          /\ UNCHANGED rtaDialing
       \/ /\ rta = NoConn /\ ~closed /\ rtaDialing # Nobody
          /\ Goto(p, "waitDial")
          /\ UNCHANGED <<socialVars, rtaDialing, presenceVars, rtaMode, closeVars, lost>>
       \/ /\ rta = NoConn /\ ~closed /\ rtaDialing = Nobody
          /\ rtaDialing' = p
          /\ Goto(p, "dial")
          /\ UNCHANGED <<socialVars, presenceVars, rtaMode, closeVars, lost>>
    /\ UNCHANGED <<rta, dialed, open>>

\* The context ends while another goroutine dials.
StopsWaiting(p) ==
    /\ At(p, "waitDial")
    /\ FailsToSubscribe(p)
    /\ UNCHANGED rtaVars

Dial(p) ==
    /\ At(p, "dial")
    /\ dialed < MaxConns
    /\ dialed' = dialed + 1
    /\ open' = open \cup {dialed + 1}
    /\ go' = [go EXCEPT ![p].at = "dialed", ![p].conn = dialed + 1]
    /\ UNCHANGED <<socialVars, presenceVars, closeVars, rtaMode, lost, rta, rtaDialing>>

\* close(done): whoever waits for the dial looks again.
Woken(calls) ==
    [p \in Callers |->
        CASE calls[p].at = "waitDial"  -> [calls[p] EXCEPT !.at = "ensure"]
          [] calls[p].at = "awaitDial" -> [calls[p] EXCEPT !.at = "closeRTA"]
          [] OTHER -> calls[p]]

\* Mutant: the channel is closed after a successful dial only.
DialFailsSilently(p) ==
    /\ At(p, "dial")
    /\ rtaDialing' = Nobody
    /\ MethodFails(p)
    /\ go' = [go EXCEPT ![p] = NoCall]
    /\ dialed + 1 < MaxConns
    /\ dialed' = dialed + 1
    /\ UNCHANGED <<presenceVars, closeVars, rtaMode, lost, rta, open>>

\* Without the bound, a goroutine that waits could be overtaken without end by
\* others whose dials fail.
DialFails(p) ==
    /\ At(p, "dial")
    /\ dialed + 1 < MaxConns
    /\ dialed' = dialed + 1
    /\ rtaDialing' = Nobody
    /\ MethodFails(p)
    /\ go' = Woken([go EXCEPT ![p] = NoCall])
    /\ UNCHANGED <<presenceVars, closeVars, rtaMode, lost, rta, open>>

\* Mutant: the new connection is stored although the client has been closed.
DialedUnchecked(p) ==
    /\ At(p, "dialed")
    /\ rta' = go[p].conn
    /\ rtaDialing' = Nobody
    /\ go' = Woken([go EXCEPT ![p].at = "subscribe"])
    /\ UNCHANGED <<socialVars, presenceVars, closeVars, rtaMode, lost, dialed, open>>

\* The section under rtaMu after a successful dial.
Dialed(p) ==
    /\ At(p, "dialed")
    /\ rtaDialing' = Nobody
    /\ \/ /\ closed
          /\ go' = Woken([go EXCEPT ![p].at = "discard"])
          /\ UNCHANGED rta
       \/ /\ ~closed
          /\ rta' = go[p].conn
          /\ go' = Woken([go EXCEPT ![p].at = "subscribe"])
    /\ UNCHANGED <<socialVars, presenceVars, closeVars, rtaMode, lost, dialed, open>>

Discard(p) ==
    /\ At(p, "discard")
    /\ open' = open \ {go[p].conn}
    /\ FailsToSubscribe(p)
    /\ UNCHANGED <<rta, rtaDialing, dialed>>

-----------------------------------------------------------------------------
(* The RTA operations *)

\* Conn.Subscribe on the connection that ensureRTA returned, which may have
\* been closed since.
ConnSubscribe(p) ==
    /\ At(p, "subscribe")
    /\ \/ /\ go[p].conn \in open
          /\ \/ SocialActivated(p)
             \/ SubscribesMpsd(p) /\ UNCHANGED socialVars
          /\ Ends(p)
          /\ UNCHANGED <<presenceVars, rtaMode, closeVars, lost>>
       \/ FailsToSubscribe(p)
    /\ UNCHANGED rtaVars

\* What follows an unsubscription: CloseContext goes on with the next part.
AfterUnsubscribe(p, failed) ==
    IF socialGo[p] = "close"
      THEN go' = [go EXCEPT ![p].at = "presence", ![p].conn = NoConn,
                            ![p].failed = @ \/ failed]
      ELSE Ends(p)

\* Conn.Unsubscribe.  It fails without a connection, on one that is closed,
\* and for reasons of its own.
ConnUnsubscribe(p) ==
    /\ At(p, "unsubscribe")
    /\ \/ /\ go[p].conn \in open
          /\ SocialUnsubscribed(p)
          /\ AfterUnsubscribe(p, FALSE)
       \/ /\ SocialUnsubscribeFails(p)
          /\ AfterUnsubscribe(p, TRUE)
    /\ UNCHANGED <<presenceVars, rtaVars, closeVars, rtaMode, lost>>

\* The connection could not restore the subscription after an outage.
LoseSubscription ==
    /\ lost < MaxLosses
    /\ SubscriptionLost
    /\ lost' = lost + 1
    /\ UNCHANGED <<presenceVars, rtaVars, closeVars, rtaMode, go>>

ReportLoss ==
    /\ HandleError
    /\ UNCHANGED <<presenceVars, rtaVars, closeVars, rtaMode, go, lost>>

-----------------------------------------------------------------------------
(* presence.Client, whose requests pass Client.RoundTrip *)

Update(p) ==
    /\ go[p].at = "idle" /\ socialGo[p] = "idle"
    /\ \/ UpdateBegins(p) \/ UpdateIsStopped(p) \/ UpdateIsRefused(p)
       \/ UpdateIsAccepted(p) \/ UpdateIsThrottled(p) \/ UpdateFails(p)
       \/ UpdateSends(p) /\ ~closed
    /\ UNCHANGED <<socialVars, rtaVars, closeVars, rtaMode, go, lost>>

UpdateStopsWaiting(p) ==
    /\ UpdateGivesUp(p)
    /\ UNCHANGED <<socialVars, rtaVars, closeVars, rtaMode, go, lost>>

\* There is room for a removal besides the one of a CloseContext.
MayRemove == lifecycleVersion + (IF closeMu = Nobody THEN 0 ELSE 1) < MaxVersion

\* RoundTrip refuses the request of a closed client.
RemovePresence(p) ==
    /\ go[p].at = "idle" /\ socialGo[p] = "idle"
    /\ \/ /\ ~closed
          /\ MayRemove
          /\ PresenceRemove(p)
       \/ Removed(p) \/ RemovalFails(p)
    /\ UNCHANGED <<socialVars, rtaVars, closeVars, rtaMode, go, lost>>

-----------------------------------------------------------------------------
(* CloseContext *)

CloseContext(p) ==
    /\ Idle(p)
    /\ closeMu = Nobody
    /\ ~closed
    /\ lifecycleVersion < MaxVersion
    /\ closeMu' = p
    /\ Goto(p, "mpsd")
    /\ UNCHANGED <<socialVars, presenceVars, rtaVars, rtaMode, closed, lost>>

ClosesMpsd(p) ==
    /\ At(p, "mpsd")
    /\ \E failed \in BOOLEAN :
          go' = [go EXCEPT ![p].at = "social", ![p].failed = failed]
    /\ UNCHANGED <<socialVars, presenceVars, rtaVars, closeVars, rtaMode, lost>>

CloseSocial(p) ==
    /\ At(p, "social")
    /\ ClosesSocial(p)
    /\ IF socialGo'[p] = "close" THEN LooksUpConn(p) ELSE Goto(p, "presence")
    /\ UNCHANGED <<presenceVars, rtaVars, closeVars, rtaMode, lost>>

ClosePresence(p) ==
    /\ At(p, "presence")
    /\ \/ /\ ClosesPresence(p)
          /\ IF presenceGo'[p].at = "delete" THEN UNCHANGED go ELSE Goto(p, "join")
       \/ /\ Removed(p)
          /\ Goto(p, "join")
       \/ /\ RemovalFails(p)
          /\ go' = [go EXCEPT ![p].at = "join", ![p].failed = TRUE]
    /\ UNCHANGED <<socialVars, rtaVars, closeVars, rtaMode, lost>>

\* errors.Join: with an error the client stays open and CloseContext can be
\* called again.
Join(p) ==
    /\ At(p, "join")
    /\ \/ /\ go[p].failed
          /\ Ends(p)
          /\ closeMu' = Nobody
          /\ UNCHANGED closed
       \/ /\ ~go[p].failed
          /\ closed' = TRUE
          /\ Goto(p, "closeRTA")
          /\ UNCHANGED closeMu
    /\ UNCHANGED <<socialVars, presenceVars, rtaVars, rtaMode, lost>>

CloseReturns(p) == Ends(p) /\ closeMu' = Nobody

\* The section of closeRTA under rtaMu.
CloseRTA(p) ==
    /\ At(p, "closeRTA")
    /\ \/ /\ rtaDialing # Nobody
          /\ Goto(p, "awaitDial")
          /\ UNCHANGED <<rta, closeMu>>
       \/ /\ rtaDialing = Nobody
          /\ rta' = NoConn
          /\ IF rta = NoConn
               THEN CloseReturns(p)
               ELSE /\ go' = [go EXCEPT ![p].at = "closeConn", ![p].conn = rta]
                    /\ UNCHANGED closeMu
    /\ UNCHANGED <<socialVars, presenceVars, rtaDialing, dialed, open, rtaMode,
                   closed, lost>>

\* The context ends while a goroutine dials: CloseContext is not called again,
\* but the dial will find the client closed.
CloseStopsWaiting(p) ==
    /\ At(p, "awaitDial")
    /\ CloseReturns(p)
    /\ UNCHANGED <<socialVars, presenceVars, rtaVars, rtaMode, closed, lost>>

\* Conn.Close deactivates what is still subscribed.
CloseConn(p) ==
    /\ At(p, "closeConn")
    /\ open' = open \ {go[p].conn}
    /\ \/ SubscriptionLost
       \/ ~subscribed /\ UNCHANGED socialVars
    /\ CloseReturns(p)
    /\ UNCHANGED <<presenceVars, rta, rtaDialing, dialed, rtaMode, closed, lost>>

-----------------------------------------------------------------------------

RtaStep(p) ==
    \/ Ensure(p) \/ Lookup(p) \/ Dial(p) \/ DialFails(p) \/ Dialed(p)
    \/ Discard(p) \/ ConnSubscribe(p) \/ ConnUnsubscribe(p)

CloseStep(p) ==
    \/ ClosesMpsd(p) \/ CloseSocial(p) \/ ClosePresence(p) \/ Join(p)
    \/ CloseRTA(p) \/ CloseConn(p)

\* The context of a method ends.
ContextEnds(p) == StopsWaiting(p) \/ CloseStopsWaiting(p) \/ UpdateStopsWaiting(p)

ClientNext ==
    \/ \E p \in Callers :
        \/ MpsdSubscribe(p) \/ Subscribe(p) \/ RegisterHandler(p)
        \/ \E r \in Registrations : Unsubscribe(p, r)
        \/ RtaStep(p) \/ Update(p) \/ RemovePresence(p)
        \/ CloseContext(p) \/ CloseStep(p) \/ ContextEnds(p)
    \/ LoseSubscription \/ ReportLoss

\* A goroutine that is in the middle of a method goes on.
ClientAdvances(p) ==
    /\ ~Idle(p)
    /\ \/ RtaStep(p) \/ RegisterHandler(p) \/ Update(p) \/ RemovePresence(p)
       \/ CloseStep(p)

\* Strong fairness: subscriptionMu and lifecycleMu are mutexes of Go, which
\* hands a mutex to a waiter that has starved.
ClientFairness == \A p \in Callers : SF_clientVars(ClientAdvances(p))

ClientSpec == ClientInit /\ [][ClientNext]_clientVars

-----------------------------------------------------------------------------

\* Every open connection is the one the client hands out, or is in the hands
\* of the goroutine that dialed it or closes it: none is forgotten.  Of a closed
\* client, only the goroutine that closes it finds one to hand out.
\* About: ensureRTA finishing a dial while CloseContext sets closed, and a
\* CloseContext whose context ends while it waits for that dial.
NoForgottenConnection ==
    \A c \in open :
        \/ c = rta /\ (closed => \E p \in Callers : At(p, "closeRTA"))
        \/ \E p \in Callers :
              go[p].conn = c /\ go[p].at \in {"dialed", "discard", "closeConn"}
=============================================================================
