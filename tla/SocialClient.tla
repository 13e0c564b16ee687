----------------------------- MODULE SocialClient -----------------------------
(***************************************************************************)
(* social.Client: many handlers share one RTA subscription.  The first one *)
(* subscribes, the last one to be removed unsubscribes, all under          *)
(* subscriptionMu, which is held while the RTA operation runs.  What RTA   *)
(* does, which includes losing the subscription at any moment, is left to  *)
(* the module that composes this one: it joins SocialActivated,            *)
(* SocialSubscribeFails, SocialUnsubscribed, SocialUnsubscribeFails and    *)
(* SubscriptionLost with steps of the connection.                          *)
(***************************************************************************)
EXTENDS Naturals, Goroutines

CONSTANTS Registrations     \* the registrations that are ever made

VARIABLES
    subscriptionMu,         \* who holds it for writing
    subscriptionHandlers,   \* the registrations that are in place
    subscribed,             \* subscription.Active()
    socialGo,               \* socialGo[p]: the method goroutine p runs
    registered,             \* the registrations whose Subscribe has returned
    losses,                 \* goroutines that are about to run HandleError
    told,                   \* history: who was told since the last activation
    keptByFailure           \* history: RTA failed to unsubscribe the last handler

socialVars == <<subscriptionMu, subscriptionHandlers, subscribed, socialGo,
                registered, losses, told, keptByFailure>>

-----------------------------------------------------------------------------

SocialPlaces == {"idle", "subscribe", "register", "unsubscribe", "close"}

SocialTypeOK ==
    /\ subscriptionMu \in Callers \cup {Nobody}
    /\ subscriptionHandlers \subseteq registered
    /\ subscribed \in BOOLEAN
    /\ socialGo \in [Callers -> SocialPlaces]
    /\ registered \subseteq Registrations
    /\ losses \in Nat
    /\ told \subseteq Registrations
    /\ keptByFailure \in BOOLEAN

SocialInit ==
    /\ subscriptionMu = Nobody
    /\ subscriptionHandlers = {}
    /\ subscribed = FALSE
    /\ socialGo = [p \in Callers |-> "idle"]
    /\ registered = {}
    /\ losses = 0
    /\ told = {}
    /\ keptByFailure = FALSE

SocialGoto(p, place) == socialGo' = [socialGo EXCEPT ![p] = place]

\* The method returns: its deferred Unlock.
SocialReturns(p) == subscriptionMu' = Nobody /\ SocialGoto(p, "idle")

Continues(p, place) == subscriptionMu' = p /\ SocialGoto(p, place)

-----------------------------------------------------------------------------
(* Subscribe *)

SocialSubscribe(p) ==
    /\ socialGo[p] = "idle"
    /\ subscriptionMu = Nobody
    /\ registered # Registrations
    /\ \/ subscribed /\ Continues(p, "register")
       \/ ~subscribed /\ Continues(p, "subscribe")
    /\ UNCHANGED <<subscriptionHandlers, subscribed, registered, losses, told,
                   keptByFailure>>

\* rta.Subscribe has activated the subscription.
SocialActivated(p) ==
    /\ socialGo[p] = "subscribe"
    /\ subscribed' = TRUE
    /\ told' = {}
    /\ SocialGoto(p, "register")
    /\ UNCHANGED <<subscriptionMu, subscriptionHandlers, registered, losses,
                   keptByFailure>>

SocialSubscribeFails(p) ==
    /\ socialGo[p] = "subscribe"
    /\ SocialReturns(p)
    /\ UNCHANGED <<subscriptionHandlers, subscribed, registered, losses, told,
                   keptByFailure>>

Register(p) ==
    /\ socialGo[p] = "register"
    /\ LET r == CHOOSE r \in Registrations \ registered : TRUE
       IN  /\ subscriptionHandlers' = subscriptionHandlers \cup {r}
           /\ registered' = registered \cup {r}
    /\ keptByFailure' = FALSE
    /\ SocialReturns(p)
    /\ UNCHANGED <<subscribed, losses, told>>

-----------------------------------------------------------------------------
(* The function that Subscribe returns *)

\* Mutant: whether this was the last handler is judged before it is removed.
RemoveHandlerTooEarly(p, r) ==
    /\ socialGo[p] = "idle"
    /\ subscriptionMu = Nobody
    /\ r \in registered
    /\ subscriptionHandlers' = subscriptionHandlers \ {r}
    /\ \/ /\ subscriptionHandlers # {} \/ ~subscribed
          /\ SocialReturns(p)
       \/ /\ subscriptionHandlers = {} /\ subscribed
          /\ Continues(p, "unsubscribe")
    /\ UNCHANGED <<subscribed, registered, losses, told, keptByFailure>>

\* It may be called by any goroutine, at any time, and repeatedly.
RemoveHandler(p, r) ==
    /\ socialGo[p] = "idle"
    /\ subscriptionMu = Nobody
    /\ r \in registered
    /\ subscriptionHandlers' = subscriptionHandlers \ {r}
    /\ \/ /\ subscriptionHandlers' # {} \/ ~subscribed
          /\ SocialReturns(p)
       \/ /\ subscriptionHandlers' = {} /\ subscribed
          /\ Continues(p, "unsubscribe")
    /\ UNCHANGED <<subscribed, registered, losses, told, keptByFailure>>

\* CloseContext
ClosesSocial(p) ==
    /\ socialGo[p] = "idle"
    /\ subscriptionMu = Nobody
    /\ \/ /\ subscribed
          /\ Continues(p, "close")
          /\ UNCHANGED subscriptionHandlers
       \/ /\ ~subscribed
          /\ subscriptionHandlers' = {}
          /\ UNCHANGED <<subscriptionMu, socialGo>>
    /\ UNCHANGED <<subscribed, registered, losses, told, keptByFailure>>

Unsubscribing(p) == socialGo[p] \in {"unsubscribe", "close"}

\* rta.Unsubscribe has succeeded: the subscription is inactive, whoever made it
\* so.  HandleError is called with ErrUnsubscribed and ignores it.
SocialUnsubscribed(p) ==
    /\ Unsubscribing(p)
    /\ subscribed' = FALSE
    /\ keptByFailure' = FALSE
    /\ subscriptionHandlers' = {}
    /\ SocialReturns(p)
    /\ UNCHANGED <<registered, losses, told>>

SocialUnsubscribeFails(p) ==
    /\ Unsubscribing(p)
    /\ keptByFailure' = (keptByFailure \/ socialGo[p] = "unsubscribe")
    /\ SocialReturns(p)
    /\ UNCHANGED <<subscriptionHandlers, subscribed, registered, losses, told>>

-----------------------------------------------------------------------------
(* The subscription is lost *)

\* Subscription.deactivate with any other cause starts HandleError.
SubscriptionLost ==
    /\ subscribed
    /\ subscribed' = FALSE
    /\ losses' = losses + 1
    /\ UNCHANGED <<subscriptionMu, subscriptionHandlers, socialGo, registered,
                   told, keptByFailure>>

\* Mutant: the handlers are copied without the mutex.
HandleErrorUnlocked ==
    /\ losses > 0
    /\ losses' = losses - 1
    /\ told' = told \cup subscriptionHandlers
    /\ UNCHANGED <<subscriptionMu, subscriptionHandlers, subscribed, socialGo,
                   registered, keptByFailure>>

HandleError ==
    /\ losses > 0
    /\ subscriptionMu = Nobody
    /\ losses' = losses - 1
    /\ told' = told \cup subscriptionHandlers
    /\ UNCHANGED <<subscriptionMu, subscriptionHandlers, subscribed, socialGo,
                   registered, keptByFailure>>

-----------------------------------------------------------------------------

SocialStep(p) ==
    \/ SocialSubscribe(p) \/ SocialActivated(p) \/ SocialSubscribeFails(p)
    \/ Register(p)
    \/ \E r \in Registrations : RemoveHandler(p, r)
    \/ ClosesSocial(p) \/ SocialUnsubscribed(p) \/ SocialUnsubscribeFails(p)

SocialNext == (\E p \in Callers : SocialStep(p)) \/ SubscriptionLost \/ HandleError

SocialSpec == SocialInit /\ [][SocialNext]_socialVars

-----------------------------------------------------------------------------

\* A handler that is registered while the subscription is inactive has been
\* told that it was lost, or a HandleError that will find it is on its way.
\* About: Subscribe registering after the subscription was found active, lost
\* in between; HandleError taking its snapshot under the same mutex.
LossIsReported ==
    (subscriptionHandlers # {} /\ ~subscribed) =>
        losses > 0 \/ subscriptionHandlers \subseteq told

\* Between two methods the subscription is active only for somebody: there is
\* a handler, or RTA refused to end it when the last one was removed.
\* About: Subscribe and the functions it returns, called in any order.
SubscriptionHasHandler ==
    (subscriptionMu = Nobody /\ subscribed) =>
        subscriptionHandlers # {} \/ keptByFailure
=============================================================================
