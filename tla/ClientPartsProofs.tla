-------------------------- MODULE ClientPartsProofs --------------------------
(***************************************************************************)
(* What presence.Client and social.Client promise, for any number of       *)
(* goroutines, updates, removals and registrations: what a clean-up has    *)
(* taken away stays away, and the shared subscription serves its handlers. *)
(***************************************************************************)
EXTENDS PresenceClient, SocialClient, TLAPS

(* presence.Client *)

\* Who waits for an answer holds lifecycleMu, and an update that is sent is one
\* of the present lifecycle.
HoldsLifecycle ==
    \A p \in Callers :
        /\ presenceGo[p].at \in {"post", "delete"} => lifecycleMu = p
        /\ presenceGo[p].at = "post" => presenceGo[p].version = lifecycleVersion
        /\ presenceGo[p].at = "try" => presenceGo[p].tries < updateMaxAttempts

\* What the service shows and somebody remembers will be cleaned up.
RememberedIsCleanedUp ==
    (shown # NotShown /\ ~forgotten) => shouldCleanup

PresenceInv ==
    /\ PresenceTypeOK
    /\ HoldsLifecycle
    /\ RememberedIsCleanedUp
    /\ cleaned <= lifecycleVersion
    /\ CleanedStaysClean

-----------------------------------------------------------------------------

LEMMA PresenceInitInv == PresenceInit => PresenceInv
<1> SUFFICES ASSUME PresenceInit PROVE PresenceInv
  OBVIOUS
<1>1. PresenceTypeOK
  <2>1. shouldCleanup \in BOOLEAN /\ forgotten \in BOOLEAN
    BY Zenon DEF PresenceInit
  <2> QED
    BY <2>1 DEF PresenceInit, PresenceTypeOK, NoPresenceCall, PresenceCall,
       NotShown, updateMaxAttempts
<1>2. HoldsLifecycle
  BY DEF PresenceInit, HoldsLifecycle, NoPresenceCall
<1>3. RememberedIsCleanedUp /\ CleanedStaysClean
  BY Zenon DEF PresenceInit, RememberedIsCleanedUp, CleanedStaysClean
<1>4. cleaned <= lifecycleVersion
  BY DEF PresenceInit
<1> QED
  BY <1>1, <1>2, <1>3, <1>4 DEF PresenceInv

\* One attempt of Update after another.
LEMMA UpdateKeepsInv ==
    ASSUME NEW p \in Callers, PresenceInv, UpdateStep(p)
    PROVE  PresenceInv'
<1> USE GoroutinesAssumption
    DEF PresenceInv, PresenceTypeOK, HoldsLifecycle, NoPresenceCall, PresenceCall,
        EndsPresenceCall, updateMaxAttempts, NotShown
<1>1. CASE UpdateBegins(p)
  BY <1>1 DEF UpdateBegins, RememberedIsCleanedUp, CleanedStaysClean
<1>2. CASE UpdateSends(p)
  BY <1>2 DEF UpdateSends, RememberedIsCleanedUp, CleanedStaysClean
<1>3. CASE UpdateIsStopped(p)
  BY <1>3 DEF UpdateIsStopped, RememberedIsCleanedUp, CleanedStaysClean
<1>4. CASE UpdateIsRefused(p)
  BY <1>4 DEF UpdateIsRefused, RememberedIsCleanedUp, CleanedStaysClean
<1>5. CASE UpdateIsAccepted(p)
  <2>1. PresenceTypeOK'
    <3>1. shouldCleanup' \in BOOLEAN /\ forgotten' \in BOOLEAN
      BY <1>5, Zenon DEF UpdateIsAccepted
    <3> QED
      BY <1>5, <3>1 DEF UpdateIsAccepted
  <2>2. HoldsLifecycle'
    BY <1>5 DEF UpdateIsAccepted
  <2>3. RememberedIsCleanedUp'
    BY <1>5, Zenon DEF UpdateIsAccepted, RememberedIsCleanedUp
  <2>4. cleaned' <= lifecycleVersion' /\ CleanedStaysClean'
    BY <1>5 DEF UpdateIsAccepted, CleanedStaysClean
  <2> QED
    BY <2>1, <2>2, <2>3, <2>4
<1>6. CASE UpdateIsThrottled(p)
  BY <1>6 DEF UpdateIsThrottled, RememberedIsCleanedUp, CleanedStaysClean
<1>7. CASE UpdateFails(p)
  <2>1. PresenceTypeOK'
    <3>1. forgotten' \in BOOLEAN
      BY <1>7, Zenon DEF UpdateFails
    <3> QED
      BY <1>7, <3>1 DEF UpdateFails
  <2>2. HoldsLifecycle'
    BY <1>7 DEF UpdateFails
  <2>3. RememberedIsCleanedUp'
    BY <1>7, Zenon DEF UpdateFails, RememberedIsCleanedUp
  <2>4. cleaned' <= lifecycleVersion' /\ CleanedStaysClean'
    <3>1. shown' > cleaned' \/ (shown' = shown /\ forgotten' = forgotten)
      BY <1>7 DEF UpdateFails
    <3>2. cleaned' = cleaned /\ lifecycleVersion' = lifecycleVersion
      BY <1>7 DEF UpdateFails
    <3>3. CASE shown' > cleaned'
      BY <3>2, <3>3 DEF CleanedStaysClean
    <3>4. CASE shown' = shown /\ forgotten' = forgotten
      BY <3>2, <3>4 DEF CleanedStaysClean
    <3> QED
      BY <3>1, <3>3, <3>4
  <2> QED
    BY <2>1, <2>2, <2>3, <2>4
<1>8. CASE UpdateGivesUp(p)
  BY <1>8 DEF UpdateGivesUp, RememberedIsCleanedUp, CleanedStaysClean
<1> QED
  BY <1>1, <1>2, <1>3, <1>4, <1>5, <1>6, <1>7, <1>8 DEF UpdateStep

\* A removal starts a new lifecycle when nobody holds the mutex.
LEMMA RemovalKeepsInv ==
    ASSUME NEW p \in Callers, PresenceInv, RemoveStep(p)
    PROVE  PresenceInv'
<1> USE GoroutinesAssumption
    DEF PresenceInv, PresenceTypeOK, HoldsLifecycle, NoPresenceCall, PresenceCall,
        EndsPresenceCall, updateMaxAttempts, NotShown
<1>1. CASE PresenceRemove(p)
  BY <1>1 DEF PresenceRemove, RemovalBegins, RememberedIsCleanedUp, CleanedStaysClean
<1>2. CASE ClosesPresence(p)
  BY <1>2 DEF ClosesPresence, RemovalBegins, RememberedIsCleanedUp, CleanedStaysClean
<1>3. CASE Removed(p)
  <2>1. PresenceTypeOK'
    <3>1. shouldCleanup' \in BOOLEAN /\ forgotten' \in BOOLEAN
      BY <1>3, Zenon DEF Removed
    <3> QED
      BY <1>3, <3>1 DEF Removed
  <2>2. HoldsLifecycle'
    BY <1>3 DEF Removed
  <2>3. RememberedIsCleanedUp' /\ CleanedStaysClean'
    BY <1>3, Zenon DEF Removed, RememberedIsCleanedUp, CleanedStaysClean
  <2>4. cleaned' <= lifecycleVersion'
    BY <1>3 DEF Removed
  <2> QED
    BY <2>1, <2>2, <2>3, <2>4
<1>4. CASE RemovalFails(p)
  <2>1. PresenceTypeOK'
    <3>1. forgotten' \in BOOLEAN
      BY <1>4, Zenon DEF RemovalFails
    <3> QED
      BY <1>4, <3>1 DEF RemovalFails
  <2>2. HoldsLifecycle'
    BY <1>4 DEF RemovalFails
  <2>3. shown' = NotShown \/ (shown' = shown /\ forgotten' = forgotten)
    BY <1>4, Zenon DEF RemovalFails
  <2>4. UNCHANGED <<lifecycleVersion, shouldCleanup, cleaned>>
    BY <1>4 DEF RemovalFails
  <2>5. RememberedIsCleanedUp' /\ CleanedStaysClean'
    BY <2>3, <2>4, Zenon DEF RememberedIsCleanedUp, CleanedStaysClean
  <2>6. cleaned' <= lifecycleVersion'
    BY <2>4
  <2> QED
    BY <2>1, <2>2, <2>5, <2>6
<1> QED
  BY <1>1, <1>2, <1>3, <1>4 DEF RemoveStep

LEMMA PresenceNextKeepsInv == PresenceInv /\ [PresenceNext]_presenceVars => PresenceInv'
<1> SUFFICES ASSUME PresenceInv, [PresenceNext]_presenceVars PROVE PresenceInv'
  OBVIOUS
<1>1. CASE PresenceNext
  BY <1>1, UpdateKeepsInv, RemovalKeepsInv DEF PresenceNext
<1>2. CASE UNCHANGED presenceVars
  BY <1>2 DEF presenceVars, PresenceInv, PresenceTypeOK, HoldsLifecycle,
     RememberedIsCleanedUp, CleanedStaysClean
<1> QED
  BY <1>1, <1>2

LEMMA PresenceInvariant == PresenceSpec => []PresenceInv
BY PresenceInitInv, PresenceNextKeepsInv, PTL DEF PresenceSpec

\* The types of the variables, which bound the attempts of an Update.
\* About: presence.Client, updateMaxAttempts.
THEOREM PresenceTypeCorrect == PresenceSpec => []PresenceTypeOK
<1>1. PresenceInv => PresenceTypeOK
  BY DEF PresenceInv
<1> QED
  BY <1>1, PresenceInvariant, PTL

\* However Updates with their retries, Removes and CloseContexts overlap, what a
\* clean-up has taken away is not shown again by an Update that began earlier.
\* About: presence.Client.update, remove and CloseContext.
THEOREM CleanedStaysCleanHolds == PresenceSpec => []CleanedStaysClean
<1>1. PresenceInv => CleanedStaysClean
  BY DEF PresenceInv
<1> QED
  BY <1>1, PresenceInvariant, PTL

-----------------------------------------------------------------------------
(* social.Client *)

\* Who is in the middle of a method holds subscriptionMu.
HoldsSubscription == \A p \in Callers : socialGo[p] # "idle" => subscriptionMu = p

\* There is a registration left for a Subscribe that has begun.
MayRegister ==
    \A p \in Callers :
        socialGo[p] \in {"subscribe", "register"} => registered # Registrations

\* What a method that holds the mutex has found stays so, unless the
\* subscription is lost, and HandleError then waits for the mutex.
FindsStill ==
    \A p \in Callers :
        /\ socialGo[p] = "subscribe" => ~subscribed
        /\ socialGo[p] = "register" => subscribed \/ losses > 0
        /\ socialGo[p] = "close" =>
              (subscribed => subscriptionHandlers # {} \/ keptByFailure)

SocialInv ==
    /\ SocialTypeOK
    /\ HoldsSubscription
    /\ MayRegister
    /\ FindsStill
    /\ LossIsReported
    /\ SubscriptionHasHandler

-----------------------------------------------------------------------------

LEMMA SocialInitInv == SocialInit => SocialInv
<1> SUFFICES ASSUME SocialInit PROVE SocialInv
  OBVIOUS
<1>1. subscribed \in BOOLEAN /\ keptByFailure \in BOOLEAN /\ ~subscribed
  BY Zenon DEF SocialInit
<1>2. SocialTypeOK
  BY <1>1 DEF SocialInit, SocialTypeOK, SocialPlaces
<1>3. HoldsSubscription /\ MayRegister /\ FindsStill
  BY <1>1 DEF SocialInit, HoldsSubscription, MayRegister, FindsStill
<1>4. LossIsReported /\ SubscriptionHasHandler
  BY <1>1 DEF SocialInit, LossIsReported, SubscriptionHasHandler
<1> QED
  BY <1>2, <1>3, <1>4 DEF SocialInv

\* Steps of Subscribe.
LEMMA SubscribingKeepsInv ==
    ASSUME NEW p \in Callers, SocialInv,
           SocialSubscribe(p) \/ SocialActivated(p) \/ SocialSubscribeFails(p)
               \/ Register(p)
    PROVE  SocialInv'
<1> USE GoroutinesAssumption
    DEF SocialInv, SocialTypeOK, HoldsSubscription, MayRegister, FindsStill,
        LossIsReported, SubscriptionHasHandler, SocialPlaces, SocialGoto,
        SocialReturns, Continues
<1>1. CASE SocialSubscribe(p)
  BY <1>1 DEF SocialSubscribe
<1>2. CASE SocialActivated(p)
  <2>1. subscribed' = TRUE /\ keptByFailure' = keptByFailure
    BY <1>2 DEF SocialActivated
  <2> QED
    BY <1>2, <2>1 DEF SocialActivated
<1>3. CASE SocialSubscribeFails(p)
  BY <1>3 DEF SocialSubscribeFails
<1>4. CASE Register(p)
  <2> DEFINE r == CHOOSE r \in Registrations \ registered : TRUE
  <2>1. r \in Registrations \ registered
    BY <1>4 DEF Register
  <2>2. /\ subscriptionHandlers' = subscriptionHandlers \cup {r}
        /\ registered' = registered \cup {r}
    BY <1>4 DEF Register
  <2>3. keptByFailure' \in BOOLEAN
    BY <1>4, Zenon DEF Register
  <2>4. UNCHANGED <<subscribed, losses, told>>
    BY <1>4 DEF Register
  <2>5. /\ socialGo[p] = "register" /\ subscriptionMu' = Nobody
        /\ socialGo' = [socialGo EXCEPT ![p] = "idle"]
    BY <1>4 DEF Register
  <2> HIDE DEF r
  <2>6. SocialTypeOK'
    BY <2>1, <2>2, <2>3, <2>4, <2>5
  <2>7. HoldsSubscription' /\ MayRegister' /\ FindsStill'
    BY <2>5
  <2>8. LossIsReported'
    BY <2>4, <2>5
  <2>9. SubscriptionHasHandler'
    BY <2>1, <2>2
  <2> QED
    BY <2>6, <2>7, <2>8, <2>9
<1> QED
  BY <1>1, <1>2, <1>3, <1>4

\* Steps of the functions that Subscribe returns, and of CloseContext.
LEMMA UnsubscribingKeepsInv ==
    ASSUME NEW p \in Callers, SocialInv,
           \/ \E r \in Registrations : RemoveHandler(p, r)
           \/ ClosesSocial(p) \/ SocialUnsubscribed(p) \/ SocialUnsubscribeFails(p)
    PROVE  SocialInv'
<1> USE GoroutinesAssumption
    DEF SocialInv, SocialTypeOK, HoldsSubscription, MayRegister, FindsStill,
        LossIsReported, SubscriptionHasHandler, SocialPlaces, SocialGoto,
        SocialReturns, Continues, Unsubscribing
<1>1. CASE \E r \in Registrations : RemoveHandler(p, r)
  BY <1>1 DEF RemoveHandler
<1>2. CASE ClosesSocial(p)
  BY <1>2 DEF ClosesSocial
<1>3. CASE SocialUnsubscribed(p)
  <2>1. subscribed' = FALSE /\ keptByFailure' = FALSE
    BY <1>3 DEF SocialUnsubscribed
  <2> QED
    BY <1>3, <2>1 DEF SocialUnsubscribed
<1>4. CASE SocialUnsubscribeFails(p)
  <2>1. /\ keptByFailure' \in BOOLEAN
        /\ keptByFailure \/ socialGo[p] = "unsubscribe" => keptByFailure'
        /\ keptByFailure' => keptByFailure \/ socialGo[p] = "unsubscribe"
    BY <1>4, Zenon DEF SocialUnsubscribeFails
  <2>2. UNCHANGED <<subscriptionHandlers, subscribed, registered, losses, told>>
    BY <1>4 DEF SocialUnsubscribeFails
  <2> QED
    BY <1>4, <2>1, <2>2 DEF SocialUnsubscribeFails
<1> QED
  BY <1>1, <1>2, <1>3, <1>4

LEMMA LossKeepsInv ==
    ASSUME SocialInv, SubscriptionLost \/ HandleError
    PROVE  SocialInv'
<1> USE GoroutinesAssumption
    DEF SocialInv, SocialTypeOK, HoldsSubscription, MayRegister, FindsStill,
        LossIsReported, SubscriptionHasHandler, SocialPlaces
<1>1. CASE SubscriptionLost
  <2>1. ~subscribed' /\ subscribed' \in BOOLEAN
    BY <1>1, Zenon DEF SubscriptionLost
  <2>2. losses' = losses + 1
    BY <1>1 DEF SubscriptionLost
  <2>3. UNCHANGED <<subscriptionMu, subscriptionHandlers, socialGo, registered,
                    told, keptByFailure>>
    BY <1>1 DEF SubscriptionLost
  <2>4. subscribed
    BY <1>1 DEF SubscriptionLost
  <2> QED
    BY <2>1, <2>2, <2>3, <2>4
<1>2. CASE HandleError
  BY <1>2 DEF HandleError
<1> QED
  BY <1>1, <1>2

LEMMA SocialNextKeepsInv == SocialInv /\ [SocialNext]_socialVars => SocialInv'
<1> SUFFICES ASSUME SocialInv, [SocialNext]_socialVars PROVE SocialInv'
  OBVIOUS
<1>1. CASE SocialNext
  BY <1>1, SubscribingKeepsInv, UnsubscribingKeepsInv, LossKeepsInv
     DEF SocialNext, SocialStep
<1>2. CASE UNCHANGED socialVars
  BY <1>2 DEF socialVars, SocialInv, SocialTypeOK, HoldsSubscription, MayRegister,
     FindsStill, LossIsReported, SubscriptionHasHandler
<1> QED
  BY <1>1, <1>2

LEMMA SocialInvariant == SocialSpec => []SocialInv
BY SocialInitInv, SocialNextKeepsInv, PTL DEF SocialSpec

\* The types of the variables: only what was registered is ever in place.
\* About: social.Client.
THEOREM SocialTypeCorrect == SocialSpec => []SocialTypeOK
<1>1. SocialInv => SocialTypeOK
  BY DEF SocialInv
<1> QED
  BY <1>1, SocialInvariant, PTL

\* No handler is left behind without being told that its subscription is gone,
\* wherever in Subscribe, or in the removal of others, the loss comes.
\* About: social.Client.Subscribe and HandleError.
THEOREM LossIsReportedHolds == SocialSpec => []LossIsReported
<1>1. SocialInv => LossIsReported
  BY DEF SocialInv
<1> QED
  BY <1>1, SocialInvariant, PTL

\* The subscription does not outlive its last handler, unless RTA refused.
\* About: social.Client.Subscribe and the functions it returns.
THEOREM SubscriptionHasHandlerHolds == SocialSpec => []SubscriptionHasHandler
<1>1. SocialInv => SubscriptionHasHandler
  BY DEF SocialInv
<1> QED
  BY <1>1, SocialInvariant, PTL
=============================================================================
