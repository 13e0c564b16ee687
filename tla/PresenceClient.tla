---------------------------- MODULE PresenceClient ----------------------------
(***************************************************************************)
(* presence.Client: Update retries while the service throttles it, and     *)
(* Remove and CloseContext take the presence away again.  lifecycleMu is   *)
(* held during each request but not between the attempts of an Update, so  *)
(* that a removal can come between them; lifecycleVersion tells the next   *)
(* attempt that it did.                                                    *)
(*                                                                         *)
(* A presence is named by the lifecycle in which its Update began.  A      *)
(* request that is given up may have been applied; it takes no effect      *)
(* later.                                                                  *)
(***************************************************************************)
EXTENDS Naturals, Goroutines

updateMaxAttempts == 3

NotShown == 0

VARIABLES
    lifecycleMu,        \* who holds the mutex
    lifecycleVersion,
    shouldCleanup,
    shown,              \* the service: 1 + the version of the presence it shows
    presenceGo,         \* presenceGo[p]: the method goroutine p runs
    cleaned,            \* history: the version the last clean-up left behind
    forgotten           \* history: shown was set by an Update that lost its answer

presenceVars == <<lifecycleMu, lifecycleVersion, shouldCleanup, shown,
                  presenceGo, cleaned, forgotten>>

-----------------------------------------------------------------------------

\* at "try" the goroutine waits for the mutex or for the delay before an
\* attempt; at "post" and "delete" it holds the mutex and awaits an answer.
PresenceCall == [at : {"idle", "try", "post", "delete"},
                 version : Nat,
                 tries : 0..updateMaxAttempts]

NoPresenceCall == [at |-> "idle", version |-> 0, tries |-> 0]

PresenceTypeOK ==
    /\ lifecycleMu \in Callers \cup {Nobody}
    /\ lifecycleVersion \in Nat
    /\ shouldCleanup \in BOOLEAN
    /\ shown \in Nat
    /\ presenceGo \in [Callers -> PresenceCall]
    /\ cleaned \in Nat
    /\ forgotten \in BOOLEAN

PresenceInit ==
    /\ lifecycleMu = Nobody
    /\ lifecycleVersion = 0
    /\ shouldCleanup = FALSE
    /\ shown = NotShown
    /\ presenceGo = [p \in Callers |-> NoPresenceCall]
    /\ cleaned = 0
    /\ forgotten = FALSE

EndsPresenceCall(p) == presenceGo' = [presenceGo EXCEPT ![p] = NoPresenceCall]

-----------------------------------------------------------------------------
(* Update *)

UpdateBegins(p) ==
    /\ presenceGo[p].at = "idle"
    /\ lifecycleMu = Nobody
    /\ presenceGo' = [presenceGo EXCEPT ![p] =
                         [at |-> "try", version |-> lifecycleVersion, tries |-> 0]]
    /\ UNCHANGED <<lifecycleMu, lifecycleVersion, shouldCleanup, shown, cleaned,
                   forgotten>>

\* Mutant: the lifecycle is compared when Update begins and not again.
UpdateSendsAlways(p) ==
    /\ presenceGo[p].at = "try"
    /\ lifecycleMu = Nobody
    /\ lifecycleMu' = p
    /\ presenceGo' = [presenceGo EXCEPT ![p].at = "post", ![p].tries = @ + 1]
    /\ UNCHANGED <<lifecycleVersion, shouldCleanup, shown, cleaned, forgotten>>

UpdateSends(p) ==
    /\ presenceGo[p].at = "try"
    /\ lifecycleMu = Nobody
    /\ presenceGo[p].version = lifecycleVersion
    /\ lifecycleMu' = p
    /\ presenceGo' = [presenceGo EXCEPT ![p].at = "post", ![p].tries = @ + 1]
    /\ UNCHANGED <<lifecycleVersion, shouldCleanup, shown, cleaned, forgotten>>

\* errUpdateStopped: a Remove or a CloseContext came first.
UpdateIsStopped(p) ==
    /\ presenceGo[p].at = "try"
    /\ lifecycleMu = Nobody
    /\ presenceGo[p].version # lifecycleVersion
    /\ EndsPresenceCall(p)
    /\ UNCHANGED <<lifecycleMu, lifecycleVersion, shouldCleanup, shown, cleaned,
                   forgotten>>

\* No request can be made: encoding it failed, or the client is closed.
UpdateIsRefused(p) ==
    /\ presenceGo[p].at = "try"
    /\ lifecycleMu = Nobody
    /\ presenceGo[p].version = lifecycleVersion
    /\ EndsPresenceCall(p)
    /\ UNCHANGED <<lifecycleMu, lifecycleVersion, shouldCleanup, shown, cleaned,
                   forgotten>>

UpdateIsAccepted(p) ==
    /\ presenceGo[p].at = "post"
    /\ shown' = presenceGo[p].version + 1
    /\ shouldCleanup' = TRUE
    /\ forgotten' = FALSE
    /\ lifecycleMu' = Nobody
    /\ EndsPresenceCall(p)
    /\ UNCHANGED <<lifecycleVersion, cleaned>>

\* 429 and 503: the next attempt comes after a delay, without the mutex.
UpdateIsThrottled(p) ==
    /\ presenceGo[p].at = "post"
    /\ lifecycleMu' = Nobody
    /\ \/ /\ presenceGo[p].tries < updateMaxAttempts
          /\ presenceGo' = [presenceGo EXCEPT ![p].at = "try"]
       \/ /\ presenceGo[p].tries = updateMaxAttempts
          /\ EndsPresenceCall(p)
    /\ UNCHANGED <<lifecycleVersion, shouldCleanup, shown, cleaned, forgotten>>

\* Any other status, or no answer at all; without one the service may have
\* applied the update, which nothing remembers.
UpdateFails(p) ==
    /\ presenceGo[p].at = "post"
    /\ \/ UNCHANGED <<shown, forgotten>>
       \/ /\ shown' = presenceGo[p].version + 1
          /\ forgotten' = ~shouldCleanup
    /\ lifecycleMu' = Nobody
    /\ EndsPresenceCall(p)
    /\ UNCHANGED <<lifecycleVersion, shouldCleanup, cleaned>>

\* The context ends while Update waits for its next attempt.
UpdateGivesUp(p) ==
    /\ presenceGo[p].at = "try"
    /\ presenceGo[p].tries > 0
    /\ EndsPresenceCall(p)
    /\ UNCHANGED <<lifecycleMu, lifecycleVersion, shouldCleanup, shown, cleaned,
                   forgotten>>

-----------------------------------------------------------------------------
(* Remove and CloseContext *)

\* Remove, and CloseContext when there is something to clean up: the request
\* is on its way and the mutex is held.
RemovalBegins(p) ==
    /\ lifecycleMu' = p
    /\ lifecycleVersion' = lifecycleVersion + 1
    /\ presenceGo' = [presenceGo EXCEPT ![p].at = "delete"]
    /\ UNCHANGED <<shouldCleanup, shown, cleaned, forgotten>>

PresenceRemove(p) ==
    /\ presenceGo[p].at = "idle"
    /\ lifecycleMu = Nobody
    /\ RemovalBegins(p)

ClosesPresence(p) ==
    /\ presenceGo[p].at = "idle"
    /\ lifecycleMu = Nobody
    /\ \/ shouldCleanup /\ RemovalBegins(p)
       \/ /\ ~shouldCleanup
          /\ lifecycleVersion' = lifecycleVersion + 1
          /\ cleaned' = lifecycleVersion + 1
          /\ UNCHANGED <<lifecycleMu, shouldCleanup, shown, presenceGo, forgotten>>

Removed(p) ==
    /\ presenceGo[p].at = "delete"
    /\ shown' = NotShown
    /\ shouldCleanup' = FALSE
    /\ forgotten' = FALSE
    /\ cleaned' = lifecycleVersion
    /\ lifecycleMu' = Nobody
    /\ EndsPresenceCall(p)
    /\ UNCHANGED lifecycleVersion

\* The request was refused, or applied and its answer lost.  What is to be
\* cleaned up stays so.
RemovalFails(p) ==
    /\ presenceGo[p].at = "delete"
    /\ \/ UNCHANGED <<shown, forgotten>>
       \/ shown' = NotShown /\ forgotten' = FALSE
    /\ lifecycleMu' = Nobody
    /\ EndsPresenceCall(p)
    /\ UNCHANGED <<lifecycleVersion, shouldCleanup, cleaned>>

-----------------------------------------------------------------------------

UpdateStep(p) ==
    \/ UpdateBegins(p) \/ UpdateSends(p) \/ UpdateIsStopped(p)
    \/ UpdateIsRefused(p) \/ UpdateIsAccepted(p) \/ UpdateIsThrottled(p)
    \/ UpdateFails(p) \/ UpdateGivesUp(p)

RemoveStep(p) == PresenceRemove(p) \/ ClosesPresence(p) \/ Removed(p) \/ RemovalFails(p)

PresenceNext == \E p \in Callers : UpdateStep(p) \/ RemoveStep(p)

PresenceSpec == PresenceInit /\ [][PresenceNext]_presenceVars

-----------------------------------------------------------------------------

\* After a Remove or a CloseContext has returned without an error the service
\* shows nothing that an earlier Update has set, not even one that was waiting
\* for its next attempt; the exception is an Update whose answer was lost
\* while there was nothing else to clean up.
\* About: presence.Client.update, remove and CloseContext.
CleanedStaysClean ==
    (shown # NotShown /\ ~forgotten) => shown > cleaned
=============================================================================
