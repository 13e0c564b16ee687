------------------------------ MODULE ReuseSource ------------------------------
(***************************************************************************)
(* A source that keeps its token and requests another one when the token   *)
(* has expired: the device token of xasd.ReuseTokenSource, and the tokens  *)
(* of the Microsoft account, where oauth2.ReuseTokenSource keeps what      *)
(* sisu's tokenRefresher requests with its refresh token.  sisu.Session    *)
(* asks both while it holds its own mutexes; several sessions, and the     *)
(* application, may share a source.                                        *)
(*                                                                         *)
(* A request that fails may have been granted; the service then has issued *)
(* a token that nobody got.                                                *)
(***************************************************************************)
EXTENDS Naturals, Goroutines

CONSTANTS
    MaxIssued,      \* bound: tokens that are ever issued
    Refreshing      \* whether a request needs a refresh token

ASSUME ReuseAssumption == MaxIssued \in Nat /\ Refreshing \in BOOLEAN

NoTokenHeld == 0

VARIABLES
    held,           \* refreshTokenSource.t: the number of the token, or none
    refreshToken,   \* tokenRefresher.refreshToken: is it set?
    sourceMu,       \* who holds the mutex of the source
    sourceGo,       \* sourceGo[p]: where goroutine p is in the call
    issuedTokens,   \* number of tokens issued
    stale           \* the tokens that have expired, or will within a minute

sourceVars == <<held, refreshToken, sourceMu, sourceGo, issuedTokens, stale>>

-----------------------------------------------------------------------------

SourceTypeOK ==
    /\ held \in 0..MaxIssued
    /\ refreshToken \in BOOLEAN
    /\ sourceMu \in Callers \cup {Nobody}
    /\ sourceGo \in [Callers -> {"idle", "wait", "request"}]
    /\ issuedTokens \in 0..MaxIssued
    /\ stale \subseteq 1..MaxIssued

\* Without a token, as for a new device, or with one that was restored.
SourceInit ==
    /\ \/ held = NoTokenHeld /\ issuedTokens = 0
       \/ held = 1 /\ issuedTokens = 1 /\ MaxIssued >= 1
    /\ refreshToken \in (IF Refreshing THEN BOOLEAN ELSE {FALSE})
    /\ sourceMu = Nobody
    /\ sourceGo = [p \in Callers |-> "idle"]
    /\ stale = {}

\* Token.Valid, at the time of the call.
HeldIsValid == held # NoTokenHeld /\ held \notin stale

AskSource(p) ==
    /\ sourceGo[p] = "idle"
    /\ sourceGo' = [sourceGo EXCEPT ![p] = "wait"]
    /\ UNCHANGED <<held, refreshToken, sourceMu, issuedTokens, stale>>

Reuse(p) ==
    /\ sourceGo[p] = "wait" /\ sourceMu = Nobody
    /\ HeldIsValid
    /\ sourceGo' = [sourceGo EXCEPT ![p] = "idle"]
    /\ UNCHANGED <<held, refreshToken, sourceMu, issuedTokens, stale>>

\* Mutant: the mutex is not held during the request.
RequestUnlocked(p) ==
    /\ sourceGo[p] = "wait"
    /\ ~HeldIsValid
    /\ Refreshing => refreshToken
    /\ sourceGo' = [sourceGo EXCEPT ![p] = "request"]
    /\ UNCHANGED <<held, refreshToken, sourceMu, issuedTokens, stale>>

Request(p) ==
    /\ sourceGo[p] = "wait" /\ sourceMu = Nobody
    /\ ~HeldIsValid
    /\ Refreshing => refreshToken
    /\ sourceMu' = p
    /\ sourceGo' = [sourceGo EXCEPT ![p] = "request"]
    /\ UNCHANGED <<held, refreshToken, issuedTokens, stale>>

CannotRequest(p) ==
    /\ sourceGo[p] = "wait" /\ sourceMu = Nobody
    /\ ~HeldIsValid
    /\ Refreshing /\ ~refreshToken
    /\ sourceGo' = [sourceGo EXCEPT ![p] = "idle"]
    /\ UNCHANGED <<held, refreshToken, sourceMu, issuedTokens, stale>>

\* A refresh token is replaced by that of the answer, which may have none.
Granted(p) ==
    /\ sourceGo[p] = "request"
    /\ issuedTokens < MaxIssued
    /\ issuedTokens' = issuedTokens + 1
    /\ held' = issuedTokens + 1
    /\ refreshToken' \in (IF Refreshing THEN BOOLEAN ELSE {FALSE})
    /\ sourceMu' = Nobody
    /\ sourceGo' = [sourceGo EXCEPT ![p] = "idle"]
    /\ UNCHANGED stale

\* The request cannot be made or gets no answer, or one that grants nothing.
NotGranted(p) ==
    /\ sourceGo[p] = "request"
    /\ sourceMu' = Nobody
    /\ sourceGo' = [sourceGo EXCEPT ![p] = "idle"]
    /\ UNCHANGED <<held, refreshToken, issuedTokens, stale>>

\* TokenRequest.Do: the answer that grants a token is lost or cannot be decoded.
AnswerIsLost(p) ==
    /\ sourceGo[p] = "request"
    /\ issuedTokens < MaxIssued
    /\ issuedTokens' = issuedTokens + 1
    /\ sourceMu' = Nobody
    /\ sourceGo' = [sourceGo EXCEPT ![p] = "idle"]
    /\ UNCHANGED <<held, refreshToken, stale>>

TokenExpires(t) ==
    /\ t <= issuedTokens /\ t \notin stale
    /\ stale' = stale \cup {t}
    /\ UNCHANGED <<held, refreshToken, sourceMu, sourceGo, issuedTokens>>

SourceStep(p) ==
    \/ Reuse(p) \/ Request(p) \/ CannotRequest(p)
    \/ Granted(p) \/ NotGranted(p) \/ AnswerIsLost(p)

SourceNext ==
    \/ \E p \in Callers : AskSource(p) \/ SourceStep(p)
    \/ \E t \in 1..MaxIssued : TokenExpires(t)

SourceSpec == SourceInit /\ [][SourceNext]_sourceVars

\* The mutex is one of Go, which hands it to a waiter that has starved.
SourceFairness == \A p \in Callers : SF_sourceVars(SourceStep(p))

-----------------------------------------------------------------------------

\* A token is replaced only when it has expired: goroutines that find it
\* expired at the same time request one new token between them, and none of
\* them takes the place of a token that another one has just been granted.
\* About: refreshTokenSource.DeviceToken, and tokenRefresher behind
\* oauth2.ReuseTokenSource.
ReplacedWhenExpired == [][held' # held => ~HeldIsValid]_sourceVars
=============================================================================
