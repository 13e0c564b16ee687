----------------------------- MODULE SisuSession -----------------------------
(***************************************************************************)
(* sisu.Session: the caches of title, user and XSTS tokens behind three    *)
(* mutexes, as nsal.Transport uses them.  A goroutine asks for the XSTS    *)
(* token of a relying party, sends a request with it and, when the service *)
(* says that the token has expired, has the Session discard it.            *)
(*                                                                         *)
(* Tokens are numbered in the order they are issued.  One SISU             *)
(* authorization n issues three of them: a title, a user and an XSTS token *)
(* for the default relying party, all named n.  The device token, the      *)
(* Microsoft account token and the requests themselves only succeed or     *)
(* fail.  Tokens expire at any moment; the service may also reject one     *)
(* that the Session still believes valid.                                  *)
(***************************************************************************)
EXTENDS Naturals, FiniteSets

CONSTANTS
    Callers,          \* goroutines that use the Session
    RelyingParties,
    DefaultRP,        \* http://xboxlive.com
    MaxTokens,        \* bound: tokens that are ever issued
    MaxExpired,       \* bound: expirations
    MaxRejections,    \* bound: invalidations before a further rejection
    Nobody, Nowhere

ASSUME SessionAssumption ==
    /\ DefaultRP \in RelyingParties
    /\ MaxTokens \in Nat \ {0}
    /\ MaxExpired \in Nat
    /\ MaxRejections \in Nat
    /\ Nobody \notin Callers
    /\ Nowhere \notin RelyingParties

Tokens == 1..MaxTokens
NoToken == 0
Kinds == {"title", "user", "xsts"}

VARIABLES
    issued,       \* number of tokens issued so far
    expired,      \* the kinds and tokens whose Valid() is false from now on
    title, user,  \* Session.title, Session.user
    resp,         \* Session.resp: the last authorization
    xsts,         \* Session.xsts
    generation,   \* Session.xstsGenerations
    tokenMu, xstsMu, respMu,    \* who holds the mutex
    go,           \* go[p]: the operation goroutine p is in the middle of
    rejected      \* history: the tokens discarded for each relying party

cacheVars == <<title, user, resp, xsts>>
lockVars  == <<tokenMu, xstsMu, respMu>>
vars == <<issued, expired, cacheVars, generation, lockVars, go, rejected>>

-----------------------------------------------------------------------------

Places == {"idle", "look", "title", "user", "authorize", "exchange", "check",
           "mint", "keep", "answered", "reject", "invalidate", "snapshot"}

\* caller is who called authorize; banned is rejected[rp] when the call began.
Operation == [at : Places,
              rp : RelyingParties \cup {Nowhere},
              caller : {"none", "requestXSTS", "TitleToken", "UserToken"},
              generation : Nat,
              token : 0..MaxTokens,
              banned : SUBSET Tokens]

NoOperation == [at |-> "idle", rp |-> Nowhere, caller |-> "none",
                generation |-> 0, token |-> NoToken, banned |-> {}]

TypeOK ==
    /\ issued \in 0..MaxTokens
    /\ expired \subseteq Kinds \X Tokens
    /\ title \in 0..MaxTokens /\ user \in 0..MaxTokens /\ resp \in 0..MaxTokens
    /\ xsts \in [RelyingParties -> 0..MaxTokens]
    /\ generation \in [RelyingParties -> Nat]
    /\ tokenMu \in Callers \cup {Nobody}
    /\ xstsMu \in Callers \cup {Nobody}
    /\ respMu \in Callers \cup {Nobody}
    /\ go \in [Callers -> Operation]
    /\ rejected \in [RelyingParties -> SUBSET Tokens]

Valid(kind, t) == t # NoToken /\ <<kind, t>> \notin expired
ValidResponse(n) == \A kind \in Kinds : Valid(kind, n)

\* Mutant: no map is made when the Snapshot has none.
InitWithNilMap ==
    /\ \E restored \in {NoToken, 1} :
        /\ issued = restored
        /\ title = restored /\ user = restored
        /\ xsts = [rp \in {} |-> NoToken]
    /\ expired = {}
    /\ resp = NoToken
    /\ generation = [rp \in RelyingParties |-> 0]
    /\ tokenMu = Nobody /\ xstsMu = Nobody /\ respMu = Nobody
    /\ go = [p \in Callers |-> NoOperation]
    /\ rejected = [rp \in RelyingParties |-> {}]

\* Config.New, with no Snapshot or with one that holds what the first
\* authorization of an earlier Session has issued.
Init ==
    /\ \E restored \in {NoToken, 1} :
        /\ issued = restored
        /\ title = restored /\ user = restored
        /\ xsts = [rp \in RelyingParties |->
                      IF rp = DefaultRP THEN restored ELSE NoToken]
    /\ expired = {}
    /\ resp = NoToken
    /\ generation = [rp \in RelyingParties |-> 0]
    /\ tokenMu = Nobody /\ xstsMu = Nobody /\ respMu = Nobody
    /\ go = [p \in Callers |-> NoOperation]
    /\ rejected = [rp \in RelyingParties |-> {}]

Goto(p, place) == go' = [go EXCEPT ![p].at = place]
Answer(p, t) == go' = [go EXCEPT ![p].at = "answered", ![p].token = t]
Leave(p) == go' = [go EXCEPT ![p] = NoOperation]
Issue == issued < MaxTokens /\ issued' = issued + 1

-----------------------------------------------------------------------------
(* xstsToken.                                                              *)

Ask(p, rp) ==
    /\ go[p].at = "idle"
    /\ go' = [go EXCEPT ![p] = [NoOperation EXCEPT
                  !.at = "look", !.rp = rp, !.banned = rejected[rp]]]
    /\ UNCHANGED <<issued, expired, cacheVars, generation, lockVars, rejected>>

\* A valid cached token is returned at once.
LookHits(p) ==
    /\ go[p].at = "look" /\ xstsMu = Nobody
    /\ Valid("xsts", xsts[go[p].rp])
    /\ Answer(p, xsts[go[p].rp])
    /\ UNCHANGED <<issued, expired, cacheVars, generation, lockVars, rejected>>

\* Otherwise the generation is remembered, and requestXSTS authorizes for the
\* default relying party and collects the underlying tokens for another.
LookMisses(p) ==
    /\ go[p].at = "look" /\ xstsMu = Nobody
    /\ ~Valid("xsts", xsts[go[p].rp])
    /\ go' = [go EXCEPT
          ![p].generation = generation[go[p].rp],
          ![p].at = IF go[p].rp = DefaultRP THEN "authorize" ELSE "title",
          ![p].caller = "requestXSTS"]
    /\ UNCHANGED <<issued, expired, cacheVars, generation, lockVars, rejected>>

\* Mutant: the token is cached whatever was invalidated meanwhile.
KeepsUnchecked(p) ==
    /\ go[p].at = "keep" /\ xstsMu = Nobody
    /\ LET t == go[p].token
           cached == xsts[go[p].rp]
       IN  IF Valid("xsts", cached)
           THEN Answer(p, cached) /\ UNCHANGED xsts
           ELSE Answer(p, t) /\ xsts' = [xsts EXCEPT ![go[p].rp] = t]
    /\ UNCHANGED <<issued, expired, title, user, resp, generation, lockVars,
                   rejected>>

\* The new token is stored, unless another goroutine has stored one or the
\* relying party has seen an invalidation since the request began.
Keep(p) ==
    /\ go[p].at = "keep" /\ xstsMu = Nobody
    /\ LET t == go[p].token
           cached == xsts[go[p].rp]
       IN  \/ /\ Valid("xsts", cached)
              /\ Answer(p, cached) /\ UNCHANGED xsts
           \/ /\ ~Valid("xsts", cached)
              /\ generation[go[p].rp] # go[p].generation
              /\ go' = [go EXCEPT ![p].at = "look", ![p].token = NoToken]
              /\ UNCHANGED xsts
           \/ /\ ~Valid("xsts", cached)
              /\ generation[go[p].rp] = go[p].generation
              /\ xsts' = [xsts EXCEPT ![go[p].rp] = t]
              /\ Answer(p, t)
    /\ UNCHANGED <<issued, expired, title, user, resp, generation, lockVars,
                   rejected>>

-----------------------------------------------------------------------------
(* requestXSTS, TitleToken, UserToken and authorize.                       *)

\* A valid title token is reused; otherwise tokenMu is held while the Session
\* authorizes.
TitleToken(p) ==
    /\ go[p].at = "title" /\ tokenMu = Nobody
    /\ \/ Valid("title", title) /\ Goto(p, "user") /\ UNCHANGED tokenMu
       \/ /\ ~Valid("title", title)
          /\ tokenMu' = p
          /\ go' = [go EXCEPT ![p].at = "authorize",
                              ![p].caller = "TitleToken"]
    /\ UNCHANGED <<issued, expired, cacheVars, generation, xstsMu, respMu,
                   rejected>>

UserToken(p) ==
    /\ go[p].at = "user" /\ tokenMu = Nobody
    /\ \/ Valid("user", user) /\ Goto(p, "mint") /\ UNCHANGED tokenMu
       \/ /\ ~Valid("user", user)
          /\ tokenMu' = p
          /\ go' = [go EXCEPT ![p].at = "authorize",
                              ![p].caller = "UserToken"]
    /\ UNCHANGED <<issued, expired, cacheVars, generation, xstsMu, respMu,
                   rejected>>

\* authorize returns the response n to whoever called it.
AuthorizeReturns(p, n) ==
    \/ /\ go[p].caller = "requestXSTS"
       /\ go' = [go EXCEPT ![p].at = "check", ![p].token = n]
       /\ UNCHANGED <<title, user, tokenMu>>
    \/ /\ go[p].caller = "TitleToken"
       /\ title' = n /\ tokenMu' = Nobody
       /\ Goto(p, "user")
       /\ UNCHANGED user
    \/ /\ go[p].caller = "UserToken"
       /\ user' = n /\ tokenMu' = Nobody
       /\ Goto(p, "mint")
       /\ UNCHANGED title

\* A valid response is reused; otherwise respMu is held during the exchange.
Authorize(p) ==
    /\ go[p].at = "authorize" /\ respMu = Nobody
    /\ \/ ValidResponse(resp) /\ AuthorizeReturns(p, resp) /\ UNCHANGED respMu
       \/ /\ ~ValidResponse(resp)
          /\ respMu' = p
          /\ Goto(p, "exchange")
          /\ UNCHANGED <<title, user, tokenMu>>
    /\ UNCHANGED <<issued, expired, resp, xsts, generation, xstsMu, rejected>>

Exchanged(p) ==
    /\ go[p].at = "exchange" /\ Issue
    /\ resp' = issued'
    /\ respMu' = Nobody
    /\ AuthorizeReturns(p, issued')
    /\ UNCHANGED <<expired, xsts, generation, xstsMu, rejected>>

\* The token of the response may have expired meanwhile: requestXSTS then
\* collects the underlying tokens.
CheckDefault(p) ==
    /\ go[p].at = "check"
    /\ \/ Valid("xsts", go[p].token) /\ Goto(p, "keep")
       \/ /\ ~Valid("xsts", go[p].token)
          /\ go' = [go EXCEPT ![p].at = "title", ![p].token = NoToken]
    /\ UNCHANGED <<issued, expired, cacheVars, generation, lockVars, rejected>>

\* xsts.Authorize.
Mint(p) ==
    /\ go[p].at = "mint" /\ Issue
    /\ go' = [go EXCEPT ![p].at = "keep", ![p].token = issued']
    /\ UNCHANGED <<expired, cacheVars, generation, lockVars, rejected>>

\* A request for the device token, an authorization or an XSTS token may fail,
\* and xstsToken refuses a token that has expired when it is checked.
MayFail(p) == \/ go[p].at \in {"title", "exchange", "mint"}
              \/ go[p].at = "keep" /\ ~Valid("xsts", go[p].token)

\* Mutant: tokenMu is not unlocked when authorize fails.
FailsLocked(p) ==
    /\ MayFail(p)
    /\ respMu' = IF respMu = p THEN Nobody ELSE respMu
    /\ Leave(p)
    /\ UNCHANGED <<issued, expired, cacheVars, generation, tokenMu, xstsMu,
                   rejected>>

\* The call fails and its mutexes are unlocked.
Fails(p) ==
    /\ MayFail(p)
    /\ respMu' = IF respMu = p THEN Nobody ELSE respMu
    /\ tokenMu' = IF tokenMu = p THEN Nobody ELSE tokenMu
    /\ Leave(p)
    /\ UNCHANGED <<issued, expired, cacheVars, generation, xstsMu, rejected>>

-----------------------------------------------------------------------------
(* nsal.Transport with the token it got, and the other users of the locks. *)

\* The service accepts the token, or rejects it for another reason.
Accepted(p) ==
    /\ go[p].at = "answered"
    /\ Leave(p)
    /\ UNCHANGED <<issued, expired, cacheVars, generation, lockVars, rejected>>

\* The service says that the token has expired: InvalidateXSTSToken is called.
Rejected(p) ==
    /\ go[p].at = "answered"
    /\ generation[go[p].rp] < MaxRejections
    /\ Goto(p, "reject")
    /\ UNCHANGED <<issued, expired, cacheVars, generation, lockVars, rejected>>

InvalidateLocks(p) ==
    /\ go[p].at = "reject" /\ xstsMu = Nobody
    /\ xstsMu' = p
    /\ Goto(p, "invalidate")
    /\ UNCHANGED <<issued, expired, cacheVars, generation, tokenMu, respMu,
                   rejected>>

\* Mutant: the authorization keeps the rejected token.
InvalidateKeepsResponse(p) ==
    /\ go[p].at = "invalidate" /\ respMu = Nobody
    /\ LET rp == go[p].rp
           t == go[p].token
       IN  /\ generation' = [generation EXCEPT ![rp] = @ + 1]
           /\ xsts' = [xsts EXCEPT ![rp] = IF @ = t THEN NoToken ELSE @]
           /\ rejected' = [rejected EXCEPT ![rp] = @ \cup {t}]
    /\ xstsMu' = Nobody
    /\ Leave(p)
    /\ UNCHANGED <<issued, expired, title, user, resp, tokenMu, respMu>>

\* Both caches drop the token and the generation moves on, while no exchange
\* is in flight.
InvalidateXSTSToken(p) ==
    /\ go[p].at = "invalidate" /\ respMu = Nobody
    /\ LET rp == go[p].rp
           t == go[p].token
       IN  /\ generation' = [generation EXCEPT ![rp] = @ + 1]
           /\ xsts' = [xsts EXCEPT ![rp] = IF @ = t THEN NoToken ELSE @]
           /\ resp' = IF resp = t THEN NoToken ELSE resp
           /\ rejected' = [rejected EXCEPT ![rp] = @ \cup {t}]
    /\ xstsMu' = Nobody
    /\ Leave(p)
    /\ UNCHANGED <<issued, expired, title, user, tokenMu, respMu>>

\* Snapshot holds xstsMu while it waits for tokenMu.
SnapshotLocks(p) ==
    /\ go[p].at = "idle" /\ xstsMu = Nobody
    /\ xstsMu' = p
    /\ Goto(p, "snapshot")
    /\ UNCHANGED <<issued, expired, cacheVars, generation, tokenMu, respMu,
                   rejected>>

Snapshot(p) ==
    /\ go[p].at = "snapshot" /\ tokenMu = Nobody
    /\ xstsMu' = Nobody
    /\ Leave(p)
    /\ UNCHANGED <<issued, expired, cacheVars, generation, tokenMu, respMu,
                   rejected>>

Expire(kind, t) ==
    /\ t <= issued /\ <<kind, t>> \notin expired
    /\ Cardinality(expired) < MaxExpired
    /\ expired' = expired \cup {<<kind, t>>}
    /\ UNCHANGED <<issued, cacheVars, generation, lockVars, go, rejected>>

-----------------------------------------------------------------------------

Progress(p) ==
    \/ LookHits(p) \/ LookMisses(p) \/ Keep(p)
    \/ TitleToken(p) \/ UserToken(p)
    \/ Authorize(p) \/ Exchanged(p) \/ CheckDefault(p) \/ Mint(p) \/ Fails(p)
    \/ Accepted(p) \/ InvalidateLocks(p) \/ InvalidateXSTSToken(p)
    \/ Snapshot(p)

Next ==
    \/ \E p \in Callers :
        \/ \E rp \in RelyingParties : Ask(p, rp)
        \/ Progress(p)
        \/ Rejected(p)
        \/ SnapshotLocks(p)
    \/ \E kind \in Kinds, t \in Tokens : Expire(kind, t)

Spec == Init /\ [][Next]_vars

\* Every goroutine is scheduled, strongly because Go's mutexes do not starve a
\* waiter, and every request ends.  Nobody has to start anything.
Fairness == \A p \in Callers : SF_vars(Progress(p))

FairSpec == Spec /\ Fairness

-----------------------------------------------------------------------------
(* Properties.                                                             *)

\* A token that was invalidated for a relying party is in neither cache, not
\* even when an overlapping acquisition had obtained it before ("an overlapping
\* acquisition cannot restore a rejected token", Session.xstsGenerations).
RejectedStaysOut ==
    /\ \A rp \in RelyingParties : xsts[rp] \notin rejected[rp]
    /\ resp \notin rejected[DefaultRP]

\* Every call of XSTSToken, InvalidateXSTSToken and Snapshot returns: the three
\* mutexes are never waited for in a circle or left locked by a failure.
CallsReturn == \A p \in Callers : go[p].at # "idle" ~> go[p].at = "idle"

\* What the user of the Session sees of the operation o.
Call(o) ==
    [at |-> CASE o.at \in {"idle", "snapshot"} -> "idle"
              [] o.at \in {"answered", "reject", "invalidate"} -> "answered"
              [] OTHER -> "asking",
     rp |-> o.rp,
     token |-> IF o.at \in {"answered", "reject", "invalidate"}
               THEN o.token ELSE NoToken,
     banned |-> o.banned]

\* The Session keeps the promise of nsal.TokenSource: a call that begins after
\* a token was invalidated never returns that token ("The next XSTSToken call
\* must not reuse that token", TokenInvalidator).
Promise == INSTANCE TokenSource WITH calls <- [p \in Callers |-> Call(go[p])]

KeepsPromise == Promise!Spec
=============================================================================
