----------------------------- MODULE NsalResolver -----------------------------
(***************************************************************************)
(* nsal.Resolver: the title data that says which relying party a request   *)
(* must be authorized for is loaded when it is first needed, by one        *)
(* goroutine for all that ask.  A load that fails is remembered for 15     *)
(* seconds; one that ends because its context ended, or because it timed   *)
(* out, is not, and those who waited for it begin anew.                    *)
(*                                                                         *)
(* Resolve asks the title sources in the order of their precedence and     *)
(* goes on to the next when one cannot be loaded.  nsal.Transport takes    *)
(* the endpoint to nsal.TokenSource, which SisuSession models.             *)
(***************************************************************************)
EXTENDS NsalMatch, Goroutines

CONSTANTS
    Titles,         \* title data sources
    DefaultID,      \* "default": the generic services, for all titles
    TitleIDs,       \* ResolverConfig.TitleIDs
    Known,          \* ResolverConfig.Titles: title data that need no loading
    Data,           \* Data[t]: the endpoints that the service lists for t
    XBL,            \* the relying party of the generic services
    Urls,           \* the URLs that are requested
    NoUrl,
    MaxCanceled     \* bound: loads that are canceled

\* "Generic Xbox Live endpoints are preconfigured for all titles".
ASSUME ResolverAssumption ==
    /\ TitleIDs \in Seq(Titles)
    /\ Known \in Seq(Range(Known))
    /\ NoUrl \notin Urls
    /\ XBL # NoParty
    /\ MaxCanceled \in Nat
    /\ \A u \in Urls : \A s, t \in Titles :
           TitleMatch(Data[s], u).relyingParty = XBL =>
               TitleMatch(Data[t], u).relyingParty = XBL

VARIABLES
    cached,             \* Resolver.cached: the titles that are loaded
    failed,             \* Resolver.failed, without what is older than 15 seconds
    loading,            \* Resolver.loading: who loads a title
    nsalGo,             \* nsalGo[p]: the call of Resolve goroutine p makes
    canceled,           \* number of loads that were canceled
    defaultTitle        \* is the data of DefaultID cached, for all Resolvers?

nsalVars == <<cached, failed, loading, nsalGo, canceled, defaultTitle>>

-----------------------------------------------------------------------------

\* How a load ends.  A context that has ended and the timeout of the HTTP
\* client both count as a cancellation (titleLoadCanceled).
Outcomes == {"loaded", "failed", "canceled"}

\* At "heard" the load the goroutine waited for has ended, at "return" its own.
NsalPlaces == {"idle", "look", "wait", "heard", "load", "return", "resolved"}

\* The relying parties that a match can have.
Parties ==
    {NoParty} \cup
        {TitleMatch(title, u).relyingParty :
            title \in {Known[i] : i \in DOMAIN Known} \cup {Data[t] : t \in Titles},
            u \in Urls}

\* An error is its kind and the goroutine whose load or context it comes from.
ResolveCall ==
    [at : NsalPlaces,
     url : Urls \cup {NoUrl},
     next : Nat \ {0},                      \* the position in TitleIDs
     outcome : Outcomes,
     loader : Callers \cup {Nobody},
     errs : SUBSET (Outcomes \X Callers),
     done : BOOLEAN,                        \* the context has ended
     party : Parties]                       \* the relying party that was found

NoResolveCall ==
    [at |-> "idle", url |-> NoUrl, next |-> 1, outcome |-> "loaded",
     loader |-> Nobody, errs |-> {}, done |-> FALSE, party |-> NoParty]

NsalTypeOK ==
    /\ cached \subseteq Titles
    /\ failed \subseteq Titles
    /\ loading \in [Titles -> Callers \cup {Nobody}]
    /\ nsalGo \in [Callers -> ResolveCall]
    /\ canceled \in 0..MaxCanceled
    /\ defaultTitle \in BOOLEAN

NsalInit ==
    /\ cached = {}
    /\ failed = {}
    /\ loading = [t \in Titles |-> Nobody]
    /\ nsalGo = [p \in Callers |-> NoResolveCall]
    /\ canceled = 0
    /\ defaultTitle \in BOOLEAN     \* the process may have used it before

Asked(p) == TitleIDs[nsalGo[p].next]    \* the title of this round of the loop

\* A call at the next round of title's loop, and of Resolve's.
Looks(call) == [call EXCEPT !.at = "look", !.outcome = "loaded", !.loader = Nobody]

GoesOn(call, errs) ==
    [call EXCEPT !.at = "look", !.outcome = "loaded", !.loader = Nobody,
                 !.next = call.next + 1, !.errs = errs]

NsalGoto(p, place) == nsalGo' = [nsalGo EXCEPT ![p].at = place]

ResolveEnds(p) == nsalGo' = [nsalGo EXCEPT ![p] = NoResolveCall]

-----------------------------------------------------------------------------
(* Resolve *)

Matches(title, u) == TitleMatch(title, u) # NoEndpoint

\* The first of the titles that has an endpoint for the URL.
IsFirstMatch(titles, i, u) ==
    /\ i \in DOMAIN titles
    /\ Matches(titles[i], u)
    /\ \A j \in DOMAIN titles : j < i => ~Matches(titles[j], u)

Resolve(p, u) ==
    /\ nsalGo[p].at = "idle"
    /\ \/ \E i \in DOMAIN Known :
              /\ IsFirstMatch(Known, i, u)
              /\ nsalGo' = [nsalGo EXCEPT ![p] =
                     [NoResolveCall EXCEPT !.at = "resolved", !.url = u,
                          !.party = TitleMatch(Known[i], u).relyingParty]]
       \/ /\ \A i \in DOMAIN Known : ~Matches(Known[i], u)
          /\ nsalGo' = [nsalGo EXCEPT ![p] =
                 [NoResolveCall EXCEPT !.at = "look", !.url = u]]
    /\ UNCHANGED <<cached, failed, loading, canceled, defaultTitle>>

\* Mutant: a match is trusted although a title before it could not be loaded.
TakesTitleTrusting(p) ==
    LET call == nsalGo[p]
        e == TitleMatch(Data[Asked(p)], call.url)
    IN  nsalGo' = [nsalGo EXCEPT ![p] =
            IF e = NoEndpoint
              THEN GoesOn(call, call.errs)
              ELSE [call EXCEPT !.at = "resolved", !.party = e.relyingParty]]

\* title has returned data.  Only a generic endpoint is trusted when a title
\* that has precedence could not be loaded.
TakesTitle(p) ==
    LET call == nsalGo[p]
        e == TitleMatch(Data[Asked(p)], call.url)
        trusted == call.errs = {} \/ e.relyingParty = XBL
    IN  nsalGo' = [nsalGo EXCEPT ![p] =
            IF e = NoEndpoint THEN GoesOn(call, call.errs)
            ELSE IF trusted   THEN [call EXCEPT !.at = "resolved",
                                                !.party = e.relyingParty]
            ELSE NoResolveCall]

\* title has returned an error.
SkipsTitle(p, err) ==
    nsalGo' = [nsalGo EXCEPT ![p] = GoesOn(nsalGo[p], nsalGo[p].errs \cup {err})]

NoEndpointFound(p) ==
    /\ nsalGo[p].at = "look"
    /\ nsalGo[p].next > Len(TitleIDs)
    /\ ResolveEnds(p)
    /\ UNCHANGED <<cached, failed, loading, canceled, defaultTitle>>

\* The token for the relying party, the signature and the request.
Authorize(p) ==
    /\ nsalGo[p].at = "resolved"
    /\ ResolveEnds(p)
    /\ UNCHANGED <<cached, failed, loading, canceled, defaultTitle>>

-----------------------------------------------------------------------------
(* title *)

\* The section under mu.
LookUp(p) ==
    /\ nsalGo[p].at = "look"
    /\ nsalGo[p].next <= Len(TitleIDs)
    /\ LET t == Asked(p)
       IN  \/ /\ t \in cached
              /\ TakesTitle(p)
              /\ UNCHANGED loading
           \/ /\ t \in failed \ cached
              /\ SkipsTitle(p, <<"failed", p>>)
              /\ UNCHANGED loading
           \/ /\ t \notin cached \cup failed
              /\ loading[t] # Nobody
              /\ NsalGoto(p, "wait")
              /\ UNCHANGED loading
           \/ /\ t \notin cached \cup failed
              /\ loading[t] = Nobody
              /\ loading' = [loading EXCEPT ![t] = p]
              /\ NsalGoto(p, "load")
    /\ UNCHANGED <<cached, failed, canceled, defaultTitle>>

\* Its context ends while a goroutine waits for another one.
WaitIsCanceled(p) ==
    /\ nsalGo[p].at = "wait" \/ nsalGo[p].at = "heard"
    /\ nsalGo[p].done
    /\ SkipsTitle(p, <<"canceled", p>>)
    /\ UNCHANGED <<cached, failed, loading, canceled, defaultTitle>>

\* Mutant: a goroutine that waited reports how the load ended, whatever it was.
HeardOthersEnd(p) ==
    /\ nsalGo[p].at = "heard"
    /\ \/ nsalGo[p].outcome = "loaded" /\ TakesTitle(p)
       \/ /\ nsalGo[p].outcome # "loaded"
          /\ SkipsTitle(p, <<nsalGo[p].outcome, nsalGo[p].loader>>)
    /\ UNCHANGED <<cached, failed, loading, canceled, defaultTitle>>

\* Mutant: whoever was told of a cancellation loads the title at once.
HeardLoadsItself(p) ==
    /\ nsalGo[p].at = "heard"
    /\ \/ nsalGo[p].outcome = "loaded" /\ TakesTitle(p)
       \/ /\ nsalGo[p].outcome = "failed"
          /\ SkipsTitle(p, <<"failed", nsalGo[p].loader>>)
       \/ nsalGo[p].outcome = "canceled" /\ ~nsalGo[p].done /\ NsalGoto(p, "load")
    /\ UNCHANGED <<cached, failed, loading, canceled, defaultTitle>>

\* The load it waited for has ended; a cancellation concerned only whoever
\* loaded, and the title is looked up again.
Heard(p) ==
    /\ nsalGo[p].at = "heard"
    /\ \/ nsalGo[p].outcome = "loaded" /\ TakesTitle(p)
       \/ /\ nsalGo[p].outcome = "failed"
          /\ SkipsTitle(p, <<"failed", nsalGo[p].loader>>)
       \/ /\ nsalGo[p].outcome = "canceled" /\ ~nsalGo[p].done
          /\ nsalGo' = [nsalGo EXCEPT ![p] = Looks(nsalGo[p])]
    /\ UNCHANGED <<cached, failed, loading, canceled, defaultTitle>>

\* close(req.done): the calls of those who wait for t.
Told(t, outcome) ==
    [q \in Callers |->
        IF nsalGo[q].at = "wait" /\ Asked(q) = t
          THEN [nsalGo[q] EXCEPT !.at = "heard", !.outcome = outcome,
                                 !.loader = loading[t]]
          ELSE nsalGo[q]]

\* Default: what anybody in the process has loaded is kept for ever, and from
\* then on neither the service nor the context can make it fail.
Default(outcome) ==
    /\ defaultTitle => outcome = "loaded"
    /\ defaultTitle' = (outcome = "loaded")

\* Title: every call is a request (the token for it cannot be had, the request
\* fails, its answer cannot be decoded).
Title(outcome) == outcome \in Outcomes /\ UNCHANGED defaultTitle

\* loadTitle and the section under mu that follows.
LoadEnds(p, outcome) ==
    /\ nsalGo[p].at = "load"
    /\ IF Asked(p) = DefaultID THEN Default(outcome) ELSE Title(outcome)
    /\ \/ outcome # "canceled" /\ UNCHANGED canceled
       \/ outcome = "canceled" /\ canceled < MaxCanceled /\ canceled' = canceled + 1
    /\ LET t == Asked(p)
       IN  /\ cached' = IF outcome = "loaded" THEN cached \cup {t} ELSE cached
           /\ failed' = CASE outcome = "loaded"   -> failed \ {t}
                          [] outcome = "failed"   -> failed \cup {t}
                          [] outcome = "canceled" -> failed
           /\ loading' = [loading EXCEPT ![t] = Nobody]
           /\ nsalGo' = [Told(t, outcome) EXCEPT ![p].at = "return",
                                                 ![p].outcome = outcome]

Return(p) ==
    /\ nsalGo[p].at = "return"
    /\ \/ nsalGo[p].outcome = "loaded" /\ TakesTitle(p)
       \/ /\ nsalGo[p].outcome # "loaded"
          /\ SkipsTitle(p, <<nsalGo[p].outcome, p>>)
    /\ UNCHANGED <<cached, failed, loading, canceled, defaultTitle>>

-----------------------------------------------------------------------------

\* titleLoadFailureCacheDuration has passed.
FailureExpires(t) ==
    /\ t \in failed
    /\ failed' = failed \ {t}
    /\ UNCHANGED <<cached, loading, nsalGo, canceled, defaultTitle>>

\* Another Resolver, or the authorization of a sisu.Session, calls Default.
OthersLoadDefault ==
    /\ ~defaultTitle
    /\ defaultTitle' = TRUE
    /\ UNCHANGED <<cached, failed, loading, nsalGo, canceled>>

\* Only a goroutine that waits looks at its context.
ResolveContextEnds(p) ==
    /\ nsalGo[p].at = "wait" \/ nsalGo[p].at = "heard"
    /\ ~nsalGo[p].done
    /\ nsalGo' = [nsalGo EXCEPT ![p].done = TRUE]
    /\ UNCHANGED <<cached, failed, loading, canceled, defaultTitle>>

ResolveStep(p) ==
    \/ NoEndpointFound(p) \/ Authorize(p) \/ LookUp(p) \/ WaitIsCanceled(p)
    \/ Heard(p) \/ Return(p)
    \/ \E outcome \in Outcomes : LoadEnds(p, outcome)

NsalNext ==
    \/ \E p \in Callers :
        \/ \E u \in Urls : Resolve(p, u)
        \/ ResolveStep(p) \/ ResolveContextEnds(p)
    \/ \E t \in Titles : FailureExpires(t)
    \/ OthersLoadDefault

NsalSpec == NsalInit /\ [][NsalNext]_nsalVars

\* Every goroutine is scheduled and every request ends.
NsalFairness == \A p \in Callers : WF_nsalVars(ResolveStep(p))

-----------------------------------------------------------------------------

\* A title is loaded by one goroutine at a time, and neither when its data is
\* known nor within 15 seconds of a failure, however many ask for it.
\* About: Resolver.title, with waiters that begin anew after a cancellation.
SingleFlight ==
    \A p \in Callers :
        nsalGo[p].at = "load" =>
            /\ Asked(p) \notin cached \cup failed
            /\ \A q \in Callers :
                   nsalGo[q].at = "load" /\ Asked(q) = Asked(p) => q = p

\* An endpoint that Resolve returns has the relying party that the request
\* would have been given with every title loaded: a load that fails makes
\* Resolve fail, but never sends a token to the wrong party.
\* About: Resolve ("a lower-precedence title-service match may carry the wrong
\* relying party").
RightRelyingParty ==
    \A p \in Callers :
        nsalGo[p].at = "resolved" =>
            LET u == nsalGo[p].url
                sources == Known \o [i \in DOMAIN TitleIDs |-> Data[TitleIDs[i]]]
            IN  \E i \in DOMAIN sources :
                    /\ IsFirstMatch(sources, i, u)
                    /\ TitleMatch(sources[i], u).relyingParty = nsalGo[p].party

\* "Context cancellation from the caller that started the load does not poison
\* other callers": a goroutine never fails because another one was canceled.
\* About: Resolver.title, the shared titleRequest.
CancellationStaysPrivate ==
    \A p \in Callers : \A q \in Callers \ {p} :
        <<"canceled", q>> \notin nsalGo[p].errs
=============================================================================
