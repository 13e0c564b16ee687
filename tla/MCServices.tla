------------------------------ MODULE MCServices ------------------------------
(***************************************************************************)
(* Model checking the smaller components.  They share no state, so that a  *)
(* behaviour exercises one of them, the part, and leaves the others in     *)
(* their initial states; their goroutines are the same.                    *)
(***************************************************************************)
EXTENDS XsapiClient, NsalResolver, RtaCalls, AchievementsPaging, ReuseSource,
        ImageUpload

VARIABLE part

parts == <<clientVars, nsalVars, callVars, pagingVars, sourceVars, imageVars,
           part>>

Parts == {"client", "handlers", "resolver", "calls", "paging", "source", "image"}

\* Everybody is done, and the bounds permit no more.
Idles(p) ==
    /\ Idle(p)
    /\ nsalGo[p].at = "idle" /\ callGo[p].at = "idle" /\ sourceGo[p] = "idle"

AllRest ==
    /\ \A p \in Callers : Idles(p)
    /\ paging # "read" /\ upload \in {"idle", "published"}
    /\ UNCHANGED parts

ServicesInit ==
    /\ part \in Parts
    /\ ClientInit
    /\ NsalInit
    /\ CallsInit
    /\ PagingInit
    /\ SourceInit
    /\ ImageInit
    /\ part \notin {"client", "handlers"} => rtaMode = "lazy"
    /\ part # "source" => held = NoTokenHeld /\ ~refreshToken
    /\ part # "resolver" => ~defaultTitle
    /\ part # "image" => unread = 0

\* As the part "client", a client has a presence, but it makes one registration
\* only, loses no subscription before it is closed, and mpsd.Client is not used;
\* as "handlers", it has no presence.
ServicesNext ==
    \/ /\ part \in {"client", "handlers"} /\ ClientNext
       /\ part = "client" =>
             /\ \A p \in Callers :
                    /\ socialGo'[p] \in {"subscribe", "register"} => registered = {}
                    /\ ~SubscribesMpsd(p)'
             /\ lost' = 0
       /\ part = "handlers" => presenceGo' = presenceGo
       /\ UNCHANGED <<nsalVars, callVars, pagingVars, sourceVars, imageVars, part>>
    \/ /\ part = "resolver" /\ NsalNext
       /\ UNCHANGED <<clientVars, callVars, pagingVars, sourceVars, imageVars, part>>
    \/ /\ part = "calls" /\ CallsNext
       /\ UNCHANGED <<clientVars, nsalVars, pagingVars, sourceVars, imageVars, part>>
    \/ /\ part = "paging" /\ PagingNext
       /\ UNCHANGED <<clientVars, nsalVars, callVars, sourceVars, imageVars, part>>
    \/ /\ part = "source" /\ SourceNext
       /\ UNCHANGED <<clientVars, nsalVars, callVars, pagingVars, imageVars, part>>
    \/ /\ part = "image" /\ ImageNext
       /\ UNCHANGED <<clientVars, nsalVars, callVars, pagingVars, sourceVars, part>>
    \/ AllRest

ServicesSpec ==
    /\ ServicesInit /\ [][ServicesNext]_parts
    /\ ClientFairness /\ NsalFairness /\ CallsFairness /\ SourceFairness

-----------------------------------------------------------------------------
(* Title data *)

TitleIDsValue == <<"current", "default">>

\* A URL of a service of the title, of a generic one, and of one for which the
\* application has configured the endpoint.
UrlOf(host) == [scheme |-> "https", host |-> host, port |-> AnyPort, path |-> "/"]

UrlsValue == {UrlOf("service"), UrlOf("generic"), UrlOf("pinned")}

EndpointOf(hostType, hosts, party) ==
    [protocol |-> "https", hostType |-> hostType, hosts |-> hosts, port |-> 443,
     path |-> AnyPath, relyingParty |-> party]

CurrentTitle == <<EndpointOf("wildcard", {"generic", "service"}, "xbl"),
                  EndpointOf("fqdn", {"service"}, "title")>>

\* It knows the service by another relying party.
DefaultTitle == <<EndpointOf("wildcard", {"service"}, "any title"),
                  EndpointOf("wildcard", {"generic"}, "xbl")>>

DataValue == [t \in Titles |-> IF t = "current" THEN CurrentTitle ELSE DefaultTitle]

KnownValue == <<<<EndpointOf("fqdn", {"pinned"}, "own")>>>>

-----------------------------------------------------------------------------
(* Properties *)

\* A method of a client, a Resolve, a call on the RTA connection and a request
\* for a token all return, even if their contexts never end: no
\* wake-up is lost and no mutex is kept.
\* About: ensureRTA and closeRTA waiting for a dial, the mutexes that
\* social.Client and presence.Client hold during their requests, the waiters of
\* Resolver.title, the channels of Conn.call.
CallsReturn == \A p \in Callers : ~Idles(p) ~> Idles(p)
=============================================================================
