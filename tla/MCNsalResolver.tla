--------------------------- MODULE MCNsalResolver ---------------------------
(* NsalResolver with one title, which lists an exact host name first.      *)
EXTENDS NsalResolver

TitleIDsValue == <<"current">>

Service == [scheme |-> "https", host |-> "service", port |-> AnyPort, path |-> "/"]

EndpointOf(hostType, hosts, party) ==
    [protocol |-> "https", hostType |-> hostType, hosts |-> hosts, port |-> 443,
     path |-> AnyPath, relyingParty |-> party]

DataValue ==
    [t \in Titles |-> <<EndpointOf("fqdn", {"service"}, "title"),
                        EndpointOf("wildcard", {"service", "generic"}, "xbl")>>]

KnownValue == <<>>
UrlsValue == {Service}

-----------------------------------------------------------------------------

\* "An Endpoint with HostTypeFQDN effectively takes precedence over one with
\* HostTypeWildcard only if it appears after the wildcard Endpoint in the list":
\* the relying party of a request is not that of an FQDN which precedes a
\* wildcard that matches, too.
\* About: the doc of TitleData.Match, and Resolve, which uses it.
FqdnWinsOnlyAfterWildcards ==
    \A p \in Callers :
        nsalGo[p].at = "resolved" =>
            LET title == Data[Asked(p)]
                Matching == {i \in DOMAIN title : EndpointMatches(title[i], nsalGo[p].url)}
            IN  \A i, j \in Matching :
                    /\ title[i].hostType = "fqdn"
                    /\ title[j].hostType = "wildcard"
                    /\ nsalGo[p].party = title[i].relyingParty
                    => j < i
=============================================================================
