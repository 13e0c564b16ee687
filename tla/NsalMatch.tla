------------------------------ MODULE NsalMatch ------------------------------
(***************************************************************************)
(* Which endpoint of a title applies to a URL (TitleData.Match).  A title  *)
(* is a sequence of endpoints, in the order in which the service lists     *)
(* them.  The Host of an endpoint is the set of the host names that it     *)
(* covers: one for an FQDN, those with its suffix for a wildcard, those in *)
(* its prefix for a CIDR, none for a pattern that is not well-formed.  The *)
(* signature policy goes with the endpoint and is left out.                *)
(***************************************************************************)
EXTENDS Naturals, SequencesExt

HostTypes == {"fqdn", "wildcard", "cidr"}

\* What an endpoint leaves open.
AnyPort == 0
AnyPath == "any"
NoPort == 65536         \* the empty string, which is the port of no endpoint
NoParty == "none"       \* an empty relying party

NoEndpoint == [hostType |-> "none", relyingParty |-> NoParty]

effectivePort(u) ==
    CASE u.port # AnyPort -> u.port
      [] u.port = AnyPort /\ u.scheme = "https" -> 443
      [] u.port = AnyPort /\ u.scheme = "http" -> 80
      [] OTHER -> NoPort

EndpointMatches(e, u) ==
    /\ e.relyingParty # NoParty
    /\ e.protocol = u.scheme
    /\ e.hostType \in HostTypes
    /\ u.host \in e.hosts
    /\ e.port \in {AnyPort, effectivePort(u)}
    /\ e.path \in {AnyPath, u.path}

\* TitleData.Match: an FQDN that matches ends the loop.
TitleMatch(title, u) ==
    FoldLeft(LAMBDA best, e :
                 IF best.hostType # "fqdn" /\ EndpointMatches(e, u) THEN e ELSE best,
             NoEndpoint, title)

-----------------------------------------------------------------------------

\* What the loop of Match amounts to: the first endpoint that names the host
\* itself, also when a pattern that matches is listed after it, and without one
\* the last pattern that matches.
FirstFqdnElseLast(title, u) ==
    LET Matching == {i \in DOMAIN title : EndpointMatches(title[i], u)}
        Exact == {i \in Matching : title[i].hostType = "fqdn"}
    IN  CASE Exact # {} -> title[Min(Exact)]
          [] Exact = {} /\ Matching # {} -> title[Max(Matching)]
          [] OTHER -> NoEndpoint
=============================================================================
