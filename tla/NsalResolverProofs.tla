-------------------------- MODULE NsalResolverProofs --------------------------
(***************************************************************************)
(* Proofs about nsal.Resolver, for any goroutines, titles and endpoints.   *)
(* Whoever loads a title is the one that Resolver.loading names (Loaders), *)
(* so that two goroutines never load the same title.  And a call that has  *)
(* had no error has seen every title before its position (SearchOK), while *)
(* one that has is only content with the generic services, of which all    *)
(* titles say the same (ResolverAssumption).                               *)
(***************************************************************************)
EXTENDS NsalResolver, TLAPS

Sources == Known \o [i \in DOMAIN TitleIDs |-> Data[TitleIDs[i]]]

\* Party is what the first of all titles says of the URL u.
Right(u, party) ==
    \E i \in DOMAIN Sources :
        /\ IsFirstMatch(Sources, i, u)
        /\ TitleMatch(Sources[i], u).relyingParty = party

InRound == {"wait", "heard", "load", "return"}

Searching == InRound \cup {"look"}

\* What a call that is still looking knows of the titles behind it.
SearchOK(call) ==
    /\ call.url \in Urls
    /\ \A i \in DOMAIN Known : ~Matches(Known[i], call.url)
    /\ call.errs = {} => \A j \in DOMAIN TitleIDs :
                             j < call.next => ~Matches(Data[TitleIDs[j]], call.url)

CallOK(p, call) ==
    /\ call \in ResolveCall
    /\ call.at \in Searching => SearchOK(call)
    /\ call.at \in InRound => call.next <= Len(TitleIDs)
    /\ call.at = "heard" => call.loader \in Callers
    /\ call.at = "resolved" => Right(call.url, call.party)
    /\ \A q \in Callers \ {p} : <<"canceled", q>> \notin call.errs

\* A goroutine that loads a title is the one that is listed for it.
Loaders ==
    \A p \in Callers :
        nsalGo[p].at = "load" => /\ loading[Asked(p)] = p
                                 /\ Asked(p) \notin cached \cup failed

NsalInv ==
    /\ NsalTypeOK
    /\ \A p \in Callers : CallOK(p, nsalGo[p])
    /\ Loaders

-----------------------------------------------------------------------------

\* What a concatenation holds.
LEMMA Concatenation ==
    ASSUME NEW T, NEW s \in Seq(T), NEW t \in Seq(T)
    PROVE  /\ Len(s \o t) = Len(s) + Len(t)
           /\ DOMAIN (s \o t) = 1..Len(s \o t)
           /\ \A i \in 1..Len(s \o t) :
                  (s \o t)[i] = IF i <= Len(s) THEN s[i] ELSE t[i - Len(s)]
PROOF
  OBVIOUS

\* The sources are those that are known, and then the titles in their order.
LEMMA SourcesAreListed ==
    /\ DOMAIN Sources = 1..(Len(Known) + Len(TitleIDs))
    /\ \A i \in DOMAIN Known : i \in DOMAIN Sources /\ Sources[i] = Known[i]
    /\ \A j \in DOMAIN TitleIDs :
           /\ Len(Known) + j \in DOMAIN Sources
           /\ Sources[Len(Known) + j] = Data[TitleIDs[j]]
PROOF
<1> DEFINE S == {Data[t] : t \in Titles}
           K == Range(Known)
           data == [i \in DOMAIN TitleIDs |-> Data[TitleIDs[i]]]
<1>1. TitleIDs \in Seq(Titles) /\ Known \in Seq(K)
  BY ResolverAssumption
<1>2. data \in Seq(S) /\ Len(data) = Len(TitleIDs)
  BY <1>1
<1>3. Known \in Seq(K \cup S) /\ data \in Seq(K \cup S)
  BY <1>1, <1>2
<1> HIDE DEF K, S
<1>4. Sources = Known \o data
  BY DEF Sources
<1>5. DOMAIN Known = 1..Len(Known) /\ DOMAIN TitleIDs = 1..Len(TitleIDs)
      /\ Len(Known) \in Nat /\ Len(TitleIDs) \in Nat
  BY <1>1
<1>6. \A j \in DOMAIN TitleIDs : data[j] = Data[TitleIDs[j]]
  OBVIOUS
<1> HIDE DEF data
<1>7. /\ Len(Sources) = Len(Known) + Len(TitleIDs)
      /\ DOMAIN Sources = 1..Len(Sources)
      /\ \A i \in 1..Len(Sources) :
             Sources[i] = IF i <= Len(Known) THEN Known[i] ELSE data[i - Len(Known)]
  <2> DEFINE T == K \cup S
  <2>1. Known \in Seq(T) /\ data \in Seq(T)
    BY <1>3
  <2> HIDE DEF T
  <2>2. /\ Len(Known \o data) = Len(Known) + Len(data)
        /\ DOMAIN (Known \o data) = 1..Len(Known \o data)
        /\ \A i \in 1..Len(Known \o data) :
               (Known \o data)[i] = IF i <= Len(Known) THEN Known[i]
                                                      ELSE data[i - Len(Known)]
    BY <2>1, Concatenation
  <2> QED
    BY <2>2, <1>2, <1>4
<1> QED
  BY <1>5, <1>6, <1>7

\* Where the answer of an error-free search lies, and that of a generic one.
LEMMA TakesRightParty ==
    ASSUME NEW call \in ResolveCall, SearchOK(call), call.next <= Len(TitleIDs),
           TitleMatch(Data[TitleIDs[call.next]], call.url) # NoEndpoint,
           \/ call.errs = {}
           \/ TitleMatch(Data[TitleIDs[call.next]], call.url).relyingParty = XBL
    PROVE  Right(call.url, TitleMatch(Data[TitleIDs[call.next]], call.url).relyingParty)
PROOF
<1> DEFINE u == call.url
           n == call.next
           party == TitleMatch(Data[TitleIDs[n]], u).relyingParty
<1>1. /\ TitleIDs \in Seq(Titles)
      /\ DOMAIN Known = 1..Len(Known) /\ Len(Known) \in Nat
  BY ResolverAssumption
<1>2. n \in Nat \ {0} /\ n \in DOMAIN TitleIDs /\ 1 \in DOMAIN TitleIDs
  BY <1>1 DEF ResolveCall
<1>3. DOMAIN TitleIDs = 1..Len(TitleIDs) /\ Len(TitleIDs) \in Nat
  BY <1>1
<1>4. \A j \in DOMAIN Sources : j \in Nat /\ (j <= Len(Known) => ~Matches(Sources[j], u))
  BY <1>1, <1>3, SourcesAreListed DEF SearchOK
<1>5. CASE call.errs = {}
  <2>1. \A j \in DOMAIN Sources : j < Len(Known) + n => ~Matches(Sources[j], u)
    <3>1. TAKE j \in DOMAIN Sources
    <3>2. HAVE j < Len(Known) + n
    <3>3. CASE j <= Len(Known)
      BY <3>3, <1>4
    <3>4. CASE j > Len(Known)
      <4>1. j - Len(Known) \in DOMAIN TitleIDs /\ j - Len(Known) < n
        BY <1>1, <1>2, <1>3, <1>4, <3>2, <3>4
      <4>2. Sources[Len(Known) + (j - Len(Known))] = Data[TitleIDs[j - Len(Known)]]
        BY <4>1, SourcesAreListed
      <4>3. Sources[j] = Data[TitleIDs[j - Len(Known)]]
        BY <4>2, <1>1, <1>4
      <4> QED
        BY <4>1, <4>3, <1>5 DEF SearchOK
    <3> QED
      BY <3>3, <3>4, <1>1, <1>4
  <2>2. /\ Len(Known) + n \in DOMAIN Sources
        /\ Sources[Len(Known) + n] = Data[TitleIDs[n]]
    BY <1>2, SourcesAreListed
  <2> QED
    BY <2>1, <2>2 DEF Right, IsFirstMatch, Matches
<1>6. CASE party = XBL
  <2>1. TitleIDs[1] \in Titles /\ TitleIDs[n] \in Titles
    BY <1>1, <1>2
  <2>2. TitleMatch(Data[TitleIDs[1]], u).relyingParty = XBL
    BY <2>1, <1>6, ResolverAssumption DEF SearchOK
  <2>3. Matches(Data[TitleIDs[1]], u)
    BY <2>2, ResolverAssumption DEF Matches, NoEndpoint
  <2>4. /\ Len(Known) + 1 \in DOMAIN Sources
        /\ Sources[Len(Known) + 1] = Data[TitleIDs[1]]
    BY <1>2, SourcesAreListed
  <2>5. \A j \in DOMAIN Sources : j < Len(Known) + 1 => ~Matches(Sources[j], u)
    BY <1>1, <1>4
  <2> QED
    BY <2>2, <2>3, <2>4, <2>5, <1>6 DEF Right, IsFirstMatch
<1> QED
  BY <1>5, <1>6

-----------------------------------------------------------------------------

LEMMA NsalInitInv == NsalInit => NsalInv
PROOF
<1> SUFFICES ASSUME NsalInit PROVE NsalInv
  OBVIOUS
<1>1. NoResolveCall \in ResolveCall
  BY DEF NoResolveCall, ResolveCall, NsalPlaces, Outcomes, Parties
<1>2. \A p \in Callers : CallOK(p, NoResolveCall)
  BY <1>1 DEF CallOK, NoResolveCall, Searching, InRound
<1>3. NsalTypeOK
  BY <1>1, ResolverAssumption DEF NsalInit, NsalTypeOK
<1> QED
  BY <1>2, <1>3 DEF NsalInv, NsalInit, Loaders, NoResolveCall

\* A goroutine that does not load makes a step that begins no load.
Moves(p) ==
    \E call : /\ CallOK(p, call) /\ call.at # "load"
              /\ nsalGo' = [nsalGo EXCEPT ![p] = call]

LEMMA MoveKeeps ==
    ASSUME NsalInv, NEW p \in Callers, nsalGo[p].at # "load", Moves(p),
           UNCHANGED <<cached, failed, loading, canceled, defaultTitle>>
    PROVE  NsalInv'
PROOF
<1> USE DEF NsalInv
<1>1. PICK call : /\ CallOK(p, call) /\ call.at # "load"
                  /\ nsalGo' = [nsalGo EXCEPT ![p] = call]
  BY DEF Moves
<1>2. call \in ResolveCall
  BY <1>1 DEF CallOK
<1>3. nsalGo'[p] = call /\ \A q \in Callers \ {p} : nsalGo'[q] = nsalGo[q]
  BY <1>1 DEF NsalTypeOK
<1>4. NsalTypeOK'
  BY <1>1, <1>2 DEF NsalTypeOK
<1>5. \A q \in Callers : CallOK(q, nsalGo'[q])
  BY <1>1, <1>3
<1>6. \A q \in Callers : nsalGo'[q].at = "load" => q # p /\ nsalGo'[q] = nsalGo[q]
  BY <1>1, <1>3
<1>7. Loaders'
  <2>1. \A q \in Callers : nsalGo'[q].at = "load" =>
            /\ loading[TitleIDs[nsalGo'[q].next]] = q
            /\ TitleIDs[nsalGo'[q].next] \notin cached \cup failed
    BY <1>6 DEF Loaders, Asked
  <2> QED
    BY <2>1 DEF Loaders, Asked
<1> QED
  BY <1>4, <1>5, <1>7

\* A call that returns is as good as new.
LEMMA IdleIsOK == \A p \in Callers : CallOK(p, NoResolveCall)
PROOF
<1>1. NoResolveCall \in ResolveCall
  BY DEF NoResolveCall, ResolveCall, NsalPlaces, Outcomes, Parties
<1> QED
  BY <1>1 DEF CallOK, NoResolveCall, Searching, InRound

\* A call goes on to the next title when the one it is at has no endpoint for
\* it, or could not be loaded.
LEMMA NextTitleIsOK ==
    ASSUME NEW p \in Callers, NEW call, CallOK(p, call),
           call.at \in Searching, call.next <= Len(TitleIDs),
           NEW errs \in SUBSET (Outcomes \X Callers), call.errs \subseteq errs,
           errs = {} => ~Matches(Data[TitleIDs[call.next]], call.url),
           \A q \in Callers \ {p} : <<"canceled", q>> \notin errs
    PROVE  CallOK(p, GoesOn(call, errs)) /\ GoesOn(call, errs).at = "look"
PROOF
<1> DEFINE new == GoesOn(call, errs)
<1>1. call \in ResolveCall /\ SearchOK(call)
  BY DEF CallOK
<1>2. call.next \in Nat /\ call.next + 1 \in Nat \ {0}
  BY <1>1 DEF ResolveCall
<1>3. new \in ResolveCall
  BY <1>1, <1>2 DEF GoesOn, ResolveCall, NsalPlaces, Outcomes
<1>4. /\ new.at = "look" /\ new.url = call.url /\ new.errs = errs
      /\ new.next = call.next + 1
  BY <1>1 DEF GoesOn, ResolveCall
<1>5. errs = {} => call.errs = {}
  OBVIOUS
<1>6. \A j \in DOMAIN TitleIDs : j < call.next + 1 => j < call.next \/ j = call.next
  BY <1>2, ResolverAssumption
<1>7. SearchOK(new)
  BY <1>1, <1>4, <1>5, <1>6 DEF SearchOK
<1> HIDE DEF new
<1>8. CallOK(p, new)
  BY <1>3, <1>4, <1>7 DEF CallOK, InRound
<1> QED
  BY <1>4, <1>8 DEF new

\* The relying party that the title at a call's position says.
LEMMA PartyOfMatch ==
    ASSUME NEW call \in ResolveCall, call.next <= Len(TitleIDs), call.url \in Urls
    PROVE  TitleMatch(Data[TitleIDs[call.next]], call.url).relyingParty \in Parties
PROOF
<1> DEFINE T == {Known[i] : i \in DOMAIN Known} \cup {Data[t] : t \in Titles}
           d == Data[TitleIDs[call.next]]
           P(S) == {TitleMatch(title, u).relyingParty : title \in S, u \in Urls}
<1>1. TitleIDs[call.next] \in Titles
  BY ResolverAssumption DEF ResolveCall
<1>2. d \in T
  BY <1>1
<1> HIDE DEF T, d
<1>3. TitleMatch(d, call.url).relyingParty \in P(T)
  BY <1>2
<1>4. P(T) \subseteq Parties
  BY DEF T, Parties
<1> QED
  BY <1>3, <1>4 DEF d

LEMMA TakesTitleMoves ==
    ASSUME NsalInv, NEW p \in Callers, nsalGo[p].at \in Searching,
           nsalGo[p].next <= Len(TitleIDs), TakesTitle(p)
    PROVE  Moves(p)
PROOF
<1> DEFINE call == nsalGo[p]
           e == TitleMatch(Data[Asked(p)], call.url)
           found == [call EXCEPT !.at = "resolved", !.party = e.relyingParty]
<1>1. CallOK(p, call) /\ call \in ResolveCall /\ SearchOK(call)
  BY DEF NsalInv, CallOK
<1>2. \/ /\ e = NoEndpoint
         /\ nsalGo' = [nsalGo EXCEPT ![p] = GoesOn(call, call.errs)]
      \/ /\ e # NoEndpoint /\ (call.errs = {} \/ e.relyingParty = XBL)
         /\ nsalGo' = [nsalGo EXCEPT ![p] = found]
      \/ nsalGo' = [nsalGo EXCEPT ![p] = NoResolveCall]
  BY DEF TakesTitle
<1>3. CASE /\ e = NoEndpoint
           /\ nsalGo' = [nsalGo EXCEPT ![p] = GoesOn(call, call.errs)]
  <2>1. ~Matches(Data[TitleIDs[call.next]], call.url)
    BY <1>3 DEF Matches, Asked
  <2>2. call.errs \in SUBSET (Outcomes \X Callers)
        /\ \A q \in Callers \ {p} : <<"canceled", q>> \notin call.errs
    BY <1>1 DEF CallOK, ResolveCall
  <2>3. CallOK(p, GoesOn(call, call.errs)) /\ GoesOn(call, call.errs).at = "look"
    BY <1>1, <2>1, <2>2, NextTitleIsOK
  <2> QED
    BY <1>3, <2>3 DEF Moves
<1>4. CASE /\ e # NoEndpoint /\ (call.errs = {} \/ e.relyingParty = XBL)
           /\ nsalGo' = [nsalGo EXCEPT ![p] = found]
  <2>1. Right(call.url, e.relyingParty)
    BY <1>1, <1>4, TakesRightParty DEF Asked
  <2>2. e.relyingParty \in Parties
    BY <1>1, PartyOfMatch DEF Asked, SearchOK
  <2>3. found \in ResolveCall
    BY <1>1, <2>2 DEF ResolveCall, NsalPlaces
  <2>4. /\ found.at = "resolved" /\ found.url = call.url
        /\ found.party = e.relyingParty /\ found.errs = call.errs
    BY <1>1 DEF ResolveCall
  <2> HIDE DEF found
  <2>5. CallOK(p, found)
    BY <1>1, <2>1, <2>3, <2>4 DEF CallOK, Searching, InRound
  <2> QED
    BY <1>4, <2>4, <2>5 DEF Moves
<1>5. CASE nsalGo' = [nsalGo EXCEPT ![p] = NoResolveCall]
  BY <1>5, IdleIsOK DEF Moves, NoResolveCall
<1> QED
  BY <1>2, <1>3, <1>4, <1>5

LEMMA SkipsTitleMoves ==
    ASSUME NsalInv, NEW p \in Callers, nsalGo[p].at \in Searching,
           nsalGo[p].next <= Len(TitleIDs),
           NEW outcome \in Outcomes, NEW q \in Callers,
           outcome = "canceled" => q = p, SkipsTitle(p, <<outcome, q>>)
    PROVE  Moves(p)
PROOF
<1> DEFINE call == nsalGo[p]
           errs == call.errs \cup {<<outcome, q>>}
<1>1. CallOK(p, call) /\ call \in ResolveCall
  BY DEF NsalInv, CallOK
<1>2. nsalGo' = [nsalGo EXCEPT ![p] = GoesOn(call, errs)]
  BY DEF SkipsTitle
<1>3. errs \in SUBSET (Outcomes \X Callers) /\ errs # {} /\ call.errs \subseteq errs
  BY <1>1 DEF ResolveCall
<1>4. \A r \in Callers \ {p} : <<"canceled", r>> \notin errs
  BY <1>1 DEF CallOK
<1> HIDE DEF errs
<1>5. CallOK(p, GoesOn(call, errs)) /\ GoesOn(call, errs).at = "look"
  BY <1>1, <1>3, <1>4, NextTitleIsOK
<1> QED
  BY <1>2, <1>5 DEF Moves

\* A call that only changes what it waits for.
LEMMA SameSearchIsOK ==
    ASSUME NEW p \in Callers, NEW call, CallOK(p, call), call.at \in Searching,
           NEW new \in ResolveCall, new.at \in Searching,
           new.url = call.url, new.next = call.next, new.errs = call.errs,
           new.at \in InRound => new.next <= Len(TitleIDs),
           new.at = "heard" => new.loader \in Callers
    PROVE  CallOK(p, new)
PROOF
  BY DEF CallOK, SearchOK, Searching, InRound

-----------------------------------------------------------------------------

LEMMA ResolveKeeps ==
    ASSUME NsalInv, NEW p \in Callers, NEW u \in Urls, Resolve(p, u)
    PROVE  NsalInv'
PROOF
<1>1. nsalGo[p].at = "idle" /\ UNCHANGED <<cached, failed, loading, canceled, defaultTitle>>
  BY DEF Resolve
<1>2. NoResolveCall \in ResolveCall /\ NoResolveCall.errs = {}
  BY DEF NoResolveCall, ResolveCall, NsalPlaces, Outcomes, Parties
<1>3. Moves(p)
  <2>1. ASSUME NEW i \in DOMAIN Known, IsFirstMatch(Known, i, u),
               nsalGo' = [nsalGo EXCEPT ![p] =
                   [NoResolveCall EXCEPT !.at = "resolved", !.url = u,
                        !.party = TitleMatch(Known[i], u).relyingParty]]
        PROVE  Moves(p)
    <3> DEFINE party == TitleMatch(Known[i], u).relyingParty
               new == [NoResolveCall EXCEPT !.at = "resolved", !.url = u,
                           !.party = party]
    <3>1. party \in Parties
      <4> DEFINE T == {Known[j] : j \in DOMAIN Known} \cup {Data[t] : t \in Titles}
                 P(S) == {TitleMatch(title, v).relyingParty : title \in S, v \in Urls}
      <4>1. Known[i] \in T
        BY <2>1
      <4> HIDE DEF T
      <4>2. party \in P(T)
        BY <4>1
      <4>3. P(T) \subseteq Parties
        BY DEF T, Parties
      <4> QED
        BY <4>2, <4>3
    <3>2. Right(u, party)
      <4>1. \A j \in DOMAIN Sources : j < i => j \in DOMAIN Known
        BY <2>1, SourcesAreListed, ResolverAssumption
      <4>2. i \in DOMAIN Sources /\ Sources[i] = Known[i]
        BY <2>1, SourcesAreListed
      <4>3. \A j \in DOMAIN Sources : j < i => ~Matches(Sources[j], u)
        BY <2>1, <4>1, SourcesAreListed DEF IsFirstMatch
      <4> QED
        BY <2>1, <4>2, <4>3 DEF Right, IsFirstMatch
    <3>3. new \in ResolveCall /\ new.at = "resolved" /\ new.url = u
          /\ new.party = party /\ new.errs = {}
      BY <1>2, <3>1 DEF ResolveCall, NsalPlaces, NoResolveCall
    <3> HIDE DEF new, party
    <3>4. CallOK(p, new)
      BY <3>2, <3>3 DEF CallOK, Searching, InRound
    <3> QED
      BY <2>1, <3>3, <3>4 DEF Moves, new, party
  <2>2. ASSUME \A i \in DOMAIN Known : ~Matches(Known[i], u),
               nsalGo' = [nsalGo EXCEPT ![p] =
                   [NoResolveCall EXCEPT !.at = "look", !.url = u]]
        PROVE  Moves(p)
    <3> DEFINE new == [NoResolveCall EXCEPT !.at = "look", !.url = u]
    <3>1. /\ new \in ResolveCall /\ new.at = "look" /\ new.url = u
          /\ new.errs = {} /\ new.next = 1
      BY <1>2 DEF ResolveCall, NsalPlaces, NoResolveCall
    <3> HIDE DEF new
    <3>2. SearchOK(new)
      BY <2>2, <3>1, ResolverAssumption DEF SearchOK
    <3>3. CallOK(p, new)
      BY <3>1, <3>2 DEF CallOK, InRound
    <3> QED
      BY <2>2, <3>1, <3>3 DEF Moves, new
  <2> QED
    BY <2>1, <2>2 DEF Resolve
<1> QED
  BY <1>1, <1>3, MoveKeeps

LEMMA NsalEndKeeps ==
    ASSUME NsalInv, NEW p \in Callers, NoEndpointFound(p) \/ Authorize(p)
    PROVE  NsalInv'
PROOF
<1>1. nsalGo[p].at # "load" /\ UNCHANGED <<cached, failed, loading, canceled, defaultTitle>>
  BY DEF NoEndpointFound, Authorize
<1>2. Moves(p)
  BY IdleIsOK DEF Moves, NoEndpointFound, Authorize, ResolveEnds, NoResolveCall
<1> QED
  BY <1>1, <1>2, MoveKeeps

\* What waits and hears stays within the round it is in.
LEMMA WaitingKeeps ==
    ASSUME NsalInv, NEW p \in Callers,
           WaitIsCanceled(p) \/ Heard(p) \/ ResolveContextEnds(p)
    PROVE  NsalInv'
PROOF
<1> DEFINE call == nsalGo[p]
<1>1. /\ call.at \in {"wait", "heard"}
      /\ UNCHANGED <<cached, failed, loading, canceled, defaultTitle>>
  BY DEF WaitIsCanceled, Heard, ResolveContextEnds
<1>2. CallOK(p, call) /\ call \in ResolveCall /\ call.next <= Len(TitleIDs)
  BY <1>1 DEF NsalInv, CallOK, InRound
<1>3. call.at \in Searching
  BY <1>1 DEF Searching, InRound
<1>4. ASSUME WaitIsCanceled(p) PROVE Moves(p)
  BY <1>2, <1>3, <1>4, SkipsTitleMoves DEF WaitIsCanceled, Outcomes
<1>5. ASSUME Heard(p) PROVE Moves(p)
  <2>1. CASE TakesTitle(p)
    BY <2>1, <1>2, <1>3, TakesTitleMoves
  <2>2. CASE SkipsTitle(p, <<"failed", call.loader>>)
    <3>1. call.loader \in Callers
      BY <1>2, <1>5 DEF CallOK, Heard
    <3> QED
      BY <2>2, <3>1, <1>2, <1>3, SkipsTitleMoves DEF Outcomes
  <2>3. CASE nsalGo' = [nsalGo EXCEPT ![p] = Looks(call)]
    <3>1. /\ Looks(call) \in ResolveCall /\ Looks(call).at = "look"
          /\ Looks(call).url = call.url /\ Looks(call).next = call.next
          /\ Looks(call).errs = call.errs
      BY <1>2 DEF Looks, ResolveCall, NsalPlaces, Outcomes
    <3>2. CallOK(p, Looks(call))
      BY <1>2, <1>3, <3>1, SameSearchIsOK DEF Searching, InRound
    <3> QED
      BY <2>3, <3>1, <3>2 DEF Moves
  <2> QED
    BY <1>5, <2>1, <2>2, <2>3 DEF Heard
<1>6. ASSUME ResolveContextEnds(p) PROVE Moves(p)
  <2> DEFINE new == [call EXCEPT !.done = TRUE]
  <2>1. nsalGo' = [nsalGo EXCEPT ![p] = new]
    BY <1>6 DEF ResolveContextEnds
  <2>2. TRUE \in BOOLEAN
    OBVIOUS
  <2>3. /\ new \in ResolveCall /\ new.at = call.at
        /\ new.url = call.url /\ new.next = call.next
        /\ new.errs = call.errs /\ new.loader = call.loader
    BY <1>2, <2>2 DEF ResolveCall
  <2> HIDE DEF new
  <2>4. CallOK(p, new)
    BY <1>2, <1>3, <2>3, SameSearchIsOK DEF CallOK
  <2> QED
    BY <1>1, <2>1, <2>3, <2>4 DEF Moves
<1>7. Moves(p)
  BY <1>4, <1>5, <1>6
<1> QED
  BY <1>1, <1>7, MoveKeeps

\* The title of a round is one of the titles.
LEMMA AskedIsTitle ==
    ASSUME NsalInv, NEW p \in Callers, nsalGo[p].next <= Len(TitleIDs)
    PROVE  Asked(p) \in Titles
PROOF
<1>1. nsalGo[p].next \in Nat \ {0}
  BY DEF NsalInv, NsalTypeOK, ResolveCall
<1> QED
  BY <1>1, ResolverAssumption DEF Asked

LEMMA LookUpKeeps ==
    ASSUME NsalInv, NEW p \in Callers, LookUp(p)
    PROVE  NsalInv'
PROOF
<1> DEFINE call == nsalGo[p]
           t == Asked(p)
<1>1. call.at = "look" /\ call.next <= Len(TitleIDs)
      /\ UNCHANGED <<cached, failed, canceled, defaultTitle>>
  BY DEF LookUp
<1>2. call.at \in Searching /\ CallOK(p, call) /\ call \in ResolveCall
  BY <1>1 DEF Searching, NsalInv, CallOK
<1>3. CASE TakesTitle(p) /\ UNCHANGED loading
  BY <1>1, <1>2, <1>3, TakesTitleMoves, MoveKeeps
<1>4. CASE SkipsTitle(p, <<"failed", p>>) /\ UNCHANGED loading
  BY <1>1, <1>2, <1>4, SkipsTitleMoves, MoveKeeps DEF Outcomes
<1>5. CASE NsalGoto(p, "wait") /\ UNCHANGED loading
  <2> DEFINE new == [call EXCEPT !.at = "wait"]
  <2>1. nsalGo' = [nsalGo EXCEPT ![p] = new]
    BY <1>5 DEF NsalGoto
  <2>2. /\ new \in ResolveCall /\ new.at = "wait" /\ new.url = call.url
        /\ new.next = call.next /\ new.errs = call.errs
    BY <1>2 DEF ResolveCall, NsalPlaces
  <2> HIDE DEF new
  <2>3. CallOK(p, new)
    BY <1>1, <1>2, <2>2, SameSearchIsOK DEF Searching, InRound
  <2> QED
    BY <1>1, <1>5, <2>1, <2>2, <2>3, MoveKeeps DEF Moves
<1>6. CASE /\ t \notin cached \cup failed
           /\ loading[t] = Nobody
           /\ loading' = [loading EXCEPT ![t] = p]
           /\ NsalGoto(p, "load")
  <2> DEFINE new == [call EXCEPT !.at = "load"]
  <2>1. nsalGo' = [nsalGo EXCEPT ![p] = new]
    BY <1>6 DEF NsalGoto
  <2>2. /\ new \in ResolveCall /\ new.at = "load" /\ new.url = call.url
        /\ new.next = call.next /\ new.errs = call.errs
    BY <1>2 DEF ResolveCall, NsalPlaces
  <2> HIDE DEF new
  <2>3. CallOK(p, new)
    BY <1>1, <1>2, <2>2, SameSearchIsOK DEF Searching, InRound
  <2>4. nsalGo'[p] = new /\ \A q \in Callers \ {p} : nsalGo'[q] = nsalGo[q]
    BY <2>1 DEF NsalInv, NsalTypeOK
  <2>5. t \in Titles
    BY <1>1, AskedIsTitle
  <2>6. loading'[t] = p /\ \A s \in Titles \ {t} : loading'[s] = loading[s]
    BY <1>6, <2>5 DEF NsalInv, NsalTypeOK
  <2>7. NsalTypeOK'
    BY <1>1, <1>6, <2>1, <2>2 DEF NsalInv, NsalTypeOK
  <2>8. \A q \in Callers : CallOK(q, nsalGo'[q])
    BY <2>3, <2>4 DEF NsalInv
  <2>9. \A q \in Callers : nsalGo'[q].at = "load" =>
            /\ loading'[TitleIDs[nsalGo'[q].next]] = q
            /\ TitleIDs[nsalGo'[q].next] \notin cached \cup failed
    <3>1. TAKE q \in Callers
    <3>2. HAVE nsalGo'[q].at = "load"
    <3>3. CASE q = p
      BY <3>3, <1>6, <2>2, <2>4, <2>6 DEF Asked
    <3>4. CASE q # p
      <4>1. nsalGo[q].at = "load" /\ nsalGo'[q].next = nsalGo[q].next
        BY <3>2, <3>4, <2>4
      <4>2. loading[Asked(q)] = q /\ Asked(q) \notin cached \cup failed
        BY <4>1 DEF NsalInv, Loaders
      <4>3. Asked(q) # t
        BY <4>2, <1>6, GoroutinesAssumption
      <4>4. Asked(q) \in Titles
        BY <4>1, AskedIsTitle DEF NsalInv, CallOK, InRound
      <4> QED
        BY <4>1, <4>2, <4>3, <4>4, <2>6 DEF Asked
    <3> QED
      BY <3>3, <3>4
  <2> QED
    BY <1>1, <2>7, <2>8, <2>9 DEF NsalInv, Loaders, Asked
<1> QED
  BY <1>3, <1>4, <1>5, <1>6 DEF LookUp

\* Who is told of the end of a load hears of it in the round it waited in.
LEMMA LoadEndsKeeps ==
    ASSUME NsalInv, NEW p \in Callers, NEW outcome \in Outcomes, LoadEnds(p, outcome)
    PROVE  NsalInv'
PROOF
<1> DEFINE call == nsalGo[p]
           t == Asked(p)
           new == [call EXCEPT !.at = "return", !.outcome = outcome]
           heard(q) == [nsalGo[q] EXCEPT !.at = "heard", !.outcome = outcome,
                                         !.loader = loading[t]]
<1>1. call.at = "load"
  BY DEF LoadEnds
<1>2. CallOK(p, call) /\ call \in ResolveCall /\ call.next <= Len(TitleIDs)
  BY <1>1 DEF NsalInv, CallOK, InRound
<1>3. t \in Titles /\ loading[t] = p
  BY <1>1, <1>2, AskedIsTitle DEF NsalInv, Loaders
<1>4. /\ cached' \subseteq cached \cup {t} /\ failed' \subseteq failed \cup {t}
      /\ cached' \subseteq Titles /\ failed' \subseteq Titles
  BY <1>3 DEF LoadEnds, Outcomes, NsalInv, NsalTypeOK
<1>5. /\ loading' = [loading EXCEPT ![t] = Nobody]
      /\ nsalGo' = [Told(t, outcome) EXCEPT ![p] =
             [Told(t, outcome)[p] EXCEPT !.at = "return", !.outcome = outcome]]
  BY DEF LoadEnds
<1>6. Told(t, outcome)[p] = call
  BY <1>1 DEF Told
<1>7. nsalGo' = [Told(t, outcome) EXCEPT ![p] = new]
  BY <1>5, <1>6
<1>8. /\ nsalGo' = [q \in Callers |-> nsalGo'[q]]
      /\ nsalGo'[p] = new
      /\ \A q \in Callers \ {p} :
             nsalGo'[q] = IF nsalGo[q].at = "wait" /\ Asked(q) = t
                            THEN heard(q) ELSE nsalGo[q]
  BY <1>7 DEF Told
<1>9. /\ new \in ResolveCall /\ new.at = "return" /\ new.url = call.url
      /\ new.next = call.next /\ new.errs = call.errs
  BY <1>2 DEF ResolveCall, NsalPlaces
<1>10. CallOK(p, new)
  <2> HIDE DEF new
  <2> QED
    BY <1>1, <1>2, <1>9, SameSearchIsOK DEF Searching, InRound
<1>11. ASSUME NEW q \in Callers, nsalGo[q].at = "wait"
       PROVE  CallOK(q, heard(q)) /\ heard(q).at = "heard"
  <2>1. CallOK(q, nsalGo[q]) /\ nsalGo[q] \in ResolveCall
        /\ nsalGo[q].next <= Len(TitleIDs)
    BY <1>11 DEF NsalInv, CallOK, InRound
  <2>2. /\ heard(q) \in ResolveCall /\ heard(q).at = "heard"
        /\ heard(q).url = nsalGo[q].url /\ heard(q).next = nsalGo[q].next
        /\ heard(q).errs = nsalGo[q].errs /\ heard(q).loader = p
    BY <1>3, <2>1 DEF ResolveCall, NsalPlaces
  <2> HIDE DEF heard
  <2> QED
    BY <1>11, <2>1, <2>2, SameSearchIsOK DEF Searching, InRound
<1> HIDE DEF new, heard
<1>12. \A q \in Callers : CallOK(q, nsalGo'[q])
  BY <1>8, <1>10, <1>11 DEF NsalInv
<1>13. NsalTypeOK'
  <2>1. nsalGo' \in [Callers -> ResolveCall]
    BY <1>8, <1>12 DEF CallOK
  <2>2. loading' \in [Titles -> Callers \cup {Nobody}]
    BY <1>5 DEF NsalInv, NsalTypeOK
  <2>3. canceled' \in 0..MaxCanceled
    BY ResolverAssumption DEF LoadEnds, NsalInv, NsalTypeOK
  <2>4. defaultTitle' \in BOOLEAN
    <3>1. CASE t = DefaultID
      BY <3>1 DEF LoadEnds, Default
    <3>2. CASE t # DefaultID
      BY <3>2 DEF LoadEnds, Title, NsalInv, NsalTypeOK
    <3> QED
      BY <3>1, <3>2
  <2> QED
    BY <1>4, <2>1, <2>2, <2>3, <2>4 DEF NsalTypeOK
<1>14. \A q \in Callers : nsalGo'[q].at = "load" =>
            /\ loading'[TitleIDs[nsalGo'[q].next]] = q
            /\ TitleIDs[nsalGo'[q].next] \notin cached' \cup failed'
  <2>1. TAKE q \in Callers
  <2>2. HAVE nsalGo'[q].at = "load"
  <2>3. q # p /\ nsalGo'[q] = nsalGo[q]
    BY <2>2, <1>8, <1>9, <1>11
  <2>4. loading[Asked(q)] = q /\ Asked(q) \notin cached \cup failed
    BY <2>2, <2>3 DEF NsalInv, Loaders
  <2>5. Asked(q) # t
    BY <1>3, <2>3, <2>4
  <2>6. Asked(q) \in Titles
    BY <2>2, <2>3, AskedIsTitle DEF NsalInv, CallOK, InRound
  <2> QED
    BY <1>4, <1>5, <2>3, <2>4, <2>5, <2>6 DEF Asked, NsalInv, NsalTypeOK
<1> QED
  BY <1>12, <1>13, <1>14 DEF NsalInv, Loaders, Asked

LEMMA ReturnsKeeps ==
    ASSUME NsalInv, NEW p \in Callers, Return(p)
    PROVE  NsalInv'
PROOF
<1>1. nsalGo[p].at = "return" /\ UNCHANGED <<cached, failed, loading, canceled, defaultTitle>>
  BY DEF Return
<1>2. nsalGo[p].at \in Searching /\ nsalGo[p].next <= Len(TitleIDs)
  BY <1>1 DEF NsalInv, CallOK, Searching, InRound
<1>3. nsalGo[p].outcome \in Outcomes
  BY DEF NsalInv, NsalTypeOK, ResolveCall
<1>4. TakesTitle(p) \/ SkipsTitle(p, <<nsalGo[p].outcome, p>>)
  BY DEF Return
<1>5. Moves(p)
  BY <1>2, <1>3, <1>4, TakesTitleMoves, SkipsTitleMoves
<1> QED
  BY <1>1, <1>5, MoveKeeps

\* Failures that are forgotten, default data that others load, and steps of
\* another part of the program.
LEMMA ForgettingKeeps ==
    ASSUME NsalInv, failed' \subseteq failed, defaultTitle' \in BOOLEAN,
           UNCHANGED <<cached, loading, nsalGo, canceled>>
    PROVE  NsalInv'
PROOF
<1>1. NsalTypeOK'
  BY DEF NsalInv, NsalTypeOK
<1> QED
  BY <1>1 DEF NsalInv, Loaders, Asked

\* The inductive invariant, from which the theorems below follow.
LEMMA NsalInvariant == NsalSpec => []NsalInv
PROOF
<1>1. NsalInv /\ [NsalNext]_nsalVars => NsalInv'
  <2> SUFFICES ASSUME NsalInv, [NsalNext]_nsalVars PROVE NsalInv'
    OBVIOUS
  <2>1. ASSUME NEW p \in Callers, NEW u \in Urls, Resolve(p, u) PROVE NsalInv'
    BY <2>1, ResolveKeeps
  <2>2. ASSUME NEW p \in Callers, ResolveStep(p) PROVE NsalInv'
    BY <2>2, NsalEndKeeps, LookUpKeeps, WaitingKeeps, ReturnsKeeps, LoadEndsKeeps
    DEF ResolveStep
  <2>3. ASSUME NEW p \in Callers, ResolveContextEnds(p) PROVE NsalInv'
    BY <2>3, WaitingKeeps
  <2>4. ASSUME NEW t \in Titles, FailureExpires(t) PROVE NsalInv'
    BY <2>4, ForgettingKeeps DEF FailureExpires, NsalInv, NsalTypeOK
  <2>5. CASE OthersLoadDefault
    BY <2>5, ForgettingKeeps DEF OthersLoadDefault
  <2>6. CASE UNCHANGED nsalVars
    BY <2>6, ForgettingKeeps DEF nsalVars, NsalInv, NsalTypeOK
  <2> QED
    BY <2>1, <2>2, <2>3, <2>4, <2>5, <2>6 DEF NsalNext
<1> QED
  BY <1>1, NsalInitInv, PTL DEF NsalSpec

\* The variables of the resolver keep their types.
\* About: Resolver.title and Resolve.
THEOREM NsalTypeCorrect == NsalSpec => []NsalTypeOK
PROOF
<1>1. NsalInv => NsalTypeOK
  BY DEF NsalInv
<1> QED
  BY <1>1, NsalInvariant, PTL

\* However many goroutines ask for it, a title is loaded by one at a time.
\* About: Resolver.title.
THEOREM SingleFlightHolds == NsalSpec => []SingleFlight
PROOF
<1>1. NsalInv => SingleFlight
  BY DEF NsalInv, Loaders, SingleFlight
<1> QED
  BY <1>1, NsalInvariant, PTL

\* No goroutine fails because the context of another one has ended.
\* About: Resolver.title and titleLoadCanceled.
THEOREM CancellationStaysPrivateHolds == NsalSpec => []CancellationStaysPrivate
PROOF
<1>1. NsalInv => CancellationStaysPrivate
  BY DEF NsalInv, CallOK, CancellationStaysPrivate
<1> QED
  BY <1>1, NsalInvariant, PTL

\* A request is authorized for the relying party of the first title that has
\* an endpoint for it, whichever titles could not be loaded.
\* About: Resolve.
THEOREM RightRelyingPartyHolds == NsalSpec => []RightRelyingParty
PROOF
<1>1. NsalInv => RightRelyingParty
  BY DEF NsalInv, CallOK, RightRelyingParty, Right, Sources
<1> QED
  BY <1>1, NsalInvariant, PTL
=============================================================================
