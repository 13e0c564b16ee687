-------------------------- MODULE AchievementsPaging --------------------------
(***************************************************************************)
(* achievements.Client.All: it reads page after page until one has no      *)
(* continuation token, keeps the first of each achievement, and gives up   *)
(* with nothing when a page fails, a token repeats or a limit is passed.   *)
(* The service may answer a request with any page: its collection changes  *)
(* while it is read, and nothing promises that its tokens advance.         *)
(***************************************************************************)
EXTENDS Naturals, SequencesExt

CONSTANTS
    Keys,               \* pairs of a service configuration ID and an ID
    NoKey,              \* an entry without an ID
    ContinuationTokens,
    NoToken,            \* an empty token
    maxPages,           \* 128
    maxAchievements,    \* 65536
    MaxPageItems        \* bound: entries of a page

ASSUME PagingAssumption ==
    /\ NoKey \notin Keys /\ NoToken \notin ContinuationTokens
    /\ maxPages \in Nat \ {0} /\ maxAchievements \in Nat /\ MaxPageItems \in Nat

VARIABLES
    paging,         \* "idle", "read", "done" or "failed"
    result,         \* the achievements that were kept
    tokens,         \* the tokens that All has seen
    continuation,   \* the token of the next request
    pages,          \* number of pages read
    sent            \* history: the pages that were read

pagingVars == <<paging, result, tokens, continuation, pages, sent>>

-----------------------------------------------------------------------------

PagingInit ==
    /\ paging = "idle"
    /\ result = <<>>
    /\ tokens = {}
    /\ continuation = NoToken
    /\ pages = 0
    /\ sent = <<>>

\* filter.ContinuationToken is a page boundary, or empty.
All(token) ==
    /\ paging = "idle"
    /\ paging' = "read"
    /\ tokens' = {token} \ {NoToken}
    /\ continuation' = token
    /\ UNCHANGED <<result, pages, sent>>

\* The result has no token and no entries.
AllFails == paging' = "failed" /\ result' = <<>>

\* Achievements fails: a bad filter, no answer, another status, more than 4 MiB,
\* no collection.
PageFails ==
    /\ paging = "read"
    /\ AllFails
    /\ UNCHANGED <<tokens, continuation, pages, sent>>

\* The entries of a page that are new and have an ID, in their order.
Kept(items) ==
    FoldLeft(LAMBDA kept, key :
                 IF key = NoKey \/ Contains(kept, key) THEN kept ELSE Append(kept, key),
             result, items)

\* Mutant: the collection ends at a token that repeats.
PageReadLoosely(items, next) ==
    /\ paging = "read"
    /\ pages' = pages + 1
    /\ sent' = Append(sent, [items |-> items, next |-> next])
    /\ \/ /\ next \in tokens \cup {NoToken}
          /\ paging' = "done"
          /\ result' = Kept(items)
          /\ UNCHANGED <<tokens, continuation>>
       \/ /\ next \notin tokens \cup {NoToken} /\ pages + 1 < maxPages
          /\ result' = Kept(items)
          /\ tokens' = tokens \cup {next}
          /\ continuation' = next
          /\ UNCHANGED paging

\* One round of the loop: its page has items and the token next.
PageRead(items, next) ==
    LET kept == Kept(items)
        fits == Len(kept) <= maxAchievements
        advances == next \notin tokens /\ pages + 1 < maxPages
    IN  /\ paging = "read"
        /\ pages' = pages + 1
        /\ sent' = Append(sent, [items |-> items, next |-> next])
        /\ \/ /\ fits /\ next = NoToken
              /\ paging' = "done"
              /\ result' = kept
              /\ UNCHANGED <<tokens, continuation>>
           \/ /\ fits /\ next # NoToken /\ advances
              /\ result' = kept
              /\ tokens' = tokens \cup {next}
              /\ continuation' = next
              /\ UNCHANGED paging
           \/ /\ ~fits \/ (next # NoToken /\ ~advances)
              /\ AllFails
              /\ UNCHANGED <<tokens, continuation>>

Pages == SeqOf(Keys \cup {NoKey}, MaxPageItems)

PagingNext ==
    \/ \E token \in ContinuationTokens \cup {NoToken} : All(token)
    \/ PageFails
    \/ \E items \in Pages, next \in ContinuationTokens \cup {NoToken} :
          PageRead(items, next)

PagingSpec == PagingInit /\ [][PagingNext]_pagingVars

-----------------------------------------------------------------------------

Entries == FlattenSeq([i \in DOMAIN sent |-> sent[i].items])

FirstSent(key) == SelectInSeq(Entries, LAMBDA k : k = key)

\* What All returns is the whole collection as the service has sent it, up to a
\* page without a continuation token: each achievement once, in the order in
\* which it came first.  What stops at a limit, an error or a token that
\* repeats is never returned.
\* About: All ("keeps the first occurrence", "no partial results on errors").
ReturnsCollection ==
    /\ paging = "done" =>
          /\ Last(sent).next = NoToken
          /\ ToSet(result) = ToSet(Entries) \ {NoKey}
          /\ IsInjective(result)
          /\ \A i, j \in DOMAIN result :
                 i < j => FirstSent(result[i]) < FirstSent(result[j])
          /\ Len(result) <= maxAchievements
    /\ paging = "failed" => result = <<>>
=============================================================================
