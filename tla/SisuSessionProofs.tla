------------------------- MODULE SisuSessionProofs -------------------------
(***************************************************************************)
(* Proofs about SisuSession, for any goroutines, relying parties and       *)
(* number of tokens: a rejected token stays out of both caches, and the    *)
(* Session keeps the promise of TokenSource.                               *)
(*                                                                         *)
(* The inductive invariant IInv adds to TypeOK what a goroutine carries    *)
(* across the steps at which it holds no mutex: the generation it has seen *)
(* and the token it has obtained.                                          *)
(***************************************************************************)
EXTENDS SisuSession, TLAPS

USE SessionAssumption DEF Tokens, NoToken, Kinds

Outside == {"idle", "snapshot"}
Holding == {"answered", "reject", "invalidate"}

\* A token that is cached, rejected or in somebody's hands has been issued: the
\* next one is a new one.
IssuedBefore ==
    /\ \A rp \in RelyingParties :
          /\ xsts[rp] <= issued
          /\ \A t \in rejected[rp] : t <= issued
    /\ resp <= issued
    /\ \A p \in Callers : go[p].token <= issued

\* A goroutine that makes no call remembers nothing of an earlier one.
OutsideIsEmpty ==
    \A p \in Callers :
        go[p].at \in Outside => /\ go[p].rp = Nowhere
                                /\ go[p].token = NoToken
                                /\ go[p].banned = {}

\* What was rejected stays rejected, and the generation never goes back.
CallKnowsItsPast ==
    \A p \in Callers :
        go[p].at \notin Outside =>
            /\ go[p].rp \in RelyingParties
            /\ go[p].banned \subseteq rejected[go[p].rp]
            /\ go[p].generation <= generation[go[p].rp]

\* requestXSTS itself authorizes for the default relying party only.
AuthorizeHasCaller ==
    \A p \in Callers :
        go[p].at \in {"authorize", "exchange"} =>
            \/ go[p].caller \in {"TitleToken", "UserToken"}
            \/ go[p].caller = "requestXSTS" /\ go[p].rp = DefaultRP

\* A token about to be stored was not rejected, or the generation shows it.
AcquiredIsAcceptable ==
    \A p \in Callers :
        go[p].at \in {"check", "keep"} =>
            /\ go[p].token # NoToken
            /\ \/ go[p].generation < generation[go[p].rp]
               \/ go[p].token \notin rejected[go[p].rp]

\* A token that was returned had not been rejected when the call began.
HeldIsAcceptable ==
    \A p \in Callers :
        go[p].at \in Holding =>
            go[p].token # NoToken /\ go[p].token \notin go[p].banned

IInv == /\ TypeOK /\ IssuedBefore /\ OutsideIsEmpty /\ CallKnowsItsPast
        /\ AuthorizeHasCaller /\ AcquiredIsAcceptable /\ HeldIsAcceptable
        /\ RejectedStaysOut

-----------------------------------------------------------------------------
(* Types.                                                                  *)

\* The record of a goroutine that does nothing is an operation.
LEMMA NoOperationType == NoOperation \in Operation
BY DEF NoOperation, Operation, Places

\* Giving a goroutine a new place and a token keeps the operations typed.
LEMMA MoveType ==
    ASSUME go \in [Callers -> Operation], NEW p \in Callers,
           NEW place \in Places, NEW t \in 0..MaxTokens
    PROVE  /\ [go EXCEPT ![p].at = place] \in [Callers -> Operation]
           /\ [go EXCEPT ![p].at = place, ![p].token = t]
                 \in [Callers -> Operation]
<1>1. /\ [go[p] EXCEPT !.at = place] \in Operation
      /\ [go[p] EXCEPT !.at = place, !.token = t] \in Operation
  BY DEF Operation
<1> QED
  BY <1>1

\* So does sending a goroutine back without the token it has obtained.
LEMMA RetreatType ==
    ASSUME go \in [Callers -> Operation], NEW p \in Callers
    PROVE  /\ [go EXCEPT ![p].at = "look", ![p].token = NoToken]
                 \in [Callers -> Operation]
           /\ [go EXCEPT ![p].at = "title", ![p].token = NoToken]
                 \in [Callers -> Operation]
<1>1. "look" \in Places /\ "title" \in Places /\ NoToken \in 0..MaxTokens
  BY DEF Places
<1> QED
  BY <1>1, MoveType

\* Every step keeps every variable in its type.
LEMMA TypeStep == ASSUME IInv, Next PROVE TypeOK'
<1> USE DEF IInv, TypeOK, Operation, Places, cacheVars, lockVars
<1>1. ASSUME NEW p \in Callers, NEW rp \in RelyingParties, Ask(p, rp)
      PROVE  TypeOK'
  BY <1>1, NoOperationType DEF Ask
<1>2. ASSUME NEW p \in Callers, LookHits(p)
      PROVE  TypeOK'
  <2>1. go[p].rp \in RelyingParties
    BY <1>2 DEF LookHits, CallKnowsItsPast, Outside
  <2>2. go' \in [Callers -> Operation]
    BY <1>2, <2>1, MoveType DEF LookHits, Answer
  <2> QED
    BY <1>2, <2>2 DEF LookHits
<1>3. ASSUME NEW p \in Callers, LookMisses(p)
      PROVE  TypeOK'
  BY <1>3 DEF LookMisses
<1>4. ASSUME NEW p \in Callers, Keep(p)
      PROVE  TypeOK'
  <2>1. go[p].rp \in RelyingParties /\ go[p].token \in 0..MaxTokens
    BY <1>4 DEF Keep, CallKnowsItsPast, Outside
  <2>2. ASSUME NEW t \in 0..MaxTokens, Answer(p, t)
        PROVE  go' \in [Callers -> Operation]
    BY <2>2, MoveType DEF Answer
  <2>3. go' \in [Callers -> Operation]
    <3>1. CASE Valid("xsts", xsts[go[p].rp])
      BY <1>4, <2>1, <2>2, <3>1 DEF Keep
    <3>2. CASE go' = [go EXCEPT ![p].at = "look", ![p].token = NoToken]
      BY <3>2, RetreatType
    <3>3. CASE Answer(p, go[p].token)
      BY <2>1, <2>2, <3>3
    <3> QED
      BY <1>4, <3>1, <3>2, <3>3 DEF Keep
  <2>4. xsts' \in [RelyingParties -> 0..MaxTokens]
    BY <1>4, <2>1 DEF Keep
  <2> QED
    BY <1>4, <2>3, <2>4 DEF Keep
<1>5. ASSUME NEW p \in Callers, TitleToken(p)
      PROVE  TypeOK'
  BY <1>5 DEF TitleToken, Goto
<1>6. ASSUME NEW p \in Callers, UserToken(p)
      PROVE  TypeOK'
  BY <1>6 DEF UserToken, Goto
<1>7. ASSUME NEW p \in Callers, Authorize(p)
      PROVE  TypeOK'
  BY <1>7 DEF Authorize, Goto, AuthorizeReturns
<1>8. ASSUME NEW p \in Callers, Exchanged(p)
      PROVE  TypeOK'
  BY <1>8 DEF Exchanged, Goto, AuthorizeReturns, Issue
<1>9. ASSUME NEW p \in Callers, CheckDefault(p)
      PROVE  TypeOK'
  <2>1. \/ go' = [go EXCEPT ![p].at = "keep"]
        \/ go' = [go EXCEPT ![p].at = "title", ![p].token = NoToken]
    BY <1>9 DEF CheckDefault, Goto
  <2>2. go' \in [Callers -> Operation]
    <3>1. CASE go' = [go EXCEPT ![p].at = "keep"]
      BY <3>1
    <3>2. CASE go' = [go EXCEPT ![p].at = "title", ![p].token = NoToken]
      BY <3>2, RetreatType
    <3> QED
      BY <2>1, <3>1, <3>2
  <2> QED
    BY <1>9, <2>2 DEF CheckDefault
<1>10. ASSUME NEW p \in Callers, Mint(p)
      PROVE  TypeOK'
  <2>1. issued' \in 0..MaxTokens
    BY <1>10 DEF Mint, Issue
  <2>2. go' \in [Callers -> Operation]
    BY <1>10, <2>1, MoveType DEF Mint
  <2> QED
    BY <1>10, <2>1, <2>2 DEF Mint
<1>11. ASSUME NEW p \in Callers, Fails(p)
      PROVE  TypeOK'
  BY <1>11, NoOperationType DEF Fails, Leave, MayFail
<1>12. ASSUME NEW p \in Callers, Accepted(p)
      PROVE  TypeOK'
  BY <1>12, NoOperationType DEF Accepted, Leave
<1>13. ASSUME NEW p \in Callers, Rejected(p)
      PROVE  TypeOK'
  <2>1. go' \in [Callers -> Operation]
    BY <1>13, MoveType DEF Rejected, Goto
  <2> QED
    BY <1>13, <2>1 DEF Rejected
<1>14. ASSUME NEW p \in Callers, InvalidateLocks(p)
      PROVE  TypeOK'
  BY <1>14 DEF InvalidateLocks, Goto
<1>15. ASSUME NEW p \in Callers, InvalidateXSTSToken(p)
      PROVE  TypeOK'
  <2>1. go[p].token \in Tokens /\ go[p].rp \in RelyingParties
    BY <1>15 DEF InvalidateXSTSToken, HeldIsAcceptable, Holding,
                CallKnowsItsPast, Outside
  <2>2. go' \in [Callers -> Operation]
    BY <1>15, NoOperationType DEF InvalidateXSTSToken, Leave
  <2>3. rejected' \in [RelyingParties -> SUBSET Tokens]
    BY <1>15, <2>1 DEF InvalidateXSTSToken
  <2>4. generation' =
          [generation EXCEPT ![go[p].rp] = generation[go[p].rp] + 1]
    BY <1>15 DEF InvalidateXSTSToken
  <2>5. generation' \in [RelyingParties -> Nat]
    <3> HIDE DEF Operation
    <3> QED
      BY <2>1, <2>4
  <2>6. \/ xsts' = xsts
        \/ xsts' = [xsts EXCEPT ![go[p].rp] = NoToken]
    BY <1>15, <2>1 DEF InvalidateXSTSToken
  <2>7. resp' = resp \/ resp' = NoToken
    BY <1>15 DEF InvalidateXSTSToken
  <2> QED
    BY <1>15, <2>2, <2>3, <2>5, <2>6, <2>7 DEF InvalidateXSTSToken
<1>16. ASSUME NEW p \in Callers, SnapshotLocks(p)
      PROVE  TypeOK'
  BY <1>16 DEF SnapshotLocks, Goto
<1>17. ASSUME NEW p \in Callers, Snapshot(p)
      PROVE  TypeOK'
  BY <1>17, NoOperationType DEF Snapshot, Leave
<1>18. ASSUME NEW kind \in Kinds, NEW t \in Tokens, Expire(kind, t)
      PROVE  TypeOK'
  BY <1>18 DEF Expire
<1> QED
  BY <1>1, <1>2, <1>3, <1>4, <1>5, <1>6, <1>7, <1>8, <1>9, <1>10, <1>11,
     <1>12, <1>13, <1>14, <1>15, <1>16, <1>17, <1>18 DEF Next, Progress

-----------------------------------------------------------------------------
(* One lemma for each other part of the invariant.                         *)

\* Only issued tokens are cached, rejected or carried.
LEMMA IssuedStep == ASSUME IInv, Next PROVE IssuedBefore'
<1> USE DEF IInv, TypeOK, Operation, Places, cacheVars, lockVars, NoOperation
<1>1. ASSUME NEW p \in Callers, NEW rp \in RelyingParties, Ask(p, rp)
      PROVE  IssuedBefore'
  BY <1>1 DEF Ask, IssuedBefore
<1>2. ASSUME NEW p \in Callers, LookHits(p)
      PROVE  IssuedBefore'
  BY <1>2 DEF LookHits, Answer, IssuedBefore
<1>3. ASSUME NEW p \in Callers, LookMisses(p)
      PROVE  IssuedBefore'
  BY <1>3 DEF LookMisses, IssuedBefore
<1>4. ASSUME NEW p \in Callers, Keep(p)
      PROVE  IssuedBefore'
  BY <1>4 DEF Keep, Answer, IssuedBefore
<1>5. ASSUME NEW p \in Callers, TitleToken(p)
      PROVE  IssuedBefore'
  <2>1. \A q \in Callers : go'[q].token = go[q].token
    BY <1>5 DEF TitleToken, Goto
  <2> QED
    BY <1>5, <2>1 DEF TitleToken, IssuedBefore
<1>6. ASSUME NEW p \in Callers, UserToken(p)
      PROVE  IssuedBefore'
  BY <1>6 DEF UserToken, Goto, IssuedBefore
<1>7. ASSUME NEW p \in Callers, Authorize(p)
      PROVE  IssuedBefore'
  BY <1>7 DEF Authorize, Goto, AuthorizeReturns, IssuedBefore
<1>8. ASSUME NEW p \in Callers, Exchanged(p)
      PROVE  IssuedBefore'
  BY <1>8 DEF Exchanged, Goto, AuthorizeReturns, Issue, IssuedBefore
<1>9. ASSUME NEW p \in Callers, CheckDefault(p)
      PROVE  IssuedBefore'
  BY <1>9 DEF CheckDefault, Goto, IssuedBefore
<1>10. ASSUME NEW p \in Callers, Mint(p)
      PROVE  IssuedBefore'
  BY <1>10 DEF Mint, Issue, IssuedBefore
<1>11. ASSUME NEW p \in Callers, Fails(p)
      PROVE  IssuedBefore'
  BY <1>11 DEF Fails, Leave, MayFail, IssuedBefore
<1>12. ASSUME NEW p \in Callers, Accepted(p)
      PROVE  IssuedBefore'
  BY <1>12 DEF Accepted, Leave, IssuedBefore
<1>13. ASSUME NEW p \in Callers, Rejected(p)
      PROVE  IssuedBefore'
  BY <1>13 DEF Rejected, Goto, IssuedBefore
<1>14. ASSUME NEW p \in Callers, InvalidateLocks(p)
      PROVE  IssuedBefore'
  BY <1>14 DEF InvalidateLocks, Goto, IssuedBefore
<1>15. ASSUME NEW p \in Callers, InvalidateXSTSToken(p)
      PROVE  IssuedBefore'
  BY <1>15 DEF InvalidateXSTSToken, Leave, IssuedBefore
<1>16. ASSUME NEW p \in Callers, SnapshotLocks(p)
      PROVE  IssuedBefore'
  BY <1>16 DEF SnapshotLocks, Goto, IssuedBefore
<1>17. ASSUME NEW p \in Callers, Snapshot(p)
      PROVE  IssuedBefore'
  BY <1>17 DEF Snapshot, Leave, IssuedBefore
<1>18. ASSUME NEW kind \in Kinds, NEW t \in Tokens, Expire(kind, t)
      PROVE  IssuedBefore'
  BY <1>18 DEF Expire, IssuedBefore
<1> QED
  BY <1>1, <1>2, <1>3, <1>4, <1>5, <1>6, <1>7, <1>8, <1>9, <1>10, <1>11,
     <1>12, <1>13, <1>14, <1>15, <1>16, <1>17, <1>18 DEF Next, Progress

\* A call that ends leaves nothing behind.
LEMMA OutsideStep == ASSUME IInv, Next PROVE OutsideIsEmpty'
<1> USE DEF IInv, TypeOK, Operation, Places, cacheVars, lockVars, NoOperation
<1>1. ASSUME NEW p \in Callers, NEW rp \in RelyingParties, Ask(p, rp)
      PROVE  OutsideIsEmpty'
  BY <1>1 DEF Ask, OutsideIsEmpty, Outside
<1>2. ASSUME NEW p \in Callers, LookHits(p)
      PROVE  OutsideIsEmpty'
  BY <1>2 DEF LookHits, Answer, OutsideIsEmpty, Outside
<1>3. ASSUME NEW p \in Callers, LookMisses(p)
      PROVE  OutsideIsEmpty'
  BY <1>3 DEF LookMisses, OutsideIsEmpty, Outside
<1>4. ASSUME NEW p \in Callers, Keep(p)
      PROVE  OutsideIsEmpty'
  BY <1>4 DEF Keep, Answer, OutsideIsEmpty, Outside
<1>5. ASSUME NEW p \in Callers, TitleToken(p)
      PROVE  OutsideIsEmpty'
  BY <1>5 DEF TitleToken, Goto, OutsideIsEmpty, Outside
<1>6. ASSUME NEW p \in Callers, UserToken(p)
      PROVE  OutsideIsEmpty'
  BY <1>6 DEF UserToken, Goto, OutsideIsEmpty, Outside
<1>7. ASSUME NEW p \in Callers, Authorize(p)
      PROVE  OutsideIsEmpty'
  BY <1>7 DEF Authorize, Goto, AuthorizeReturns, OutsideIsEmpty, Outside
<1>8. ASSUME NEW p \in Callers, Exchanged(p)
      PROVE  OutsideIsEmpty'
  BY <1>8 DEF Exchanged, Goto, AuthorizeReturns, Issue, OutsideIsEmpty,
     Outside
<1>9. ASSUME NEW p \in Callers, CheckDefault(p)
      PROVE  OutsideIsEmpty'
  BY <1>9 DEF CheckDefault, Goto, OutsideIsEmpty, Outside
<1>10. ASSUME NEW p \in Callers, Mint(p)
      PROVE  OutsideIsEmpty'
  BY <1>10 DEF Mint, Issue, OutsideIsEmpty, Outside
<1>11. ASSUME NEW p \in Callers, Fails(p)
      PROVE  OutsideIsEmpty'
  BY <1>11 DEF Fails, Leave, MayFail, OutsideIsEmpty, Outside
<1>12. ASSUME NEW p \in Callers, Accepted(p)
      PROVE  OutsideIsEmpty'
  BY <1>12 DEF Accepted, Leave, OutsideIsEmpty, Outside
<1>13. ASSUME NEW p \in Callers, Rejected(p)
      PROVE  OutsideIsEmpty'
  BY <1>13 DEF Rejected, Goto, OutsideIsEmpty, Outside
<1>14. ASSUME NEW p \in Callers, InvalidateLocks(p)
      PROVE  OutsideIsEmpty'
  BY <1>14 DEF InvalidateLocks, Goto, OutsideIsEmpty, Outside
<1>15. ASSUME NEW p \in Callers, InvalidateXSTSToken(p)
      PROVE  OutsideIsEmpty'
  BY <1>15 DEF InvalidateXSTSToken, Leave, OutsideIsEmpty, Outside
<1>16. ASSUME NEW p \in Callers, SnapshotLocks(p)
      PROVE  OutsideIsEmpty'
  BY <1>16 DEF SnapshotLocks, Goto, OutsideIsEmpty, Outside
<1>17. ASSUME NEW p \in Callers, Snapshot(p)
      PROVE  OutsideIsEmpty'
  BY <1>17 DEF Snapshot, Leave, OutsideIsEmpty, Outside
<1>18. ASSUME NEW kind \in Kinds, NEW t \in Tokens, Expire(kind, t)
      PROVE  OutsideIsEmpty'
  BY <1>18 DEF Expire, OutsideIsEmpty, Outside
<1> QED
  BY <1>1, <1>2, <1>3, <1>4, <1>5, <1>6, <1>7, <1>8, <1>9, <1>10, <1>11,
     <1>12, <1>13, <1>14, <1>15, <1>16, <1>17, <1>18 DEF Next, Progress

\* Rejections are never forgotten, and generations only grow.
LEMMA PastStep == ASSUME IInv, Next PROVE CallKnowsItsPast'
<1> USE DEF IInv, TypeOK, Operation, Places, cacheVars, lockVars, NoOperation
<1>1. ASSUME NEW p \in Callers, NEW rp \in RelyingParties, Ask(p, rp)
      PROVE  CallKnowsItsPast'
  BY <1>1 DEF Ask, CallKnowsItsPast, Outside
<1>2. ASSUME NEW p \in Callers, LookHits(p)
      PROVE  CallKnowsItsPast'
  BY <1>2 DEF LookHits, Answer, CallKnowsItsPast, Outside
<1>3. ASSUME NEW p \in Callers, LookMisses(p)
      PROVE  CallKnowsItsPast'
  BY <1>3 DEF LookMisses, CallKnowsItsPast, Outside
<1>4. ASSUME NEW p \in Callers, Keep(p)
      PROVE  CallKnowsItsPast'
  <2>1. \A q \in Callers :
            /\ go'[q].rp = go[q].rp
            /\ go'[q].banned = go[q].banned
            /\ go'[q].generation = go[q].generation
            /\ go'[q].at # go[q].at => q = p
    BY <1>4 DEF Keep, Answer
  <2>2. go[p].at \notin Outside
    BY <1>4 DEF Keep, Outside
  <2>3. rejected' = rejected /\ generation' = generation
    BY <1>4 DEF Keep
  <2>4. ASSUME NEW q \in Callers, go'[q].at \notin Outside
        PROVE  go[q].at \notin Outside
    BY <2>1, <2>2, <2>4
  <2> QED
    BY <2>1, <2>3, <2>4 DEF CallKnowsItsPast
<1>5. ASSUME NEW p \in Callers, TitleToken(p)
      PROVE  CallKnowsItsPast'
  BY <1>5 DEF TitleToken, Goto, CallKnowsItsPast, Outside
<1>6. ASSUME NEW p \in Callers, UserToken(p)
      PROVE  CallKnowsItsPast'
  BY <1>6 DEF UserToken, Goto, CallKnowsItsPast, Outside
<1>7. ASSUME NEW p \in Callers, Authorize(p)
      PROVE  CallKnowsItsPast'
  <2>1. \A q \in Callers :
            /\ go'[q].rp = go[q].rp
            /\ go'[q].banned = go[q].banned
            /\ go'[q].generation = go[q].generation
            /\ go'[q].at # go[q].at => q = p
    BY <1>7 DEF Authorize, Goto, AuthorizeReturns
  <2>2. go[p].at \notin Outside
    BY <1>7 DEF Authorize, Outside
  <2>3. rejected' = rejected /\ generation' = generation
    BY <1>7 DEF Authorize
  <2>4. ASSUME NEW q \in Callers, go'[q].at \notin Outside
        PROVE  go[q].at \notin Outside
    BY <2>1, <2>2, <2>4
  <2> QED
    BY <2>1, <2>3, <2>4 DEF CallKnowsItsPast
<1>8. ASSUME NEW p \in Callers, Exchanged(p)
      PROVE  CallKnowsItsPast'
  BY <1>8 DEF Exchanged, Goto, AuthorizeReturns, Issue, CallKnowsItsPast,
     Outside
<1>9. ASSUME NEW p \in Callers, CheckDefault(p)
      PROVE  CallKnowsItsPast'
  BY <1>9 DEF CheckDefault, Goto, CallKnowsItsPast, Outside
<1>10. ASSUME NEW p \in Callers, Mint(p)
      PROVE  CallKnowsItsPast'
  BY <1>10 DEF Mint, Issue, CallKnowsItsPast, Outside
<1>11. ASSUME NEW p \in Callers, Fails(p)
      PROVE  CallKnowsItsPast'
  BY <1>11 DEF Fails, Leave, MayFail, CallKnowsItsPast, Outside
<1>12. ASSUME NEW p \in Callers, Accepted(p)
      PROVE  CallKnowsItsPast'
  BY <1>12 DEF Accepted, Leave, CallKnowsItsPast, Outside
<1>13. ASSUME NEW p \in Callers, Rejected(p)
      PROVE  CallKnowsItsPast'
  BY <1>13 DEF Rejected, Goto, CallKnowsItsPast, Outside
<1>14. ASSUME NEW p \in Callers, InvalidateLocks(p)
      PROVE  CallKnowsItsPast'
  BY <1>14 DEF InvalidateLocks, Goto, CallKnowsItsPast, Outside
<1>15. ASSUME NEW p \in Callers, InvalidateXSTSToken(p)
      PROVE  CallKnowsItsPast'
  BY <1>15 DEF InvalidateXSTSToken, Leave, CallKnowsItsPast, Outside
<1>16. ASSUME NEW p \in Callers, SnapshotLocks(p)
      PROVE  CallKnowsItsPast'
  BY <1>16 DEF SnapshotLocks, Goto, CallKnowsItsPast, Outside
<1>17. ASSUME NEW p \in Callers, Snapshot(p)
      PROVE  CallKnowsItsPast'
  BY <1>17 DEF Snapshot, Leave, CallKnowsItsPast, Outside
<1>18. ASSUME NEW kind \in Kinds, NEW t \in Tokens, Expire(kind, t)
      PROVE  CallKnowsItsPast'
  BY <1>18 DEF Expire, CallKnowsItsPast, Outside
<1> QED
  BY <1>1, <1>2, <1>3, <1>4, <1>5, <1>6, <1>7, <1>8, <1>9, <1>10, <1>11,
     <1>12, <1>13, <1>14, <1>15, <1>16, <1>17, <1>18 DEF Next, Progress

\* authorize is called by requestXSTS for the default relying party, or for the
\* title or user token.
LEMMA CallerStep == ASSUME IInv, Next PROVE AuthorizeHasCaller'
<1> USE DEF IInv, TypeOK, Operation, Places, cacheVars, lockVars, NoOperation
<1>1. ASSUME NEW p \in Callers, NEW rp \in RelyingParties, Ask(p, rp)
      PROVE  AuthorizeHasCaller'
  BY <1>1 DEF Ask, AuthorizeHasCaller
<1>2. ASSUME NEW p \in Callers, LookHits(p)
      PROVE  AuthorizeHasCaller'
  BY <1>2 DEF LookHits, Answer, AuthorizeHasCaller
<1>3. ASSUME NEW p \in Callers, LookMisses(p)
      PROVE  AuthorizeHasCaller'
  BY <1>3 DEF LookMisses, AuthorizeHasCaller
<1>4. ASSUME NEW p \in Callers, Keep(p)
      PROVE  AuthorizeHasCaller'
  BY <1>4 DEF Keep, Answer, AuthorizeHasCaller
<1>5. ASSUME NEW p \in Callers, TitleToken(p)
      PROVE  AuthorizeHasCaller'
  BY <1>5 DEF TitleToken, Goto, AuthorizeHasCaller
<1>6. ASSUME NEW p \in Callers, UserToken(p)
      PROVE  AuthorizeHasCaller'
  BY <1>6 DEF UserToken, Goto, AuthorizeHasCaller
<1>7. ASSUME NEW p \in Callers, Authorize(p)
      PROVE  AuthorizeHasCaller'
  BY <1>7 DEF Authorize, Goto, AuthorizeReturns, AuthorizeHasCaller
<1>8. ASSUME NEW p \in Callers, Exchanged(p)
      PROVE  AuthorizeHasCaller'
  BY <1>8 DEF Exchanged, Goto, AuthorizeReturns, Issue, AuthorizeHasCaller
<1>9. ASSUME NEW p \in Callers, CheckDefault(p)
      PROVE  AuthorizeHasCaller'
  BY <1>9 DEF CheckDefault, Goto, AuthorizeHasCaller
<1>10. ASSUME NEW p \in Callers, Mint(p)
      PROVE  AuthorizeHasCaller'
  BY <1>10 DEF Mint, Issue, AuthorizeHasCaller
<1>11. ASSUME NEW p \in Callers, Fails(p)
      PROVE  AuthorizeHasCaller'
  BY <1>11 DEF Fails, Leave, MayFail, AuthorizeHasCaller
<1>12. ASSUME NEW p \in Callers, Accepted(p)
      PROVE  AuthorizeHasCaller'
  BY <1>12 DEF Accepted, Leave, AuthorizeHasCaller
<1>13. ASSUME NEW p \in Callers, Rejected(p)
      PROVE  AuthorizeHasCaller'
  BY <1>13 DEF Rejected, Goto, AuthorizeHasCaller
<1>14. ASSUME NEW p \in Callers, InvalidateLocks(p)
      PROVE  AuthorizeHasCaller'
  BY <1>14 DEF InvalidateLocks, Goto, AuthorizeHasCaller
<1>15. ASSUME NEW p \in Callers, InvalidateXSTSToken(p)
      PROVE  AuthorizeHasCaller'
  BY <1>15 DEF InvalidateXSTSToken, Leave, AuthorizeHasCaller
<1>16. ASSUME NEW p \in Callers, SnapshotLocks(p)
      PROVE  AuthorizeHasCaller'
  BY <1>16 DEF SnapshotLocks, Goto, AuthorizeHasCaller
<1>17. ASSUME NEW p \in Callers, Snapshot(p)
      PROVE  AuthorizeHasCaller'
  BY <1>17 DEF Snapshot, Leave, AuthorizeHasCaller
<1>18. ASSUME NEW kind \in Kinds, NEW t \in Tokens, Expire(kind, t)
      PROVE  AuthorizeHasCaller'
  BY <1>18 DEF Expire, AuthorizeHasCaller
<1> QED
  BY <1>1, <1>2, <1>3, <1>4, <1>5, <1>6, <1>7, <1>8, <1>9, <1>10, <1>11,
     <1>12, <1>13, <1>14, <1>15, <1>16, <1>17, <1>18 DEF Next, Progress

\* A token that an overlapping invalidation has rejected is recognised by its
\* generation.
LEMMA AcquiredStep == ASSUME IInv, Next PROVE AcquiredIsAcceptable'
<1> USE DEF IInv, TypeOK, Operation, Places, cacheVars, lockVars, NoOperation
<1>1. ASSUME NEW p \in Callers, NEW rp \in RelyingParties, Ask(p, rp)
      PROVE  AcquiredIsAcceptable'
  BY <1>1 DEF Ask, AcquiredIsAcceptable, CallKnowsItsPast, Outside,
     AuthorizeHasCaller, RejectedStaysOut, IssuedBefore
<1>2. ASSUME NEW p \in Callers, LookHits(p)
      PROVE  AcquiredIsAcceptable'
  BY <1>2 DEF LookHits, Answer, Valid, AcquiredIsAcceptable,
     CallKnowsItsPast, Outside, AuthorizeHasCaller, RejectedStaysOut,
     IssuedBefore
<1>3. ASSUME NEW p \in Callers, LookMisses(p)
      PROVE  AcquiredIsAcceptable'
  BY <1>3 DEF LookMisses, AcquiredIsAcceptable, CallKnowsItsPast, Outside,
     AuthorizeHasCaller, RejectedStaysOut, IssuedBefore
<1>4. ASSUME NEW p \in Callers, Keep(p)
      PROVE  AcquiredIsAcceptable'
  <2>1. go' = [go EXCEPT ![p] = go'[p]] /\ go'[p].at \notin {"check", "keep"}
    BY <1>4 DEF Keep, Answer
  <2> QED
    BY <1>4, <2>1 DEF Keep, AcquiredIsAcceptable
<1>5. ASSUME NEW p \in Callers, TitleToken(p)
      PROVE  AcquiredIsAcceptable'
  BY <1>5 DEF TitleToken, Goto, AcquiredIsAcceptable, CallKnowsItsPast,
     Outside, AuthorizeHasCaller, RejectedStaysOut, IssuedBefore
<1>6. ASSUME NEW p \in Callers, UserToken(p)
      PROVE  AcquiredIsAcceptable'
  BY <1>6 DEF UserToken, Goto, AcquiredIsAcceptable, CallKnowsItsPast,
     Outside, AuthorizeHasCaller, RejectedStaysOut, IssuedBefore
<1>7. ASSUME NEW p \in Callers, Authorize(p)
      PROVE  AcquiredIsAcceptable'
  <2>1. CASE go[p].caller = "requestXSTS" /\ ValidResponse(resp)
    <3>1. resp # NoToken /\ resp \notin rejected[go[p].rp]
      BY <1>7, <2>1 DEF Authorize, ValidResponse, Valid, AuthorizeHasCaller,
                        RejectedStaysOut
    <3>2. go' = [go EXCEPT ![p].at = "check", ![p].token = resp]
      BY <1>7, <2>1 DEF Authorize, AuthorizeReturns
    <3> QED
      BY <1>7, <3>1, <3>2 DEF Authorize, AcquiredIsAcceptable
  <2>2. CASE ~(go[p].caller = "requestXSTS" /\ ValidResponse(resp))
    BY <1>7, <2>2 DEF Authorize, AuthorizeReturns, Goto, AcquiredIsAcceptable
  <2> QED
    BY <2>1, <2>2
<1>8. ASSUME NEW p \in Callers, Exchanged(p)
      PROVE  AcquiredIsAcceptable'
  BY <1>8 DEF Exchanged, Goto, AuthorizeReturns, Issue, AcquiredIsAcceptable,
     CallKnowsItsPast, Outside, AuthorizeHasCaller, RejectedStaysOut,
     IssuedBefore
<1>9. ASSUME NEW p \in Callers, CheckDefault(p)
      PROVE  AcquiredIsAcceptable'
  <2>1. \/ go' = [go EXCEPT ![p].at = "keep"]
        \/ go' = [go EXCEPT ![p].at = "title", ![p].token = NoToken]
    BY <1>9 DEF CheckDefault, Goto
  <2>2. go[p].at = "check"
    BY <1>9 DEF CheckDefault
  <2> QED
    BY <1>9, <2>1, <2>2 DEF CheckDefault, AcquiredIsAcceptable
<1>10. ASSUME NEW p \in Callers, Mint(p)
      PROVE  AcquiredIsAcceptable'
  BY <1>10 DEF Mint, Issue, AcquiredIsAcceptable, CallKnowsItsPast, Outside,
     AuthorizeHasCaller, RejectedStaysOut, IssuedBefore
<1>11. ASSUME NEW p \in Callers, Fails(p)
      PROVE  AcquiredIsAcceptable'
  BY <1>11 DEF Fails, Leave, MayFail, AcquiredIsAcceptable, CallKnowsItsPast,
     Outside, AuthorizeHasCaller, RejectedStaysOut, IssuedBefore
<1>12. ASSUME NEW p \in Callers, Accepted(p)
      PROVE  AcquiredIsAcceptable'
  BY <1>12 DEF Accepted, Leave, AcquiredIsAcceptable, CallKnowsItsPast,
     Outside, AuthorizeHasCaller, RejectedStaysOut, IssuedBefore
<1>13. ASSUME NEW p \in Callers, Rejected(p)
      PROVE  AcquiredIsAcceptable'
  BY <1>13 DEF Rejected, Goto, AcquiredIsAcceptable, CallKnowsItsPast,
     Outside, AuthorizeHasCaller, RejectedStaysOut, IssuedBefore
<1>14. ASSUME NEW p \in Callers, InvalidateLocks(p)
      PROVE  AcquiredIsAcceptable'
  BY <1>14 DEF InvalidateLocks, Goto, AcquiredIsAcceptable, CallKnowsItsPast,
     Outside, AuthorizeHasCaller, RejectedStaysOut, IssuedBefore
<1>15. ASSUME NEW p \in Callers, InvalidateXSTSToken(p)
      PROVE  AcquiredIsAcceptable'
  BY <1>15 DEF InvalidateXSTSToken, Leave, AcquiredIsAcceptable,
     CallKnowsItsPast, Outside, AuthorizeHasCaller, RejectedStaysOut,
     IssuedBefore
<1>16. ASSUME NEW p \in Callers, SnapshotLocks(p)
      PROVE  AcquiredIsAcceptable'
  BY <1>16 DEF SnapshotLocks, Goto, AcquiredIsAcceptable, CallKnowsItsPast,
     Outside, AuthorizeHasCaller, RejectedStaysOut, IssuedBefore
<1>17. ASSUME NEW p \in Callers, Snapshot(p)
      PROVE  AcquiredIsAcceptable'
  BY <1>17 DEF Snapshot, Leave, AcquiredIsAcceptable, CallKnowsItsPast,
     Outside, AuthorizeHasCaller, RejectedStaysOut, IssuedBefore
<1>18. ASSUME NEW kind \in Kinds, NEW t \in Tokens, Expire(kind, t)
      PROVE  AcquiredIsAcceptable'
  BY <1>18 DEF Expire, AcquiredIsAcceptable, CallKnowsItsPast, Outside,
     AuthorizeHasCaller, RejectedStaysOut, IssuedBefore
<1> QED
  BY <1>1, <1>2, <1>3, <1>4, <1>5, <1>6, <1>7, <1>8, <1>9, <1>10, <1>11,
     <1>12, <1>13, <1>14, <1>15, <1>16, <1>17, <1>18 DEF Next, Progress

\* A token that is returned was not rejected before the call began.
LEMMA HeldStep == ASSUME IInv, Next PROVE HeldIsAcceptable'
<1> USE DEF IInv, TypeOK, Operation, Places, cacheVars, lockVars, NoOperation
<1>1. ASSUME NEW p \in Callers, NEW rp \in RelyingParties, Ask(p, rp)
      PROVE  HeldIsAcceptable'
  BY <1>1 DEF Ask, HeldIsAcceptable, Holding, RejectedStaysOut,
     CallKnowsItsPast, Outside, AcquiredIsAcceptable
<1>2. ASSUME NEW p \in Callers, LookHits(p)
      PROVE  HeldIsAcceptable'
  BY <1>2 DEF LookHits, Answer, Valid, HeldIsAcceptable, Holding,
     RejectedStaysOut, CallKnowsItsPast, Outside, AcquiredIsAcceptable
<1>3. ASSUME NEW p \in Callers, LookMisses(p)
      PROVE  HeldIsAcceptable'
  BY <1>3 DEF LookMisses, HeldIsAcceptable, Holding, RejectedStaysOut,
     CallKnowsItsPast, Outside, AcquiredIsAcceptable
<1>4. ASSUME NEW p \in Callers, Keep(p)
      PROVE  HeldIsAcceptable'
  BY <1>4 DEF Keep, Answer, Valid, HeldIsAcceptable, Holding,
     RejectedStaysOut, CallKnowsItsPast, Outside, AcquiredIsAcceptable
<1>5. ASSUME NEW p \in Callers, TitleToken(p)
      PROVE  HeldIsAcceptable'
  BY <1>5 DEF TitleToken, Goto, HeldIsAcceptable, Holding, RejectedStaysOut,
     CallKnowsItsPast, Outside, AcquiredIsAcceptable
<1>6. ASSUME NEW p \in Callers, UserToken(p)
      PROVE  HeldIsAcceptable'
  BY <1>6 DEF UserToken, Goto, HeldIsAcceptable, Holding, RejectedStaysOut,
     CallKnowsItsPast, Outside, AcquiredIsAcceptable
<1>7. ASSUME NEW p \in Callers, Authorize(p)
      PROVE  HeldIsAcceptable'
  <2>1. go' = [go EXCEPT ![p] = go'[p]] /\ go'[p].at \notin Holding
    BY <1>7 DEF Authorize, AuthorizeReturns, Goto, Holding
  <2> QED
    BY <2>1 DEF HeldIsAcceptable
<1>8. ASSUME NEW p \in Callers, Exchanged(p)
      PROVE  HeldIsAcceptable'
  BY <1>8 DEF Exchanged, Goto, AuthorizeReturns, Issue, HeldIsAcceptable,
     Holding, RejectedStaysOut, CallKnowsItsPast, Outside,
     AcquiredIsAcceptable
<1>9. ASSUME NEW p \in Callers, CheckDefault(p)
      PROVE  HeldIsAcceptable'
  <2>1. go' = [go EXCEPT ![p] = go'[p]] /\ go'[p].at \notin Holding
    BY <1>9 DEF CheckDefault, Goto, Holding
  <2> QED
    BY <2>1 DEF HeldIsAcceptable
<1>10. ASSUME NEW p \in Callers, Mint(p)
      PROVE  HeldIsAcceptable'
  BY <1>10 DEF Mint, Issue, HeldIsAcceptable, Holding, RejectedStaysOut,
     CallKnowsItsPast, Outside, AcquiredIsAcceptable
<1>11. ASSUME NEW p \in Callers, Fails(p)
      PROVE  HeldIsAcceptable'
  BY <1>11 DEF Fails, Leave, MayFail, HeldIsAcceptable, Holding,
     RejectedStaysOut, CallKnowsItsPast, Outside, AcquiredIsAcceptable
<1>12. ASSUME NEW p \in Callers, Accepted(p)
      PROVE  HeldIsAcceptable'
  BY <1>12 DEF Accepted, Leave, HeldIsAcceptable, Holding, RejectedStaysOut,
     CallKnowsItsPast, Outside, AcquiredIsAcceptable
<1>13. ASSUME NEW p \in Callers, Rejected(p)
      PROVE  HeldIsAcceptable'
  BY <1>13 DEF Rejected, Goto, HeldIsAcceptable, Holding, RejectedStaysOut,
     CallKnowsItsPast, Outside, AcquiredIsAcceptable
<1>14. ASSUME NEW p \in Callers, InvalidateLocks(p)
      PROVE  HeldIsAcceptable'
  BY <1>14 DEF InvalidateLocks, Goto, HeldIsAcceptable, Holding,
     RejectedStaysOut, CallKnowsItsPast, Outside, AcquiredIsAcceptable
<1>15. ASSUME NEW p \in Callers, InvalidateXSTSToken(p)
      PROVE  HeldIsAcceptable'
  BY <1>15 DEF InvalidateXSTSToken, Leave, HeldIsAcceptable, Holding,
     RejectedStaysOut, CallKnowsItsPast, Outside, AcquiredIsAcceptable
<1>16. ASSUME NEW p \in Callers, SnapshotLocks(p)
      PROVE  HeldIsAcceptable'
  BY <1>16 DEF SnapshotLocks, Goto, HeldIsAcceptable, Holding,
     RejectedStaysOut, CallKnowsItsPast, Outside, AcquiredIsAcceptable
<1>17. ASSUME NEW p \in Callers, Snapshot(p)
      PROVE  HeldIsAcceptable'
  BY <1>17 DEF Snapshot, Leave, HeldIsAcceptable, Holding, RejectedStaysOut,
     CallKnowsItsPast, Outside, AcquiredIsAcceptable
<1>18. ASSUME NEW kind \in Kinds, NEW t \in Tokens, Expire(kind, t)
      PROVE  HeldIsAcceptable'
  BY <1>18 DEF Expire, HeldIsAcceptable, Holding, RejectedStaysOut,
     CallKnowsItsPast, Outside, AcquiredIsAcceptable
<1> QED
  BY <1>1, <1>2, <1>3, <1>4, <1>5, <1>6, <1>7, <1>8, <1>9, <1>10, <1>11,
     <1>12, <1>13, <1>14, <1>15, <1>16, <1>17, <1>18 DEF Next, Progress

\* Neither cache takes back a rejected token.
LEMMA RejectedStep == ASSUME IInv, Next PROVE RejectedStaysOut'
<1> USE DEF IInv, TypeOK, Operation, Places, cacheVars, lockVars, NoOperation
<1>1. ASSUME NEW p \in Callers, NEW rp \in RelyingParties, Ask(p, rp)
      PROVE  RejectedStaysOut'
  BY <1>1 DEF Ask, RejectedStaysOut, AcquiredIsAcceptable, IssuedBefore,
     HeldIsAcceptable, CallKnowsItsPast, Outside
<1>2. ASSUME NEW p \in Callers, LookHits(p)
      PROVE  RejectedStaysOut'
  BY <1>2 DEF LookHits, Answer, RejectedStaysOut, AcquiredIsAcceptable,
     IssuedBefore, HeldIsAcceptable, CallKnowsItsPast, Outside
<1>3. ASSUME NEW p \in Callers, LookMisses(p)
      PROVE  RejectedStaysOut'
  BY <1>3 DEF LookMisses, RejectedStaysOut, AcquiredIsAcceptable,
     IssuedBefore, HeldIsAcceptable, CallKnowsItsPast, Outside
<1>4. ASSUME NEW p \in Callers, Keep(p)
      PROVE  RejectedStaysOut'
  BY <1>4 DEF Keep, Answer, RejectedStaysOut, AcquiredIsAcceptable,
     IssuedBefore, HeldIsAcceptable, CallKnowsItsPast, Outside
<1>5. ASSUME NEW p \in Callers, TitleToken(p)
      PROVE  RejectedStaysOut'
  BY <1>5 DEF TitleToken, Goto, RejectedStaysOut, AcquiredIsAcceptable,
     IssuedBefore, HeldIsAcceptable, CallKnowsItsPast, Outside
<1>6. ASSUME NEW p \in Callers, UserToken(p)
      PROVE  RejectedStaysOut'
  BY <1>6 DEF UserToken, Goto, RejectedStaysOut, AcquiredIsAcceptable,
     IssuedBefore, HeldIsAcceptable, CallKnowsItsPast, Outside
<1>7. ASSUME NEW p \in Callers, Authorize(p)
      PROVE  RejectedStaysOut'
  BY <1>7 DEF Authorize, Goto, AuthorizeReturns, RejectedStaysOut,
     AcquiredIsAcceptable, IssuedBefore, HeldIsAcceptable, CallKnowsItsPast,
     Outside
<1>8. ASSUME NEW p \in Callers, Exchanged(p)
      PROVE  RejectedStaysOut'
  BY <1>8 DEF Exchanged, Goto, AuthorizeReturns, Issue, RejectedStaysOut,
     AcquiredIsAcceptable, IssuedBefore, HeldIsAcceptable, CallKnowsItsPast,
     Outside
<1>9. ASSUME NEW p \in Callers, CheckDefault(p)
      PROVE  RejectedStaysOut'
  BY <1>9 DEF CheckDefault, Goto, RejectedStaysOut, AcquiredIsAcceptable,
     IssuedBefore, HeldIsAcceptable, CallKnowsItsPast, Outside
<1>10. ASSUME NEW p \in Callers, Mint(p)
      PROVE  RejectedStaysOut'
  BY <1>10 DEF Mint, Issue, RejectedStaysOut, AcquiredIsAcceptable,
     IssuedBefore, HeldIsAcceptable, CallKnowsItsPast, Outside
<1>11. ASSUME NEW p \in Callers, Fails(p)
      PROVE  RejectedStaysOut'
  BY <1>11 DEF Fails, Leave, MayFail, RejectedStaysOut, AcquiredIsAcceptable,
     IssuedBefore, HeldIsAcceptable, CallKnowsItsPast, Outside
<1>12. ASSUME NEW p \in Callers, Accepted(p)
      PROVE  RejectedStaysOut'
  BY <1>12 DEF Accepted, Leave, RejectedStaysOut, AcquiredIsAcceptable,
     IssuedBefore, HeldIsAcceptable, CallKnowsItsPast, Outside
<1>13. ASSUME NEW p \in Callers, Rejected(p)
      PROVE  RejectedStaysOut'
  BY <1>13 DEF Rejected, Goto, RejectedStaysOut, AcquiredIsAcceptable,
     IssuedBefore, HeldIsAcceptable, CallKnowsItsPast, Outside
<1>14. ASSUME NEW p \in Callers, InvalidateLocks(p)
      PROVE  RejectedStaysOut'
  BY <1>14 DEF InvalidateLocks, Goto, RejectedStaysOut, AcquiredIsAcceptable,
     IssuedBefore, HeldIsAcceptable, CallKnowsItsPast, Outside
<1>15. ASSUME NEW p \in Callers, InvalidateXSTSToken(p)
      PROVE  RejectedStaysOut'
  <2>1. go[p].rp \in RelyingParties /\ go[p].token # NoToken
    BY <1>15 DEF InvalidateXSTSToken, CallKnowsItsPast, Outside,
                HeldIsAcceptable, Holding
  <2>2. \A rp \in RelyingParties : xsts'[rp] \notin rejected'[rp]
    <3> SUFFICES ASSUME NEW rp \in RelyingParties
                 PROVE  xsts'[rp] \notin rejected'[rp]
      OBVIOUS
    <3>1. CASE rp = go[p].rp
      BY <1>15, <2>1, <3>1 DEF InvalidateXSTSToken, RejectedStaysOut
    <3>2. CASE rp # go[p].rp
      BY <1>15, <3>2 DEF InvalidateXSTSToken, RejectedStaysOut
    <3> QED
      BY <3>1, <3>2
  <2>3. resp' \notin rejected'[DefaultRP]
    BY <1>15, <2>1 DEF InvalidateXSTSToken, RejectedStaysOut
  <2> QED
    BY <2>2, <2>3 DEF RejectedStaysOut
<1>16. ASSUME NEW p \in Callers, SnapshotLocks(p)
      PROVE  RejectedStaysOut'
  BY <1>16 DEF SnapshotLocks, Goto, RejectedStaysOut, AcquiredIsAcceptable,
     IssuedBefore, HeldIsAcceptable, CallKnowsItsPast, Outside
<1>17. ASSUME NEW p \in Callers, Snapshot(p)
      PROVE  RejectedStaysOut'
  BY <1>17 DEF Snapshot, Leave, RejectedStaysOut, AcquiredIsAcceptable,
     IssuedBefore, HeldIsAcceptable, CallKnowsItsPast, Outside
<1>18. ASSUME NEW kind \in Kinds, NEW t \in Tokens, Expire(kind, t)
      PROVE  RejectedStaysOut'
  BY <1>18 DEF Expire, RejectedStaysOut, AcquiredIsAcceptable, IssuedBefore,
     HeldIsAcceptable, CallKnowsItsPast, Outside
<1> QED
  BY <1>1, <1>2, <1>3, <1>4, <1>5, <1>6, <1>7, <1>8, <1>9, <1>10, <1>11,
     <1>12, <1>13, <1>14, <1>15, <1>16, <1>17, <1>18 DEF Next, Progress

-----------------------------------------------------------------------------
(* The theorems.                                                           *)

\* A new Session satisfies the invariant.
LEMMA InitInv == Init => IInv
<1> SUFFICES ASSUME Init PROVE IInv
  OBVIOUS
<1> USE DEF Init
<1>1. TypeOK
  BY NoOperationType DEF TypeOK
<1>2. /\ OutsideIsEmpty /\ CallKnowsItsPast
      /\ AuthorizeHasCaller /\ AcquiredIsAcceptable /\ HeldIsAcceptable
  BY DEF OutsideIsEmpty, CallKnowsItsPast, AuthorizeHasCaller,
         AcquiredIsAcceptable, HeldIsAcceptable, Outside, Holding, NoOperation
<1>3. IssuedBefore /\ RejectedStaysOut
  BY DEF IssuedBefore, RejectedStaysOut, NoOperation
<1> QED
  BY <1>1, <1>2, <1>3 DEF IInv

\* Every step, and stuttering, preserves the invariant.
LEMMA InvStep == IInv /\ [Next]_vars => IInv'
<1> SUFFICES ASSUME IInv, [Next]_vars PROVE IInv'
  OBVIOUS
<1>1. CASE Next
  BY <1>1, TypeStep, IssuedStep, OutsideStep, PastStep, CallerStep,
     AcquiredStep, HeldStep, RejectedStep DEF IInv
<1>2. CASE UNCHANGED vars
  BY <1>2 DEF IInv, TypeOK, IssuedBefore, OutsideIsEmpty, CallKnowsItsPast,
              AuthorizeHasCaller, AcquiredIsAcceptable, HeldIsAcceptable,
              RejectedStaysOut, vars, cacheVars, lockVars
<1> QED
  BY <1>1, <1>2

\* IInv holds in every reachable state.
THEOREM Invariance == Spec => []IInv
BY InitInv, InvStep, PTL DEF Spec

\* Type correctness: every variable of the Session keeps its type.
THEOREM TypeCorrect == Spec => []TypeOK
<1>1. IInv => TypeOK
  BY DEF IInv
<1> QED
  BY Invariance, <1>1, PTL

\* A token that was invalidated is in neither cache, whatever acquisitions were
\* in flight: their generation gives them away.
THEOREM RejectedStaysOutHolds == Spec => []RejectedStaysOut
<1>1. IInv => RejectedStaysOut
  BY DEF IInv
<1> QED
  BY Invariance, <1>1, PTL

-----------------------------------------------------------------------------
(* The Session implements TokenSource.                                     *)

Calls == [p \in Callers |-> Call(go[p])]

\* A step that changes neither what the callers see nor what was rejected is a
\* stuttering step of TokenSource.
LEMMA Unseen ==
    ASSUME rejected' = rejected,
           \A q \in Callers : Call(go'[q]) = Call(go[q])
    PROVE  UNCHANGED Promise!vars
BY DEF Promise!vars

\* A step of goroutine p changes what p sees.
LEMMA Seen ==
    ASSUME NEW p \in Callers, TypeOK, TypeOK',
           \A q \in Callers : q # p => go'[q] = go[q]
    PROVE  Calls' = [Calls EXCEPT ![p] = Call(go'[p])]
BY DEF Calls

Asking == {"look", "title", "user", "authorize", "exchange", "check", "mint",
           "keep"}

\* Wherever a goroutine is in XSTSToken, its caller sees the same call.
LEMMA Inside ==
    ASSUME NEW o, NEW u, o.at \in Asking, u.at \in Asking,
           o.rp = u.rp, o.banned = u.banned
    PROVE  Call(o) = Call(u)
BY DEF Call, Asking

\* A step inside of XSTSToken is a stuttering step of TokenSource.
LEMMA InsideUnseen ==
    ASSUME NEW p \in Callers, rejected' = rejected,
           \A q \in Callers : q # p => go'[q] = go[q],
           go[p].at \in Asking, go'[p].at \in Asking,
           go'[p].rp = go[p].rp, go'[p].banned = go[p].banned
    PROVE  UNCHANGED Promise!vars
BY Inside, Unseen

CallType == [at : {"idle", "asking", "answered"},
             rp : RelyingParties \cup {Nowhere},
             token : 0..MaxTokens, banned : SUBSET Tokens]

\* A call that is answered keeps its relying party and what was banned for it.
LEMMA AnsweredCall ==
    ASSUME NEW c \in CallType, NEW d \in CallType,
           d.at = "answered", d.rp = c.rp, d.banned = c.banned
    PROVE  [c EXCEPT !.at = "answered", !.token = d.token] = d
BY DEF CallType

\* A new Session has made no call.
LEMMA PromiseInit == Init => Promise!Init
<1> SUFFICES ASSUME Init PROVE Promise!Init
  OBVIOUS
<1>1. Call(NoOperation) = Promise!NoCall
  BY DEF Call, NoOperation, Promise!NoCall
<1> QED
  BY <1>1 DEF Init, Promise!Init

\* Every step of the Session is a step of TokenSource, or none.
LEMMA PromiseStep ==
    ASSUME IInv, IInv', [Next]_vars
    PROVE  [Promise!Next]_(Promise!vars)
<1> USE DEF IInv
<1>1. ASSUME NEW p \in Callers, NEW rp \in RelyingParties, Ask(p, rp)
      PROVE  Promise!Ask(p, rp)
  <2>1. /\ Call(go[p]).at = "idle"
        /\ Call(go'[p]) = [at |-> "asking", rp |-> rp, token |-> NoToken,
                           banned |-> rejected[rp]]
    BY <1>1 DEF Ask, Call, NoOperation, TypeOK
  <2>2. Calls' = [Calls EXCEPT ![p] = Call(go'[p])]
    BY <1>1, Seen DEF Ask, TypeOK
  <2> QED
    BY <1>1, <2>1, <2>2 DEF Ask, Calls, Promise!Ask
<1>2. ASSUME NEW p \in Callers, NEW t \in Tokens \ go[p].banned,
             go[p].at \in {"look", "keep"}, Answer(p, t), rejected' = rejected
      PROVE  Promise!Answer(p)
  <2>1. go'[p] = [go[p] EXCEPT !.at = "answered", !.token = t]
    BY <1>2 DEF Answer, TypeOK
  <2>2. go'[p].rp = go[p].rp /\ go'[p].banned = go[p].banned
        /\ go'[p].at = "answered" /\ go'[p].token = t
    BY <2>1 DEF TypeOK, Operation
  <2>3. /\ Call(go[p]) = [at |-> "asking", rp |-> go[p].rp,
                          token |-> NoToken, banned |-> go[p].banned]
        /\ Call(go'[p]) = [at |-> "answered", rp |-> go[p].rp,
                           token |-> t, banned |-> go[p].banned]
    BY <1>2, <2>2 DEF Call
  <2>4. Calls' = [Calls EXCEPT ![p] = Call(go'[p])]
    BY <1>2, Seen DEF Answer, TypeOK
  <2>5. Calls[p] = Call(go[p])
    BY DEF Calls
  <2>6. [Calls[p] EXCEPT !.at = "answered", !.token = t] = Call(go'[p])
    <3>1. Calls[p] \in CallType /\ Call(go'[p]) \in CallType
      BY <1>2, <2>3, <2>5 DEF CallType, TypeOK, Operation
    <3>2. /\ Calls[p].rp = go[p].rp /\ Calls[p].banned = go[p].banned
          /\ Call(go'[p]).at = "answered" /\ Call(go'[p]).token = t
          /\ Call(go'[p]).rp = go[p].rp
          /\ Call(go'[p]).banned = go[p].banned
      BY <2>3, <2>5
    <3> QED
      BY <3>1, <3>2, AnsweredCall
  <2>7. [Calls EXCEPT ![p] = Call(go'[p])]
          = [Calls EXCEPT ![p].at = "answered", ![p].token = t]
    BY <2>6
  <2>8. Calls[p].at = "asking" /\ Calls[p].banned = go[p].banned
    BY <2>3, <2>5
  <2>9. t \in Tokens \ Calls[p].banned
    BY <1>2, <2>8
  <2>10. Calls' = [Calls EXCEPT ![p].at = "answered", ![p].token = t]
    BY <2>4, <2>7
  <2> QED
    BY <1>2, <2>8, <2>9, <2>10 DEF Calls, Promise!Answer
<1>3. ASSUME NEW p \in Callers, LookHits(p)
      PROVE  Promise!Answer(p)
  <2>1. xsts[go[p].rp] \in Tokens \ go[p].banned
    BY <1>3 DEF LookHits, Valid, CallKnowsItsPast, Outside, RejectedStaysOut,
                TypeOK
  <2> QED
    BY <1>2, <1>3, <2>1 DEF LookHits
<1>4. ASSUME NEW p \in Callers, Keep(p)
      PROVE  Promise!Answer(p) \/ UNCHANGED Promise!vars
  <2>1. go[p].at = "keep" /\ rejected' = rejected
    BY <1>4 DEF Keep
  <2>2. /\ go[p].rp \in RelyingParties
        /\ go[p].banned \subseteq rejected[go[p].rp]
    BY <2>1 DEF CallKnowsItsPast, Outside
  <2>3. CASE Valid("xsts", xsts[go[p].rp])
    <3>1. xsts[go[p].rp] \in Tokens \ go[p].banned
      BY <2>2, <2>3 DEF Valid, RejectedStaysOut, TypeOK
    <3> QED
      BY <1>2, <1>4, <2>1, <2>3, <3>1 DEF Keep
  <2>4. CASE /\ ~Valid("xsts", xsts[go[p].rp])
             /\ generation[go[p].rp] # go[p].generation
    <3>1. go' = [go EXCEPT ![p].at = "look", ![p].token = NoToken]
      BY <1>4, <2>4 DEF Keep
    <3> QED
      BY <2>1, <3>1, InsideUnseen DEF TypeOK, Operation, Asking
  <2>5. CASE /\ ~Valid("xsts", xsts[go[p].rp])
             /\ generation[go[p].rp] = go[p].generation
    <3>1. go[p].token \in Tokens \ go[p].banned
      BY <2>1, <2>2, <2>5 DEF AcquiredIsAcceptable, TypeOK, Operation
    <3> QED
      BY <1>2, <1>4, <2>1, <2>5, <3>1 DEF Keep
  <2> QED
    BY <2>3, <2>4, <2>5
<1>5. ASSUME NEW p \in Callers, Leave(p), rejected' = rejected,
             go[p].at \notin Outside
      PROVE  Promise!Finish(p)
  <2>1. /\ Call(go[p]).at \in {"asking", "answered"}
        /\ Call(go'[p]) = Promise!NoCall
    BY <1>5 DEF Leave, Call, NoOperation, Promise!NoCall, TypeOK, Outside
  <2>2. Calls' = [Calls EXCEPT ![p] = Call(go'[p])]
    BY <1>5, Seen DEF Leave, TypeOK
  <2> QED
    BY <1>5, <2>1, <2>2 DEF Calls, Promise!Finish
<1>6. ASSUME NEW p \in Callers, Fails(p) \/ Accepted(p)
      PROVE  Promise!Finish(p)
  BY <1>5, <1>6 DEF Fails, MayFail, Accepted, Outside
<1>7. ASSUME NEW p \in Callers, InvalidateXSTSToken(p)
      PROVE  Promise!Invalidate(p)
  <2>1. /\ Call(go[p]).at = "answered"
        /\ Call(go[p]).rp = go[p].rp /\ Call(go[p]).token = go[p].token
        /\ Call(go'[p]) = Promise!NoCall
    BY <1>7 DEF InvalidateXSTSToken, Leave, Call, NoOperation, Promise!NoCall,
                TypeOK
  <2>2. Calls' = [Calls EXCEPT ![p] = Call(go'[p])]
    BY <1>7, Seen DEF InvalidateXSTSToken, Leave, TypeOK
  <2>3. rejected' = [rejected EXCEPT
                         ![go[p].rp] = rejected[go[p].rp] \cup {go[p].token}]
    BY <1>7 DEF InvalidateXSTSToken
  <2> QED
    BY <2>1, <2>2, <2>3 DEF Calls, Promise!Invalidate
<1>8. ASSUME NEW p \in Callers, LookMisses(p)
      PROVE  UNCHANGED Promise!vars
  <2>1. /\ \A q \in Callers : q # p => go'[q] = go[q]
        /\ go[p].at \in Asking /\ go'[p].at \in Asking
        /\ go'[p].rp = go[p].rp /\ go'[p].banned = go[p].banned
    BY <1>8 DEF LookMisses, TypeOK, Operation, Asking
  <2> QED
    BY <1>8, <2>1, InsideUnseen DEF LookMisses
<1>9. ASSUME NEW p \in Callers, TitleToken(p)
      PROVE  UNCHANGED Promise!vars
  <2>1. /\ \A q \in Callers : q # p => go'[q] = go[q]
        /\ go[p].at \in Asking /\ go'[p].at \in Asking
        /\ go'[p].rp = go[p].rp /\ go'[p].banned = go[p].banned
    BY <1>9 DEF TitleToken, Goto, TypeOK, Operation, Asking
  <2> QED
    BY <1>9, <2>1, InsideUnseen DEF TitleToken
<1>10. ASSUME NEW p \in Callers, UserToken(p)
      PROVE  UNCHANGED Promise!vars
  <2>1. /\ \A q \in Callers : q # p => go'[q] = go[q]
        /\ go[p].at \in Asking /\ go'[p].at \in Asking
        /\ go'[p].rp = go[p].rp /\ go'[p].banned = go[p].banned
    BY <1>10 DEF UserToken, Goto, TypeOK, Operation, Asking
  <2> QED
    BY <1>10, <2>1, InsideUnseen DEF UserToken
<1>11. ASSUME NEW p \in Callers, Authorize(p)
      PROVE  UNCHANGED Promise!vars
  <2>1. /\ \A q \in Callers : q # p => go'[q] = go[q]
        /\ go[p].at \in Asking /\ go'[p].at \in Asking
        /\ go'[p].rp = go[p].rp /\ go'[p].banned = go[p].banned
    BY <1>11 DEF Authorize, Goto, AuthorizeReturns, TypeOK, Operation,
       Asking, AuthorizeHasCaller
  <2> QED
    BY <1>11, <2>1, InsideUnseen DEF Authorize
<1>12. ASSUME NEW p \in Callers, Exchanged(p)
      PROVE  UNCHANGED Promise!vars
  <2>1. /\ \A q \in Callers : q # p => go'[q] = go[q]
        /\ go[p].at \in Asking /\ go'[p].at \in Asking
        /\ go'[p].rp = go[p].rp /\ go'[p].banned = go[p].banned
    BY <1>12 DEF Exchanged, AuthorizeReturns, Goto, TypeOK, Operation,
       Asking, AuthorizeHasCaller
  <2> QED
    BY <1>12, <2>1, InsideUnseen DEF Exchanged
<1>13. ASSUME NEW p \in Callers, CheckDefault(p)
      PROVE  UNCHANGED Promise!vars
  <2>1. /\ \A q \in Callers : q # p => go'[q] = go[q]
        /\ go[p].at \in Asking /\ go'[p].at \in Asking
        /\ go'[p].rp = go[p].rp /\ go'[p].banned = go[p].banned
    BY <1>13 DEF CheckDefault, Goto, TypeOK, Operation, Asking
  <2> QED
    BY <1>13, <2>1, InsideUnseen DEF CheckDefault
<1>14. ASSUME NEW p \in Callers, Mint(p)
      PROVE  UNCHANGED Promise!vars
  <2>1. /\ \A q \in Callers : q # p => go'[q] = go[q]
        /\ go[p].at \in Asking /\ go'[p].at \in Asking
        /\ go'[p].rp = go[p].rp /\ go'[p].banned = go[p].banned
    BY <1>14 DEF Mint, TypeOK, Operation, Asking
  <2> QED
    BY <1>14, <2>1, InsideUnseen DEF Mint
<1>15. ASSUME NEW p \in Callers, Rejected(p)
      PROVE  UNCHANGED Promise!vars
  <2>1. \A q \in Callers : Call(go'[q]) = Call(go[q])
    BY <1>15 DEF Rejected, Goto, Call, TypeOK
  <2> QED
    BY <1>15, <2>1, Unseen DEF Rejected
<1>16. ASSUME NEW p \in Callers, InvalidateLocks(p)
      PROVE  UNCHANGED Promise!vars
  <2>1. \A q \in Callers : Call(go'[q]) = Call(go[q])
    BY <1>16 DEF InvalidateLocks, Goto, Call, TypeOK
  <2> QED
    BY <1>16, <2>1, Unseen DEF InvalidateLocks
<1>17. ASSUME NEW p \in Callers, SnapshotLocks(p)
      PROVE  UNCHANGED Promise!vars
  <2>1. \A q \in Callers : Call(go'[q]) = Call(go[q])
    BY <1>17 DEF SnapshotLocks, Goto, Call, TypeOK
  <2> QED
    BY <1>17, <2>1, Unseen DEF SnapshotLocks
<1>18. ASSUME NEW p \in Callers, Snapshot(p)
      PROVE  UNCHANGED Promise!vars
  <2>1. \A q \in Callers : Call(go'[q]) = Call(go[q])
    BY <1>18 DEF Snapshot, Leave, Call, TypeOK, OutsideIsEmpty, Outside,
       NoOperation
  <2> QED
    BY <1>18, <2>1, Unseen DEF Snapshot
<1>19. ASSUME NEW kind \in Kinds, NEW t \in Tokens, Expire(kind, t)
      PROVE  UNCHANGED Promise!vars
  BY <1>19, Unseen DEF Expire
<1>20. CASE UNCHANGED vars
  BY <1>20, Unseen DEF vars
<1> QED
  BY <1>1, <1>3, <1>4, <1>6, <1>7, <1>8, <1>9, <1>10, <1>11, <1>12, <1>13,
     <1>14, <1>15, <1>16, <1>17, <1>18, <1>19, <1>20 DEF Next, Progress,
     Promise!Next

\* The Session keeps the promise of nsal.TokenSource: no call returns a token
\* that InvalidateXSTSToken had discarded before the call began.
THEOREM Implements == Spec => KeepsPromise
<1>1. IInv /\ IInv' /\ [Next]_vars => [Promise!Next]_(Promise!vars)
  BY PromiseStep
<1> QED
  BY Invariance, PromiseInit, <1>1, PTL DEF Spec, KeepsPromise, Promise!Spec
=============================================================================
