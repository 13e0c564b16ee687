----------------------------- MODULE ServicesProofs -----------------------------
(***************************************************************************)
(* Proofs about the smaller services: the token sources, the match of a    *)
(* URL with the endpoints of a title, the pages of achievements and the    *)
(* upload of a profile image, for any constants.  The last three fold      *)
(* sequences of any length: what a fold computes is proved by induction    *)
(* over the positions of its sequence, from the existence of a least       *)
(* element (WFMin).                                                        *)
(***************************************************************************)
EXTENDS MCServices, TLAPS, WellFoundedInduction, SequenceTheorems

-----------------------------------------------------------------------------
(* Token sources *)

\* A request is made by the holder of the mutex, for want of a valid token.
Requesting ==
    \A p \in Callers :
        sourceGo[p] = "request" => sourceMu = p /\ ~HeldIsValid

SourceInv == SourceTypeOK /\ Requesting

\* The invariant holds at first.
LEMMA SourceInitInv == SourceInit => SourceInv
PROOF
<1> SUFFICES ASSUME SourceInit PROVE SourceInv
  OBVIOUS
<1>1. held \in 0..MaxIssued /\ issuedTokens \in 0..MaxIssued
  BY ReuseAssumption DEF SourceInit, NoTokenHeld
<1>2. refreshToken \in BOOLEAN
  BY ReuseAssumption DEF SourceInit
<1> QED
  BY <1>1, <1>2 DEF SourceInit, SourceInv, SourceTypeOK, Requesting

\* Each step keeps the types.
LEMMA SourceTypeKept ==
    ASSUME SourceTypeOK, [SourceNext]_sourceVars
    PROVE  SourceTypeOK'
PROOF
<1> USE DEF SourceTypeOK
<1>1. ASSUME NEW p \in Callers, AskSource(p) PROVE SourceTypeOK'
  BY <1>1 DEF AskSource
<1>2. ASSUME NEW p \in Callers, Reuse(p) \/ Request(p) \/ CannotRequest(p)
      PROVE  SourceTypeOK'
  BY <1>2 DEF Reuse, Request, CannotRequest
<1>3. ASSUME NEW p \in Callers, Granted(p) PROVE SourceTypeOK'
  <2>1. issuedTokens' \in 0..MaxIssued /\ held' \in 0..MaxIssued
    BY <1>3, ReuseAssumption DEF Granted
  <2>2. refreshToken' \in BOOLEAN
    BY <1>3 DEF Granted
  <2> QED
    BY <1>3, <2>1, <2>2 DEF Granted
<1>4. ASSUME NEW p \in Callers, NotGranted(p) \/ AnswerIsLost(p)
      PROVE  SourceTypeOK'
  <2>1. issuedTokens' \in 0..MaxIssued
    BY <1>4, ReuseAssumption DEF NotGranted, AnswerIsLost
  <2> QED
    BY <1>4, <2>1 DEF NotGranted, AnswerIsLost
<1>5. ASSUME NEW t \in 1..MaxIssued, TokenExpires(t) PROVE SourceTypeOK'
  BY <1>5 DEF TokenExpires
<1>6. CASE UNCHANGED sourceVars
  BY <1>6 DEF sourceVars
<1> QED
  BY <1>1, <1>2, <1>3, <1>4, <1>5, <1>6 DEF SourceNext, SourceStep

\* Nobody gets the mutex, and no token is replaced, while it is requested.
LEMMA RequestingKept ==
    ASSUME SourceInv, [SourceNext]_sourceVars
    PROVE  Requesting'
PROOF
<1> USE DEF SourceInv, SourceTypeOK
<1>1. ASSUME NEW p \in Callers, AskSource(p) \/ Reuse(p) \/ CannotRequest(p)
      PROVE  Requesting'
  BY <1>1 DEF AskSource, Reuse, CannotRequest, Requesting, HeldIsValid
<1>2. ASSUME NEW p \in Callers, Request(p) PROVE Requesting'
  BY <1>2, GoroutinesAssumption DEF Request, Requesting, HeldIsValid
<1>3. ASSUME NEW p \in Callers, Granted(p) \/ NotGranted(p) \/ AnswerIsLost(p)
      PROVE  Requesting'
  <2>1. \A q \in Callers \ {p} : sourceGo[q] # "request"
    BY <1>3 DEF Granted, NotGranted, AnswerIsLost, Requesting
  <2>2. \A q \in Callers : sourceGo'[q] # "request"
    BY <1>3, <2>1 DEF Granted, NotGranted, AnswerIsLost
  <2> QED
    BY <2>2 DEF Requesting
<1>4. ASSUME NEW t \in 1..MaxIssued, TokenExpires(t) PROVE Requesting'
  BY <1>4 DEF TokenExpires, Requesting, HeldIsValid
<1>5. CASE UNCHANGED sourceVars
  BY <1>5 DEF sourceVars, Requesting, HeldIsValid
<1> QED
  BY <1>1, <1>2, <1>3, <1>4, <1>5 DEF SourceNext, SourceStep

\* The invariant holds in every state.
LEMMA SourceInvariant == SourceSpec => []SourceInv
PROOF
<1>1. SourceInv /\ [SourceNext]_sourceVars => SourceInv'
  BY SourceTypeKept, RequestingKept DEF SourceInv
<1> QED
  BY <1>1, SourceInitInv, PTL DEF SourceSpec

\* The variables of a source keep their types.
\* About: refreshTokenSource and tokenRefresher.
THEOREM SourceTypeCorrect == SourceSpec => []SourceTypeOK
PROOF
<1>1. SourceInv => SourceTypeOK
  BY DEF SourceInv
<1> QED
  BY <1>1, SourceInvariant, PTL

\* No token is replaced before it has expired, however many goroutines find
\* that it has.
\* About: refreshTokenSource.DeviceToken, and tokenRefresher behind
\* oauth2.ReuseTokenSource.
THEOREM ReplacedWhenExpiredHolds == SourceSpec => ReplacedWhenExpired
PROOF
<1>1. SourceInv /\ [SourceNext]_sourceVars =>
          [held' # held => ~HeldIsValid]_sourceVars
  <2> SUFFICES ASSUME SourceInv, SourceNext, held' # held PROVE ~HeldIsValid
    BY DEF sourceVars
  <2>1. PICK p \in Callers : Granted(p)
    BY DEF SourceNext, SourceStep, AskSource, Reuse, Request, CannotRequest,
       NotGranted, AnswerIsLost, TokenExpires
  <2> QED
    BY <2>1 DEF SourceInv, Requesting, Granted
<1> QED
  BY <1>1, SourceInvariant, PTL DEF SourceSpec, ReplacedWhenExpired

-----------------------------------------------------------------------------
(* Induction over positions *)

\* Induction: a set of numbers with 0 and each successor has all of them.
LEMMA Induction ==
    ASSUME NEW T \in SUBSET Nat, 0 \in T, \A n \in T : n + 1 \in T
    PROVE  T = Nat
PROOF
<1> SUFFICES ASSUME T # Nat PROVE FALSE
  OBVIOUS
<1> DEFINE Others == Nat \ T
<1>1. PICK n \in Others : \A m \in Others : ~ (<<m, n>> \in OpToRel(<, Nat))
  <2>1. Others \subseteq Nat /\ Others # {}
    OBVIOUS
  <2> HIDE DEF Others
  <2> QED BY <2>1, NatLessThanWellFounded, WFMin
<1>2. \A m \in Others : ~(m < n)
  BY <1>1 DEF OpToRel
<1>3. n # 0 /\ n - 1 \in Nat /\ n - 1 \notin Others
  BY <1>2
<1> QED BY <1>3

\* Induction over an interval.
LEMMA UpTo ==
    ASSUME NEW n \in Nat, NEW T \in SUBSET (0..n), 0 \in T,
           \A i \in 1..n : i - 1 \in T => i \in T
    PROVE  T = 0..n
PROOF
<1> DEFINE S == T \cup {i \in Nat : i > n}
<1>1. S = Nat
  <2>1. S \in SUBSET Nat /\ 0 \in S
    <3>1. \A i \in T : i \in Nat
      OBVIOUS
    <3> QED BY <3>1
  <2>2. \A i \in S : i + 1 \in S
    <3> SUFFICES ASSUME NEW i \in S, i + 1 <= n PROVE i + 1 \in T
      OBVIOUS
    <3>1. i \in T /\ i + 1 \in 1..n /\ (i + 1) - 1 = i
      OBVIOUS
    <3> QED BY <3>1
  <2> HIDE DEF S
  <2> QED BY <2>1, <2>2, Induction
<1>2. ASSUME NEW i \in 0..n PROVE i \in T
  <2>1. i \in S /\ ~(i > n)
    BY <1>1
  <2> QED BY <2>1
<1> QED BY <1>2

\* Max of a set of positions is the greatest of them.
LEMMA HasMax ==
    ASSUME NEW n \in Nat, NEW S \in SUBSET (1..n), S # {}
    PROVE  Max(S) \in S /\ \A i \in S : i <= Max(S)
PROOF
<1> DEFINE Highest(k) == (\E i \in S : i <= k)
                            => \E m \in S : m <= k /\ \A i \in S : i <= k => i <= m
           T == {k \in 0..n : Highest(k)}
<1>1. T = 0..n
  <2>1. T \in SUBSET (0..n) /\ 0 \in T
    OBVIOUS
  <2>2. \A i \in 1..n : i - 1 \in T => i \in T
    <3> SUFFICES ASSUME NEW k \in 1..n, k - 1 \in T, NEW j \in S, j <= k
                 PROVE \E m \in S : m <= k /\ \A i \in S : i <= k => i <= m
      OBVIOUS
    <3>1. CASE k \in S
      BY <3>1
    <3>2. CASE k \notin S
      <4>1. \A i \in S : i <= k => i <= k - 1
        BY <3>2
      <4>2. PICK m \in S : m <= k - 1 /\ \A i \in S : i <= k - 1 => i <= m
        BY <4>1
      <4> QED BY <4>1, <4>2
    <3> QED BY <3>1, <3>2
  <2> HIDE DEF T
  <2> QED BY <2>1, <2>2, UpTo
<1>2. \A i \in S : i <= n /\ i \in Nat
  OBVIOUS
<1>3. Highest(n)
  <2> HIDE DEF Highest
  <2>1. n \in 0..n
    OBVIOUS
  <2> QED BY <1>1, <2>1
<1>4. \E x \in S : \A y \in S : x >= y
  <2>1. PICK m \in S : m <= n /\ \A i \in S : i <= n => i <= m
    BY <1>2, <1>3
  <2> QED BY <1>2, <2>1
<1> QED BY <1>4, <1>2 DEF Max

\* Every F[i] takes a value of V to a value of V.
Maps(F, n, V) == \A i \in 1..n, v \in V : F[i][v] \in V

\* The values that F[1], F[2], ... lead to in turn.
Steps(t, F, n, base, V) ==
    /\ t[0] = base
    /\ \A i \in 0..n : t[i] \in V
    /\ \A i \in 1..n : t[i] = F[i][t[i - 1]]

\* The intermediate values exist: each is made from the one before.
LEMMA StepsExist ==
    ASSUME NEW n \in Nat, NEW V, NEW base \in V, NEW F, Maps(F, n, V)
    PROVE  \E t : Steps(t, F, n, base, V)
PROOF
<1> DEFINE T == {k \in 0..n : \E t : Steps(t, F, k, base, V)}
<1>1. \E t : Steps(t, F, 0, base, V)
  <2> DEFINE z == [i \in 0..0 |-> base]
  <2>1. Steps(z, F, 0, base, V)
    BY DEF Steps
  <2> HIDE DEF z
  <2> QED BY <2>1
<1>2. ASSUME NEW k \in 1..n, NEW t, Steps(t, F, k - 1, base, V)
      PROVE  \E u : Steps(u, F, k, base, V)
  <2> DEFINE u == [i \in 0..k |-> IF i < k THEN t[i] ELSE F[k][t[k - 1]]]
  <2>1. F[k][t[k - 1]] \in V
    BY <1>2 DEF Steps, Maps
  <2>2. u[0] = base /\ \A i \in 0..k : u[i] \in V
    BY <1>2, <2>1 DEF Steps
  <2>3. ASSUME NEW i \in 1..k PROVE u[i] = F[i][u[i - 1]]
    <3>1. i - 1 \in 0..k /\ i - 1 < k /\ u[i - 1] = t[i - 1]
      OBVIOUS
    <3>2. CASE i < k
      <4>1. t[i] = F[i][t[i - 1]]
        BY <1>2, <3>2 DEF Steps
      <4> QED BY <3>1, <3>2, <4>1
    <3>3. CASE i = k
      BY <3>1, <3>3
    <3> QED BY <3>2, <3>3
  <2>4. Steps(u, F, k, base, V)
    BY <2>2, <2>3 DEF Steps
  <2> HIDE DEF u
  <2> QED BY <2>4
<1>3. T = 0..n
  <2>1. T \in SUBSET (0..n) /\ 0 \in T
    BY <1>1
  <2>2. \A i \in 1..n : i - 1 \in T => i \in T
    BY <1>2
  <2> HIDE DEF T
  <2> QED BY <2>1, <2>2, UpTo
<1>4. n \in 0..n
  OBVIOUS
<1> QED BY <1>3, <1>4

-----------------------------------------------------------------------------
(* Folds *)

\* An initial part of an interval.
LEMMA Initial ==
    ASSUME NEW n \in Nat, NEW i \in 1..n
    PROVE  /\ 1..i \in SUBSET (1..n) /\ 1..i # {}
           /\ Max(1..i) = i
           /\ (1..i) \ {i} = 1..(i - 1)
PROOF
<1>1. 1..i \in SUBSET (1..n) /\ i \in 1..i
  OBVIOUS
<1>2. Max(1..i) \in 1..i /\ i <= Max(1..i)
  BY <1>1, HasMax
<1> QED BY <1>1, <1>2

\* The function that a fold is made of: it takes the elements of a set of
\* positions from the right to the left.
Folding(f, F, n, base, V) ==
    \A s \in SUBSET (1..n) :
        /\ f[s] \in V
        /\ f[s] = IF s = {} THEN base ELSE F[Max(s)][f[s \ {Max(s)}]]

\* Such a function exists: f[s] is where the steps end that take the
\* positions in s and pass the others over.
LEMMA FoldingExists ==
    ASSUME NEW n \in Nat, NEW V, NEW base \in V, NEW F, Maps(F, n, V)
    PROVE  \E f : Folding(f, F, n, base, V)
PROOF
<1> DEFINE Only(s) == [i \in 1..n |-> [v \in V |-> IF i \in s THEN F[i][v] ELSE v]]
           W == [s \in SUBSET (1..n) |-> CHOOSE t : Steps(t, Only(s), n, base, V)]
           f == [s \in SUBSET (1..n) |-> W[s][n]]
<1>1. ASSUME NEW s \in SUBSET (1..n)
      PROVE  Steps(W[s], Only(s), n, base, V)
  <2>1. Maps(Only(s), n, V)
    BY DEF Maps
  <2>2. \E t : Steps(t, Only(s), n, base, V)
    <3> HIDE DEF Only
    <3> QED BY <2>1, StepsExist
  <2> HIDE DEF Only
  <2> QED BY <2>2
<1> HIDE DEF W
<1>2. ASSUME NEW s \in SUBSET (1..n)
      PROVE  /\ W[s][0] = base
             /\ \A i \in 0..n : W[s][i] \in V
             /\ \A i \in 1..n : W[s][i] = IF i \in s THEN F[i][W[s][i - 1]] ELSE W[s][i - 1]
  <2>1. W[s][0] = base /\ \A i \in 0..n : W[s][i] \in V
    BY <1>1 DEF Steps
  <2>2. ASSUME NEW i \in 1..n
        PROVE  W[s][i] = IF i \in s THEN F[i][W[s][i - 1]] ELSE W[s][i - 1]
    <3>1. W[s][i] = Only(s)[i][W[s][i - 1]]
      BY <1>1 DEF Steps
    <3>2. W[s][i - 1] \in V
      BY <2>1
    <3> QED BY <3>1, <3>2
  <2> QED BY <2>1, <2>2
<1> HIDE DEF Only
\* Where nothing is taken nothing changes.
<1>3. ASSUME NEW s \in SUBSET (1..n), NEW k \in 0..n, \A i \in s : i <= k
      PROVE  W[s][n] = W[s][k]
  <2> DEFINE T == {i \in 0..n : i >= k => W[s][i] = W[s][k]}
  <2>1. T \in SUBSET (0..n) /\ 0 \in T
    OBVIOUS
  <2>2. ASSUME NEW i \in 1..n, i - 1 \in T PROVE i \in T
    <3>1. i > k => i \notin s
      BY <1>3
    <3>2. i \notin s => W[s][i] = W[s][i - 1]
      BY <1>2
    <3> QED BY <2>2, <3>1, <3>2
  <2>3. T = 0..n
    <3> HIDE DEF T
    <3> QED BY <2>1, <2>2, UpTo
  <2> QED BY <2>3
\* What is to the left of a position decides on what is there.
<1>4. ASSUME NEW s \in SUBSET (1..n), NEW m \in 1..n
      PROVE  W[s][m - 1] = W[s \ {m}][m - 1]
  <2> DEFINE T == {i \in 0..n : i < m => W[s][i] = W[s \ {m}][i]}
  <2>0. s \ {m} \in SUBSET (1..n)
    OBVIOUS
  <2>1. T \in SUBSET (0..n) /\ 0 \in T
    BY <1>2, <2>0
  <2>2. ASSUME NEW i \in 1..n, i - 1 \in T PROVE i \in T
    <3> SUFFICES ASSUME i < m PROVE W[s][i] = W[s \ {m}][i]
      OBVIOUS
    <3>1. W[s][i - 1] = W[s \ {m}][i - 1] /\ (i \in s <=> i \in s \ {m})
      BY <2>2
    <3>2. W[s][i] = IF i \in s THEN F[i][W[s][i - 1]] ELSE W[s][i - 1]
      BY <1>2
    <3>3. W[s \ {m}][i] = IF i \in s \ {m} THEN F[i][W[s \ {m}][i - 1]] ELSE W[s \ {m}][i - 1]
      BY <1>2, <2>0
    <3> QED BY <3>1, <3>2, <3>3, Zenon
  <2>3. T = 0..n
    <3> HIDE DEF T
    <3> QED BY <2>1, <2>2, UpTo
  <2>4. m - 1 \in 0..n /\ m - 1 < m
    OBVIOUS
  <2> QED BY <2>3, <2>4
<1>5. ASSUME NEW s \in SUBSET (1..n) PROVE f[s] \in V
  <2>1. n \in 0..n
    OBVIOUS
  <2>2. W[s][n] \in V
    BY <1>2, <2>1
  <2> QED BY <2>2
<1>6. ASSUME NEW s \in SUBSET (1..n)
      PROVE  f[s] = IF s = {} THEN base ELSE F[Max(s)][f[s \ {Max(s)}]]
  <2>1. CASE s = {}
    <3>1. W[s][n] = W[s][0]
      BY <1>3, <2>1
    <3> QED BY <1>2, <2>1, <3>1
  <2>2. CASE s # {}
    <3> DEFINE m == Max(s)
    <3>1. m \in s /\ \A i \in s : i <= m
      BY <2>2, HasMax
    <3> HIDE DEF m
    <3>2. W[s][n] = W[s][m] /\ m \in 1..n
      BY <1>3, <3>1
    <3>3. s \ {m} \in SUBSET (1..n) /\ m - 1 \in 0..n /\ \A i \in s \ {m} : i <= m - 1
      BY <3>1
    <3>4. W[s \ {m}][n] = W[s \ {m}][m - 1]
      BY <1>3, <3>3
    <3>5. W[s][m] = F[m][W[s][m - 1]]
      BY <1>2, <3>1
    <3>6. f[s] = W[s][n] /\ f[s \ {m}] = W[s \ {m}][n]
      BY <3>3
    <3>7. f[s] = F[m][f[s \ {m}]]
      BY <1>4, <3>2, <3>4, <3>5, <3>6
    <3> QED BY <2>2, <3>7 DEF m
  <2> QED BY <2>1, <2>2
<1>7. Folding(f, F, n, base, V)
  BY <1>5, <1>6 DEF Folding
<1> HIDE DEF f
<1> QED BY <1>7

\* What such a function says of the positions 1, 2, ... in turn.
Proceeds(f, F, n, base, V) ==
    /\ f[{}] = base
    /\ \A i \in 1..n : f[1..(i - 1)] \in V => f[1..i] = F[i][f[1..(i - 1)]]

\* Those values, which end with the one for all positions.
Reaches(t, f, F, n, base, V) == Steps(t, F, n, base, V) /\ t[n] = f[1..n]

\* From the left to the right: the intermediate values of such a function.
LEMMA FoldSteps ==
    ASSUME NEW n \in Nat, NEW V, NEW base \in V, NEW F, Maps(F, n, V),
           NEW f,
           Proceeds(f, F, n, base, V)
    PROVE  \E t : Reaches(t, f, F, n, base, V)
PROOF
<1> DEFINE t == [i \in 0..n |-> f[1..i]]
           T == {i \in 0..n : t[i] \in V}
<1>0. 1..0 = {} /\ \A i \in 1..n : i - 1 \in 0..n
  OBVIOUS
<1>1. T = 0..n
  <2>1. T \in SUBSET (0..n) /\ 0 \in T
    BY <1>0 DEF Proceeds
  <2>2. ASSUME NEW i \in 1..n, i - 1 \in T PROVE i \in T
    <3>1. f[1..(i - 1)] \in V
      BY <2>2
    <3>2. F[i][f[1..(i - 1)]] \in V
      BY <3>1 DEF Maps
    <3> QED BY <3>1, <3>2 DEF Proceeds
  <2> HIDE DEF T
  <2> QED BY <2>1, <2>2, UpTo
<1>2. \A i \in 0..n : t[i] \in V
  BY <1>1
<1>3. t[0] = base /\ t[n] = f[1..n]
  BY <1>0 DEF Proceeds
<1>4. \A i \in 1..n : t[i] = F[i][t[i - 1]]
  BY <1>0, <1>2 DEF Proceeds
<1>5. Reaches(t, f, F, n, base, V)
  BY <1>2, <1>3, <1>4 DEF Steps, Reaches
<1> HIDE DEF t
<1> QED BY <1>5

\* The sums of the first numbers of a sequence.
Sums(t, seq) ==
    /\ t[0] = 0
    /\ \A i \in 0..Len(seq) : t[i] \in Nat
    /\ \A i \in 1..Len(seq) : t[i] = t[i - 1] + seq[i]

\* A fold with + ends with the last of the sums.
LEMMA FoldSums ==
    ASSUME NEW seq \in Seq(Nat)
    PROVE  \E t : Sums(t, seq) /\ FoldLeft(+, 0, seq) = t[Len(seq)]
PROOF
<1> DEFINE n == Len(seq)
           F == [i \in 1..n |-> [v \in Nat |-> v + seq[i]]]
           Folds(f) == f = [s \in SUBSET DOMAIN seq |->
                               IF s = {} THEN 0
                               ELSE f[s \ {Max(s)}] + seq[Max(s)]]
           f == CHOOSE f : Folds(f)
<1>1. n \in Nat /\ 0 \in Nat /\ DOMAIN seq = 1..n /\ Maps(F, n, Nat)
  BY DEF Maps
<1>2. FoldLeft(+, 0, seq) = f[DOMAIN seq]
  BY DEF FoldLeft, MapThenFoldSet
<1> HIDE DEF n
<1>3. Folds(f)
  <2>1. PICK g : Folding(g, F, n, 0, Nat)
    <3> HIDE DEF F
    <3> QED BY <1>1, FoldingExists
  <2>2. ASSUME NEW s \in SUBSET (1..n), s # {}
        PROVE  g[s] = g[s \ {Max(s)}] + seq[Max(s)]
    <3>1. Max(s) \in 1..n /\ g[s \ {Max(s)}] \in Nat
      BY <1>1, <2>1, <2>2, HasMax DEF Folding
    <3>2. g[s] = F[Max(s)][g[s \ {Max(s)}]]
      BY <2>1, <2>2 DEF Folding
    <3> QED BY <3>1, <3>2
  <2> DEFINE h == [s \in SUBSET (1..n) |-> g[s]]
  <2>3. g[{}] = 0
    BY <2>1 DEF Folding
  <2>4. Folds(h)
    BY <1>1, <2>2, <2>3
  <2> HIDE DEF Folds, h
  <2> QED BY <2>4
<1> HIDE DEF f
<1>4. f[{}] = 0
  BY <1>3
<1>5. ASSUME NEW i \in 1..n, f[1..(i - 1)] \in Nat
      PROVE  f[1..i] = F[i][f[1..(i - 1)]]
  <2>0. 1..i \in SUBSET (1..n) /\ 1..i # {} /\ Max(1..i) = i /\ (1..i) \ {i} = 1..(i - 1)
    BY <1>1, Initial
  <2>1. f[1..i] = f[(1..i) \ {Max(1..i)}] + seq[Max(1..i)]
    BY <1>1, <1>3, <2>0
  <2>2. f[1..i] = f[1..(i - 1)] + seq[i]
    BY <2>0, <2>1
  <2> QED BY <1>5, <2>2
<1>6. PICK t : Reaches(t, f, F, n, 0, Nat)
  <2>1. Proceeds(f, F, n, 0, Nat)
    BY <1>4, <1>5 DEF Proceeds
  <2> HIDE DEF F, Folds
  <2> QED BY <1>1, <2>1, FoldSteps
<1>7. ASSUME NEW i \in 1..n PROVE t[i] = t[i - 1] + seq[i]
  <2>1. i - 1 \in 0..n
    BY <1>1
  <2>2. t[i - 1] \in Nat /\ t[i] = F[i][t[i - 1]]
    BY <1>6, <2>1 DEF Steps, Reaches
  <2> QED BY <2>2
<1>8. Sums(t, seq)
  BY <1>6, <1>7 DEF n, Steps, Reaches, Sums
<1> HIDE DEF F
<1> QED BY <1>1, <1>2, <1>6, <1>8 DEF n, Reaches

-----------------------------------------------------------------------------
(* TitleData.Match *)

\* What the loop of Match has found after each endpoint.
Finds(t, title, u) ==
    /\ t[0] = NoEndpoint
    /\ \A i \in 1..Len(title) :
           t[i] = IF t[i - 1].hostType # "fqdn" /\ EndpointMatches(title[i], u)
                  THEN title[i] ELSE t[i - 1]

\* What Match returns is what it has found after the last endpoint.
LEMMA FoldFinds ==
    ASSUME NEW S, NEW title \in Seq(S), NEW u
    PROVE  \E t : Finds(t, title, u) /\ TitleMatch(title, u) = t[Len(title)]
PROOF
<1> DEFINE n == Len(title)
           V == S \cup {NoEndpoint}
           Next1(best, e) == IF best.hostType # "fqdn" /\ EndpointMatches(e, u)
                             THEN e ELSE best
           F == [i \in 1..n |-> [v \in V |-> Next1(v, title[i])]]
           Folds(f) == f = [s \in SUBSET DOMAIN title |->
                               IF s = {} THEN NoEndpoint
                               ELSE Next1(f[s \ {Max(s)}], title[Max(s)])]
           f == CHOOSE f : Folds(f)
<1>1. n \in Nat /\ NoEndpoint \in V /\ DOMAIN title = 1..n
  OBVIOUS
<1>2. Maps(F, n, V)
  <2>1. \A i \in 1..n : title[i] \in V
    OBVIOUS
  <2>2. \A i \in 1..n, v \in V : Next1(v, title[i]) \in V
    BY <2>1
  <2> HIDE DEF Next1
  <2> QED BY <2>2 DEF Maps
<1>3. TitleMatch(title, u) = f[DOMAIN title]
  BY DEF TitleMatch, FoldLeft, MapThenFoldSet
<1> HIDE DEF n, Next1, V
<1>4. Folds(f)
  <2>1. PICK g : Folding(g, F, n, NoEndpoint, V)
    <3> HIDE DEF F
    <3> QED BY <1>1, <1>2, FoldingExists
  <2>2. ASSUME NEW s \in SUBSET (1..n), s # {}
        PROVE  g[s] = Next1(g[s \ {Max(s)}], title[Max(s)])
    <3>1. Max(s) \in 1..n /\ g[s \ {Max(s)}] \in V
      BY <1>1, <2>1, <2>2, HasMax DEF Folding
    <3>2. g[s] = F[Max(s)][g[s \ {Max(s)}]]
      BY <2>1, <2>2 DEF Folding
    <3> QED BY <3>1, <3>2
  <2> DEFINE h == [s \in SUBSET (1..n) |-> g[s]]
  <2>3. g[{}] = NoEndpoint
    BY <2>1 DEF Folding
  <2>4. Folds(h)
    BY <1>1, <2>2, <2>3
  <2> HIDE DEF Folds, h
  <2> QED BY <2>4
<1> HIDE DEF f
<1>5. f[{}] = NoEndpoint
  BY <1>4
<1>6. ASSUME NEW i \in 1..n, f[1..(i - 1)] \in V
      PROVE  f[1..i] = F[i][f[1..(i - 1)]]
  <2>0. 1..i \in SUBSET (1..n) /\ 1..i # {} /\ Max(1..i) = i /\ (1..i) \ {i} = 1..(i - 1)
    BY <1>1, Initial
  <2>1. f[1..i] = Next1(f[(1..i) \ {Max(1..i)}], title[Max(1..i)])
    BY <1>1, <1>4, <2>0
  <2>2. f[1..i] = Next1(f[1..(i - 1)], title[i])
    BY <2>0, <2>1
  <2> QED BY <1>6, <2>2
<1>7. PICK t : Reaches(t, f, F, n, NoEndpoint, V)
  <2>1. Proceeds(f, F, n, NoEndpoint, V)
    BY <1>5, <1>6 DEF Proceeds
  <2> HIDE DEF F, Folds
  <2> QED BY <1>1, <1>2, <2>1, FoldSteps
<1>8. ASSUME NEW i \in 1..n PROVE t[i] = Next1(t[i - 1], title[i])
  <2>1. i - 1 \in 0..n
    BY <1>1
  <2>2. t[i - 1] \in V /\ t[i] = F[i][t[i - 1]]
    BY <1>7, <2>1 DEF Steps, Reaches
  <2> QED BY <2>2
<1>9. Finds(t, title, u)
  BY <1>7, <1>8 DEF n, Steps, Reaches, Finds, Next1
<1> HIDE DEF F
<1> QED BY <1>1, <1>3, <1>7, <1>9 DEF n, Reaches

\* For any title and any URL, the loop finds the first endpoint that names the
\* host itself, whatever is listed after it, and without one the last of those
\* that cover the host.  Induction over the endpoints: what was found after i of
\* them is what the statement says of those i.
\* About: TitleData.Match and Endpoint.Match, which decide who gets a token.
THEOREM TitleMatchResult ==
    ASSUME NEW S, NEW title \in Seq(S), NEW u
    PROVE  TitleMatch(title, u) = FirstFqdnElseLast(title, u)
PROOF
<1> DEFINE n == Len(title)
           M(i) == {j \in 1..i : EndpointMatches(title[j], u)}
           X(i) == {j \in M(i) : title[j].hostType = "fqdn"}
<1>1. PICK t : Finds(t, title, u) /\ TitleMatch(title, u) = t[n]
  BY FoldFinds
<1> DEFINE Exactly(i) == \E m \in X(i) : t[i] = title[m] /\ \A j \in X(i) : m <= j
           Roughly(i) == X(i) = {} /\ \E m \in M(i) : t[i] = title[m]
                                                      /\ \A j \in M(i) : j <= m
           Nothing(i) == M(i) = {} /\ t[i] = NoEndpoint
           T == {i \in 0..n : Exactly(i) \/ Roughly(i) \/ Nothing(i)}
<1>2. n \in Nat /\ DOMAIN title = 1..n /\ n \in 0..n
  OBVIOUS
<1>3. T \in SUBSET (0..n) /\ 0 \in T
  BY <1>1, <1>2 DEF Finds
<1> HIDE DEF n
<1>4. ASSUME NEW i \in 1..n, i - 1 \in T PROVE i \in T
  <2>1. t[i] = IF t[i - 1].hostType # "fqdn" /\ EndpointMatches(title[i], u)
               THEN title[i] ELSE t[i - 1]
    BY <1>1 DEF Finds, n
  <2>2. M(i) = IF EndpointMatches(title[i], u) THEN M(i - 1) \cup {i} ELSE M(i - 1)
    BY <1>2
  <2>3. X(i) = IF i \in M(i) /\ title[i].hostType = "fqdn"
               THEN X(i - 1) \cup {i} ELSE X(i - 1)
    BY <1>2
  <2>4. \A j \in M(i - 1) : j < i /\ j \in Nat
    BY <1>2
  <2>5. X(i - 1) \subseteq M(i - 1) /\ X(i) \subseteq M(i) /\ \A m \in X(i - 1) : title[m].hostType = "fqdn"
    OBVIOUS
  <2>6. i \in M(i) <=> EndpointMatches(title[i], u)
    BY <1>2
  <2> DEFINE Mi == M(i)  Mp == M(i - 1)  Xi == X(i)  Xp == X(i - 1)
  <2> HIDE DEF M, X
  <2>7. CASE Exactly(i - 1)
    <3>1. PICK m \in X(i - 1) : t[i - 1] = title[m] /\ \A j \in X(i - 1) : m <= j
      BY <2>7
    <3>2. t[i] = title[m] /\ m \in X(i) /\ \A j \in X(i) : m <= j
      BY <2>1, <2>3, <2>4, <2>5, <3>1
    <3> QED BY <3>2
  <2>8. CASE Roughly(i - 1) \/ Nothing(i - 1)
    <3>1. t[i - 1].hostType # "fqdn" /\ X(i - 1) = {}
      <4>1. CASE Roughly(i - 1)
        <5>1. PICK m \in M(i - 1) : t[i - 1] = title[m]
          BY <4>1
        <5>2. m \notin X(i - 1)
          BY <4>1
        <5> QED BY <4>1, <5>1, <5>2 DEF X
      <4>2. CASE Nothing(i - 1)
        BY <2>5, <4>2 DEF NoEndpoint
      <4> QED BY <2>8, <4>1, <4>2
    <3>2. CASE EndpointMatches(title[i], u)
      <4>1. t[i] = title[i] /\ i \in M(i) /\ \A j \in M(i) : j <= i
        BY <2>1, <2>2, <2>4, <3>1, <3>2
      <4>2. CASE title[i].hostType = "fqdn"
        <5>1. X(i) = {i}
          BY <2>3, <3>1, <4>1, <4>2
        <5>2. Exactly(i)
          BY <4>1, <5>1
        <5> QED BY <5>2
      <4>3. CASE title[i].hostType # "fqdn"
        <5>1. X(i) = {}
          BY <2>3, <3>1, <4>3
        <5>2. Roughly(i)
          BY <4>1, <5>1
        <5> QED BY <5>2
      <4> QED BY <4>2, <4>3
    <3>3. CASE ~EndpointMatches(title[i], u)
      <4>1. t[i] = t[i - 1] /\ M(i) = M(i - 1) /\ X(i) = X(i - 1)
        BY <2>1, <2>2, <2>3, <2>6, <3>3
      <4> QED BY <2>8, <4>1
    <3> QED BY <3>2, <3>3
  <2> QED BY <1>4, <2>7, <2>8
<1>5. n \in T
  <2>1. T = 0..n
    <3> HIDE DEF T
    <3> QED BY <1>2, <1>3, <1>4, UpTo
  <2> QED BY <1>2, <2>1
<1>6. M(n) = {i \in DOMAIN title : EndpointMatches(title[i], u)}
  BY <1>2
<1>7. \A i \in M(n) : i \in Nat
  BY <1>2
<1> DEFINE Matching == M(n)  Exact == X(n)
<1>8. FirstFqdnElseLast(title, u) = CASE X(n) # {} -> title[Min(X(n))]
                              [] X(n) = {} /\ M(n) # {} -> title[Max(M(n))]
                              [] OTHER -> NoEndpoint
  BY <1>6 DEF FirstFqdnElseLast
<1>9. \A i \in X(n) : i \in M(n)
  OBVIOUS
<1> HIDE DEF M, X
<1>10. CASE Exactly(n)
  <2>1. PICK m \in X(n) : t[n] = title[m] /\ \A j \in X(n) : m <= j
    BY <1>10
  <2>2. Min(X(n)) = m
    BY <1>7, <1>9, <2>1 DEF Min
  <2>3. X(n) # {}
    BY <2>1
  <2> QED BY <1>1, <1>8, <2>1, <2>2, <2>3
<1>11. CASE Roughly(n)
  <2>1. PICK m \in M(n) : t[n] = title[m] /\ \A j \in M(n) : j <= m
    BY <1>11
  <2>2. Max(M(n)) = m
    BY <1>7, <2>1 DEF Max
  <2>3. X(n) = {} /\ M(n) # {}
    BY <1>11, <2>1
  <2> QED BY <1>1, <1>8, <2>1, <2>2, <2>3
<1>12. CASE Nothing(n)
  <2>1. X(n) = {} /\ M(n) = {}
    BY <1>9, <1>12
  <2> QED BY <1>1, <1>8, <1>12, <2>1
<1> QED BY <1>5, <1>10, <1>11, <1>12

-----------------------------------------------------------------------------
(* The pages of achievements *)

\* An entry of a page.
KeyOrNone == Keys \cup {NoKey}

\* The positions up to m at which a key comes for the first time.
Firsts(e, m) == {p \in 1..m : \A q \in 1..(p - 1) : e[q] # e[p]}

\* The keys that were kept are those of the first m entries.
Collects(kept, e, m) ==
    /\ kept \in Seq(Keys)
    /\ \A p \in 1..m : e[p] = NoKey \/ \E i \in 1..Len(kept) : kept[i] = e[p]
    /\ \A i \in 1..Len(kept) : \E p \in Firsts(e, m) : e[p] = kept[i]
    /\ \A i, j \in 1..Len(kept) : \A p, q \in Firsts(e, m) :
           i < j /\ e[p] = kept[i] /\ e[q] = kept[j] => p < q

\* What All does with one entry.
Keep(kept, key) ==
    IF key = NoKey \/ Contains(kept, key) THEN kept ELSE Append(kept, key)

\* One more entry: All keeps it if its key is new.
LEMMA KeepCollects ==
    ASSUME NEW e \in Seq(KeyOrNone), NEW m \in 1..Len(e), NEW kept,
           Collects(kept, e, m - 1)
    PROVE  Collects(Keep(kept, e[m]), e, m)
PROOF
<1> DEFINE n == Len(kept)
<1>1. kept \in Seq(Keys) /\ n \in Nat /\ m \in Nat /\ 1..m = (1..(m - 1)) \cup {m}
  BY DEF Collects
<1>2. ASSUME NEW p \in Firsts(e, m) PROVE p \in Firsts(e, m - 1) \/ p = m
  BY <1>1 DEF Firsts
<1>3. ASSUME NEW p \in Firsts(e, m - 1) PROVE p \in Firsts(e, m) /\ p \in 1..(m - 1)
  BY <1>1 DEF Firsts
<1>4. CASE e[m] = NoKey \/ Contains(kept, e[m])
  <2>1. Keep(kept, e[m]) = kept
    BY <1>4 DEF Keep
  <2>2. \A p \in 1..m : e[p] = NoKey \/ \E i \in 1..n : kept[i] = e[p]
    BY <1>1, <1>4 DEF Collects, Contains
  <2>3. \A i \in 1..n : \E p \in Firsts(e, m) : e[p] = kept[i]
    BY <1>3 DEF Collects
  <2>4. ASSUME NEW i \in 1..n, NEW p \in Firsts(e, m), e[p] = kept[i]
        PROVE  p \in Firsts(e, m - 1)
    <3>1. PICK q \in Firsts(e, m - 1) : e[q] = kept[i]
      BY DEF Collects
    <3>2. q \in 1..(m - 1)
      BY <1>3
    <3>3. p # m
      BY <1>1, <2>4, <3>1, <3>2 DEF Firsts
    <3> QED BY <1>2, <3>3
  <2>5. \A i, j \in 1..n : \A p, q \in Firsts(e, m) :
            i < j /\ e[p] = kept[i] /\ e[q] = kept[j] => p < q
    BY <2>4 DEF Collects
  <2> QED BY <1>1, <2>1, <2>2, <2>3, <2>5 DEF Collects
<1>5. CASE e[m] # NoKey /\ ~Contains(kept, e[m])
  <2> DEFINE k == Append(kept, e[m])
  <2>0. e[m] \in Keys
    BY <1>5 DEF KeyOrNone
  <2>1. Keep(kept, e[m]) = k
    BY <1>5 DEF Keep
  <2>2. /\ k \in Seq(Keys) /\ Len(k) = n + 1 /\ k[n + 1] = e[m]
        /\ \A i \in 1..n : k[i] = kept[i]
    BY <1>1, <2>0, AppendProperties
  <2> HIDE DEF k
  <2>3. m \in Firsts(e, m)
    <3>1. \A q \in 1..(m - 1) : e[q] # e[m]
      BY <1>5 DEF Collects, Contains
    <3> QED BY <1>1, <3>1 DEF Firsts
  <2>4. \A p \in 1..m : e[p] = NoKey \/ \E i \in 1..Len(k) : k[i] = e[p]
    <3> SUFFICES ASSUME NEW p \in 1..m, e[p] # NoKey
                 PROVE  \E i \in 1..(n + 1) : k[i] = e[p]
      BY <2>2
    <3>1. CASE p = m
      BY <1>1, <2>2, <3>1
    <3>2. CASE p \in 1..(m - 1)
      <4>1. PICK i \in 1..n : kept[i] = e[p]
        BY <3>2 DEF Collects
      <4> QED BY <1>1, <2>2, <4>1
    <3> QED BY <1>1, <3>1, <3>2
  <2>5. ASSUME NEW i \in 1..Len(k) PROVE \E p \in Firsts(e, m) : e[p] = k[i]
    <3>1. CASE i = n + 1
      BY <2>2, <2>3, <3>1
    <3>2. CASE i \in 1..n
      <4>1. PICK p \in Firsts(e, m - 1) : e[p] = kept[i]
        BY <3>2 DEF Collects
      <4> QED BY <1>3, <2>2, <3>2, <4>1
    <3> QED BY <1>1, <2>2, <3>1, <3>2
  <2>6. ASSUME NEW i \in 1..Len(k), NEW j \in 1..Len(k),
               NEW p \in Firsts(e, m), NEW q \in Firsts(e, m),
               i < j, e[p] = k[i], e[q] = k[j]
        PROVE  p < q
    <3>1. i \in 1..n /\ k[i] = kept[i]
      BY <1>1, <2>2, <2>6
    <3>2. p # m
      BY <1>5, <2>6, <3>1 DEF Contains
    <3>3. p \in Firsts(e, m - 1) /\ p \in 1..(m - 1)
      BY <1>2, <1>3, <3>2
    <3>4. CASE q = m
      BY <1>1, <3>3, <3>4
    <3>5. CASE q # m
      <4>1. q \in Firsts(e, m - 1)
        BY <1>2, <3>5
      <4>2. j # n + 1
        <5> SUFFICES ASSUME j = n + 1 PROVE FALSE
          OBVIOUS
        <5>1. e[q] = e[m] /\ q \in 1..(m - 1)
          BY <1>3, <2>2, <2>6, <4>1
        <5> QED BY <2>3, <5>1 DEF Firsts
      <4>3. j \in 1..n /\ k[j] = kept[j]
        BY <1>1, <2>2, <4>2
      <4> QED BY <2>6, <3>1, <3>3, <4>1, <4>3 DEF Collects
    <3> QED BY <3>4, <3>5
  <2> QED BY <2>1, <2>2, <2>4, <2>5, <2>6 DEF Collects
<1> QED BY <1>4, <1>5

\* What the loop of All has kept after each entry of a page.
Keeps(t, items) ==
    /\ t[0] = result
    /\ \A i \in 1..Len(items) : t[i] = Keep(t[i - 1], items[i])

\* What All keeps of a page is what it has kept after the last entry.
LEMMA FoldKept ==
    ASSUME NEW items \in Seq(KeyOrNone), result \in Seq(Keys)
    PROVE  \E t : Keeps(t, items) /\ Kept(items) = t[Len(items)]
PROOF
<1> DEFINE n == Len(items)
           V == Seq(Keys)
           F == [i \in 1..n |-> [v \in V |-> Keep(v, items[i])]]
           Folds(f) == f = [s \in SUBSET DOMAIN items |->
                               IF s = {} THEN result
                               ELSE Keep(f[s \ {Max(s)}], items[Max(s)])]
           f == CHOOSE f : Folds(f)
<1>1. n \in Nat /\ result \in V /\ DOMAIN items = 1..n
  OBVIOUS
<1>2. Maps(F, n, V)
  <2>1. \A i \in 1..n : items[i] \in KeyOrNone
    OBVIOUS
  <2>2. \A i \in 1..n, v \in V : Keep(v, items[i]) \in V
    BY <2>1 DEF Keep, KeyOrNone
  <2> HIDE DEF V
  <2> QED BY <2>2 DEF Maps
<1>3. Kept(items) = f[DOMAIN items]
  BY DEF Kept, Keep, FoldLeft, MapThenFoldSet
<1> HIDE DEF n, V
<1>4. Folds(f)
  <2>1. PICK g : Folding(g, F, n, result, V)
    <3> HIDE DEF F
    <3> QED BY <1>1, <1>2, FoldingExists
  <2>2. ASSUME NEW s \in SUBSET (1..n), s # {}
        PROVE  g[s] = Keep(g[s \ {Max(s)}], items[Max(s)])
    <3>1. Max(s) \in 1..n /\ g[s \ {Max(s)}] \in V
      BY <1>1, <2>1, <2>2, HasMax DEF Folding
    <3>2. g[s] = F[Max(s)][g[s \ {Max(s)}]]
      BY <2>1, <2>2 DEF Folding
    <3> QED BY <3>1, <3>2
  <2> DEFINE h == [s \in SUBSET (1..n) |-> g[s]]
  <2>3. g[{}] = result
    BY <2>1 DEF Folding
  <2>4. Folds(h)
    BY <1>1, <2>2, <2>3
  <2> HIDE DEF Folds, h
  <2> QED BY <2>4
<1> HIDE DEF f
<1>5. f[{}] = result
  BY <1>4
<1>6. ASSUME NEW i \in 1..n, f[1..(i - 1)] \in V
      PROVE  f[1..i] = F[i][f[1..(i - 1)]]
  <2>0. 1..i \in SUBSET (1..n) /\ 1..i # {} /\ Max(1..i) = i /\ (1..i) \ {i} = 1..(i - 1)
    BY <1>1, Initial
  <2>1. f[1..i] = Keep(f[(1..i) \ {Max(1..i)}], items[Max(1..i)])
    BY <1>1, <1>4, <2>0
  <2>2. f[1..i] = Keep(f[1..(i - 1)], items[i])
    BY <2>0, <2>1
  <2> QED BY <1>6, <2>2
<1>7. PICK t : Reaches(t, f, F, n, result, V)
  <2>1. Proceeds(f, F, n, result, V)
    BY <1>5, <1>6 DEF Proceeds
  <2> HIDE DEF F, Folds
  <2> QED BY <1>1, <1>2, <2>1, FoldSteps
<1>8. ASSUME NEW i \in 1..n PROVE t[i] = Keep(t[i - 1], items[i])
  <2>1. i - 1 \in 0..n
    BY <1>1
  <2>2. t[i - 1] \in V /\ t[i] = F[i][t[i - 1]]
    BY <1>7, <2>1 DEF Steps, Reaches
  <2> QED BY <2>2
<1>9. Keeps(t, items)
  BY <1>7, <1>8 DEF n, Steps, Reaches, Keeps
<1> HIDE DEF F
<1> QED BY <1>1, <1>3, <1>7, <1>9 DEF n, Reaches

\* One more page: what was collected of the entries before it continues with
\* what its own entries add.
LEMMA KeptCollects ==
    ASSUME NEW e \in Seq(KeyOrNone), NEW items \in Seq(KeyOrNone),
           Collects(result, e, Len(e))
    PROVE  Collects(Kept(items), e \o items, Len(e \o items))
PROOF
<1> DEFINE a == Len(e)  n == Len(items)  c == e \o items
<1>0. result \in Seq(Keys)
  BY DEF Collects
<1>1. PICK t : Keeps(t, items) /\ Kept(items) = t[n]
  BY <1>0, FoldKept
<1>2. /\ a \in Nat /\ n \in Nat /\ c \in Seq(KeyOrNone) /\ Len(c) = a + n
      /\ \A i \in 1..a : c[i] = e[i]
      /\ \A i \in 1..n : c[a + i] = items[i]
  BY ConcatProperties
<1> HIDE DEF c, a, n
<1>3. Collects(result, c, a)
  <2>1. Firsts(c, a) = Firsts(e, a)
    <3>1. ASSUME NEW p \in 1..a
          PROVE  (\A q \in 1..(p - 1) : c[q] # c[p]) <=> (\A q \in 1..(p - 1) : e[q] # e[p])
      <4>1. \A q \in 1..(p - 1) : q \in 1..a
        BY <1>2
      <4>2. c[p] = e[p] /\ \A q \in 1..(p - 1) : c[q] = e[q]
        BY <1>2, <4>1
      <4> QED BY <4>2
    <3> QED BY <3>1, Zenon DEF Firsts
  <2>2. \A p \in Firsts(e, a) : p \in 1..a /\ c[p] = e[p]
    BY <1>2 DEF Firsts
  <2>3. Collects(result, e, a)
    BY DEF a
  <2>4. \A p \in 1..a : c[p] = NoKey \/ \E i \in 1..Len(result) : result[i] = c[p]
    BY <1>2, <2>3 DEF Collects
  <2>5. \A i \in 1..Len(result) : \E p \in Firsts(c, a) : c[p] = result[i]
    BY <2>1, <2>2, <2>3 DEF Collects
  <2>6. ASSUME NEW i \in 1..Len(result), NEW j \in 1..Len(result),
               NEW p \in Firsts(c, a), NEW q \in Firsts(c, a),
               i < j, c[p] = result[i], c[q] = result[j]
        PROVE  p < q
    <3>1. p \in Firsts(e, a) /\ q \in Firsts(e, a) /\ e[p] = result[i] /\ e[q] = result[j]
      BY <2>1, <2>2, <2>6
    <3> QED BY <2>3, <2>6, <3>1 DEF Collects
  <2> QED BY <1>0, <2>4, <2>5, <2>6 DEF Collects
<1> DEFINE T == {i \in 0..n : Collects(t[i], c, a + i)}
<1>4. T = 0..n
  <2>1. T \in SUBSET (0..n) /\ 0 \in T
    BY <1>1, <1>2, <1>3 DEF Keeps
  <2>2. ASSUME NEW i \in 1..n, i - 1 \in T PROVE i \in T
    <3>1. Collects(t[i - 1], c, (a + i) - 1) /\ a + i \in 1..Len(c)
      <4>1. a + (i - 1) = (a + i) - 1
        BY <1>2
      <4> QED BY <1>2, <2>2, <4>1
    <3>2. Collects(Keep(t[i - 1], c[a + i]), c, a + i)
      BY <1>2, <3>1, KeepCollects
    <3>3. t[i] = Keep(t[i - 1], c[a + i])
      BY <1>1, <1>2 DEF Keeps, n
    <3> QED BY <3>2, <3>3
  <2> HIDE DEF T
  <2> QED BY <1>2, <2>1, <2>2, UpTo
<1>5. Collects(t[n], c, a + n)
  BY <1>2, <1>4
<1> QED BY <1>1, <1>2, <1>5 DEF c

\* The sequences that FlattenSeq has joined after each one.
Joins(t, seqs) ==
    /\ t[0] = <<>>
    /\ \A i \in 0..Len(seqs) : t[i] \in Seq(KeyOrNone)
    /\ \A i \in 1..Len(seqs) : t[i] = t[i - 1] \o seqs[i]

\* What FlattenSeq returns is what it has joined after the last sequence.
LEMMA FlattenJoins ==
    ASSUME NEW seqs \in Seq(Seq(KeyOrNone))
    PROVE  \E t : Joins(t, seqs) /\ FlattenSeq(seqs) = t[Len(seqs)]
PROOF
<1> DEFINE n == Len(seqs)
           V == Seq(KeyOrNone)
           F == [i \in 1..n |-> [v \in V |-> v \o seqs[i]]]
<1>1. n \in Nat /\ <<>> \in V /\ \A i \in 1..n : seqs[i] \in V
  OBVIOUS
<1>2. Maps(F, n, V)
  <2>1. \A i \in 1..n, v \in V : v \o seqs[i] \in V
    BY <1>1, ConcatProperties
  <2> HIDE DEF V
  <2> QED BY <2>1 DEF Maps
<1>3. PICK t : Steps(t, F, n, <<>>, V)
  <2> HIDE DEF F, n, V
  <2> QED BY <1>1, <1>2, StepsExist
<1>4. Joins(t, seqs)
  <2>1. ASSUME NEW i \in 1..n PROVE t[i] = t[i - 1] \o seqs[i]
    <3>1. i - 1 \in 0..n
      BY <1>1
    <3>2. t[i - 1] \in V /\ t[i] = F[i][t[i - 1]]
      BY <1>3, <3>1 DEF Steps
    <3> HIDE DEF V
    <3> QED BY <3>2
  <2> HIDE DEF F
  <2> QED BY <1>3, <2>1 DEF Steps, Joins
<1> HIDE DEF F
<1>5. CASE n = 0
  <2>1. FlattenSeq(seqs) = <<>>
    BY <1>5 DEF FlattenSeq
  <2> QED BY <1>4, <1>5, <2>1 DEF Joins
<1>6. CASE n # 0
  <2> DEFINE Flattens(f) == f = [i \in 1..n |-> IF i = 1 THEN seqs[i] ELSE f[i - 1] \o seqs[i]]
             flatten == CHOOSE f : Flattens(f)
             g == [i \in 1..n |-> t[i]]
  <2>1. FlattenSeq(seqs) = flatten[n]
    BY <1>6 DEF FlattenSeq
  <2>2. t[1] = seqs[1]
    <3>1. 1 \in 1..n /\ seqs[1] \in V
      BY <1>1, <1>6
    <3>2. <<>> \o seqs[1] = seqs[1]
      BY <3>1, ConcatEmptySeq
    <3>3. t[1] = t[1 - 1] \o seqs[1] /\ t[0] = <<>>
      BY <1>4, <3>1 DEF Joins, n
    <3>4. 1 - 1 = 0
      OBVIOUS
    <3> QED BY <3>2, <3>3, <3>4, Zenon
  <2> HIDE DEF n
  <2>3. Flattens(g)
    <3>1. ASSUME NEW i \in 1..n, i # 1 PROVE t[i] = g[i - 1] \o seqs[i]
      <4>1. i - 1 \in 1..n
        BY <1>1, <3>1
      <4>2. t[i] = t[i - 1] \o seqs[i]
        BY <1>4 DEF Joins, n
      <4> QED BY <4>1, <4>2
    <3> QED BY <2>2, <3>1
  <2>4. Flattens(flatten)
    <3> HIDE DEF g, Flattens
    <3> QED BY <2>3
  <2> HIDE DEF flatten
  <2> DEFINE T == {i \in 0..n : i # 0 => flatten[i] = t[i]}
  <2>5. T = 0..n
    <3>1. T \in SUBSET (0..n) /\ 0 \in T
      BY <1>1
    <3>2. ASSUME NEW i \in 1..n, i - 1 \in T PROVE i \in T
      <4>1. flatten[i] = IF i = 1 THEN seqs[i] ELSE flatten[i - 1] \o seqs[i]
        BY <2>4
      <4>2. CASE i = 1
        BY <2>2, <4>1, <4>2
      <4>3. CASE i # 1
        <5>1. flatten[i - 1] = t[i - 1]
          BY <3>2, <4>3
        <5>2. t[i] = t[i - 1] \o seqs[i]
          BY <1>4 DEF Joins, n
        <5>3. flatten[i] = t[i]
          BY <4>1, <4>3, <5>1, <5>2, Zenon
        <5> QED BY <5>3
      <4> QED BY <4>2, <4>3
    <3> HIDE DEF T
    <3> QED BY <1>1, <3>1, <3>2, UpTo
  <2>6. n \in 0..n
    BY <1>1
  <2>7. flatten[n] = t[n]
    BY <1>6, <2>5, <2>6
  <2> QED BY <1>4, <2>1, <2>7 DEF n
<1> QED BY <1>5, <1>6

\* One more sequence is joined at the end.
LEMMA FlattenAppend ==
    ASSUME NEW seqs \in Seq(Seq(KeyOrNone)), NEW last \in Seq(KeyOrNone)
    PROVE  /\ FlattenSeq(seqs) \in Seq(KeyOrNone)
           /\ FlattenSeq(Append(seqs, last)) = FlattenSeq(seqs) \o last
PROOF
<1> DEFINE n == Len(seqs)  more == Append(seqs, last)
<1>1. PICK t : Joins(t, seqs) /\ FlattenSeq(seqs) = t[n]
  BY FlattenJoins
<1>2. /\ more \in Seq(Seq(KeyOrNone)) /\ n \in Nat /\ Len(more) = n + 1
      /\ \A i \in 1..n : more[i] = seqs[i]
      /\ more[n + 1] = last
  BY AppendProperties
<1> HIDE DEF more
<1>3. PICK u : Joins(u, more) /\ FlattenSeq(more) = u[n + 1]
  BY <1>2, FlattenJoins
<1> HIDE DEF n
<1> DEFINE T == {i \in 0..n : u[i] = t[i]}
<1>4. T = 0..n
  <2>1. T \in SUBSET (0..n) /\ 0 \in T
    <3>1. t[0] = <<>> /\ u[0] = <<>>
      BY <1>1, <1>3, Zenon DEF Joins
    <3> QED BY <1>2, <3>1
  <2>2. ASSUME NEW i \in 1..n, i - 1 \in T PROVE i \in T
    <3>1. t[i] = t[i - 1] \o seqs[i]
      BY <1>1 DEF Joins, n
    <3>2. u[i] = u[i - 1] \o more[i]
      <4>1. i \in 1..Len(more)
        BY <1>2
      <4> QED BY <1>3, <4>1, Zenon DEF Joins
    <3>3. u[i] = t[i]
      <4>1. u[i - 1] = t[i - 1] /\ more[i] = seqs[i]
        BY <1>2, <2>2
      <4> QED BY <3>1, <3>2, <4>1, Zenon
    <3> QED BY <3>3
  <2> HIDE DEF T
  <2> QED BY <1>2, <2>1, <2>2, UpTo
<1>5. u[n] = t[n] /\ n \in 0..n /\ n + 1 \in 1..(n + 1) /\ (n + 1) - 1 = n
  BY <1>2, <1>4
<1>6. u[n + 1] = u[n] \o last
  <2>1. u[n + 1] = u[(n + 1) - 1] \o more[n + 1]
    BY <1>2, <1>3, <1>5 DEF Joins
  <2> QED BY <1>2, <1>5, <2>1
<1>7. t[n] \in Seq(KeyOrNone)
  BY <1>1, <1>5 DEF Joins, n
<1> QED BY <1>1, <1>3, <1>5, <1>6, <1>7 DEF more

\* What a page says of the next one.
Token == ContinuationTokens \cup {NoToken}

PageType == [items : Seq(KeyOrNone), next : Token]

\* What All has is what the pages that it has read make, up to the one without
\* a token.
PagingInv ==
    /\ sent \in Seq(PageType)
    /\ paging # "failed" => Collects(result, Entries, Len(Entries))
    /\ paging = "done" =>
          sent # <<>> /\ Last(sent).next = NoToken /\ Len(result) <= maxAchievements
    /\ paging = "failed" => result = <<>>

\* At first nothing is collected, of nothing.
LEMMA PagingInitInv == PagingInit => PagingInv
PROOF
<1> SUFFICES ASSUME PagingInit PROVE PagingInv
  OBVIOUS
<1>1. sent = <<>> /\ result = <<>> /\ paging = "idle"
  BY DEF PagingInit
<1>2. Entries = <<>>
  BY <1>1 DEF Entries, FlattenSeq
<1>3. Collects(<<>>, <<>>, 0)
  BY DEF Collects, Firsts
<1> QED BY <1>1, <1>2, <1>3 DEF PagingInv

\* The entries of each page.
ItemsOf(pagesRead) == [i \in DOMAIN pagesRead |-> pagesRead[i].items]

\* The entries of the pages, page by page.
LEMMA ItemsType ==
    ASSUME NEW read \in Seq(PageType)
    PROVE  /\ ItemsOf(read) \in Seq(Seq(KeyOrNone))
           /\ Len(ItemsOf(read)) = Len(read)
           /\ \A i \in 1..Len(read) : ItemsOf(read)[i] = read[i].items
PROOF
<1> DEFINE V == Seq(KeyOrNone)
<1>1. \A i \in 1..Len(read) : read[i].items \in V
  <2>1. \A p \in PageType : p.items \in V
    BY DEF PageType
  <2>2. \A i \in 1..Len(read) : read[i] \in PageType
    OBVIOUS
  <2> HIDE DEF V
  <2> QED BY <2>1, <2>2
<1> HIDE DEF V
<1>2. ItemsOf(read) \in [1..Len(read) -> V] /\ Len(read) \in Nat
  BY <1>1 DEF ItemsOf
<1>3. ItemsOf(read) \in Seq(V)
  BY <1>2, IsASeq
<1>4. Len(ItemsOf(read)) = Len(read)
  BY <1>2, <1>3
<1> QED BY <1>2, <1>3, <1>4 DEF ItemsOf, V

\* A page adds its entries to those that were sent before.
LEMMA EntriesGrow ==
    ASSUME sent \in Seq(PageType), NEW page \in PageType, sent' = Append(sent, page)
    PROVE  /\ Entries \in Seq(KeyOrNone)
           /\ Entries' = Entries \o page.items
           /\ sent' \in Seq(PageType) /\ sent' # <<>> /\ Last(sent') = page
PROOF
<1> DEFINE V == Seq(KeyOrNone)  lists == ItemsOf(sent)  more == ItemsOf(sent')
<1>1. lists \in Seq(V) /\ Len(lists) = Len(sent) /\ page.items \in V
  BY ItemsType DEF PageType
<1>2. /\ sent' \in Seq(PageType) /\ sent' # <<>> /\ Last(sent') = page
      /\ Len(sent) \in Nat /\ Len(sent') = Len(sent) + 1
      /\ \A i \in 1..Len(sent) : sent'[i] = sent[i]
      /\ sent'[Len(sent) + 1] = page
  BY AppendProperties DEF Last
<1>3. /\ more \in Seq(V) /\ Len(more) = Len(sent) + 1
      /\ \A i \in 1..(Len(sent) + 1) : more[i] = sent'[i].items
  <2>1. /\ more \in Seq(V) /\ Len(more) = Len(sent')
        /\ \A i \in 1..Len(sent') : more[i] = sent'[i].items
    BY <1>2, ItemsType
  <2> HIDE DEF more, V
  <2> QED BY <1>2, <2>1
<1>4. ASSUME NEW i \in 1..Len(sent) PROVE lists[i] = more[i]
  <2>1. lists[i] = sent[i].items
    BY ItemsType
  <2>2. i \in 1..(Len(sent) + 1)
    BY <1>2
  <2> HIDE DEF lists, more
  <2> QED BY <1>2, <1>3, <2>1, <2>2
<1>5. more[Len(sent) + 1] = page.items
  <2>1. Len(sent) + 1 \in 1..(Len(sent) + 1)
    BY <1>2
  <2> HIDE DEF more
  <2> QED BY <1>2, <1>3, <2>1
<1>6. Entries = FlattenSeq(lists) /\ Entries' = FlattenSeq(more)
  BY DEF Entries, ItemsOf
<1> HIDE DEF lists, more, V
<1>7. more = Append(lists, page.items)
  <2>1. /\ Append(lists, page.items) \in Seq(V)
        /\ Len(Append(lists, page.items)) = Len(sent) + 1
        /\ \A i \in 1..Len(sent) : Append(lists, page.items)[i] = lists[i]
        /\ Append(lists, page.items)[Len(sent) + 1] = page.items
    BY <1>1, AppendProperties
  <2>2. ASSUME NEW i \in 1..Len(more) PROVE more[i] = Append(lists, page.items)[i]
    BY <1>2, <1>3, <1>4, <1>5, <2>1
  <2> QED BY <1>3, <2>1, <2>2, SeqEqual
<1>8. /\ FlattenSeq(lists) \in V
      /\ FlattenSeq(Append(lists, page.items)) = FlattenSeq(lists) \o page.items
  BY <1>1, FlattenAppend DEF V
<1>9. Entries' = Entries \o page.items
  BY <1>6, <1>7, <1>8, Zenon
<1> QED BY <1>2, <1>6, <1>8, <1>9 DEF V

\* Each step of All keeps the invariant.
LEMMA PagingKept ==
    ASSUME PagingInv, [PagingNext]_pagingVars
    PROVE  PagingInv'
PROOF
<1>1. ASSUME NEW token \in Token, All(token) PROVE PagingInv'
  BY <1>1 DEF All, PagingInv, Entries
<1>2. CASE PageFails
  BY <1>2 DEF PageFails, AllFails, PagingInv
<1>3. ASSUME NEW items \in Pages, NEW next \in Token, PageRead(items, next)
      PROVE  PagingInv'
  <2> DEFINE page == [items |-> items, next |-> next]
  <2>1. items \in Seq(KeyOrNone)
    BY <1>3, PagingAssumption DEF Pages, SeqOf, KeyOrNone
  <2>2. page \in PageType /\ page.items = items /\ page.next = next
    BY <2>1 DEF PageType
  <2>3. sent' = Append(sent, page) /\ paging = "read"
    BY <1>3 DEF PageRead
  <2> HIDE DEF page
  <2>4. /\ Entries \in Seq(KeyOrNone) /\ Entries' = Entries \o items
        /\ sent' \in Seq(PageType) /\ sent' # <<>> /\ Last(sent') = page
    BY <2>2, <2>3, EntriesGrow DEF PagingInv
  <2>5. Collects(Kept(items), Entries \o items, Len(Entries \o items))
    BY <2>1, <2>3, <2>4, KeptCollects DEF PagingInv
  <2>6. \/ /\ paging' = "done" /\ result' = Kept(items)
           /\ next = NoToken /\ Len(result') <= maxAchievements
        \/ paging' = "read" /\ result' = Kept(items)
        \/ paging' = "failed" /\ result' = <<>>
    BY <1>3, <2>3 DEF PageRead, AllFails
  <2>7. Last(sent)' = page
    BY <2>4 DEF Last
  <2> QED BY <2>2, <2>4, <2>5, <2>6, <2>7 DEF PagingInv
<1>4. CASE UNCHANGED pagingVars
  BY <1>4 DEF pagingVars, PagingInv, Entries
<1> QED BY <1>1, <1>2, <1>3, <1>4 DEF PagingNext, Token

\* Entries is a sequence of keys, or of entries without one.
LEMMA EntriesType ==
    ASSUME sent \in Seq(PageType)
    PROVE  Entries \in Seq(KeyOrNone)
PROOF
<1>1. ItemsOf(sent) \in Seq(Seq(KeyOrNone)) /\ <<>> \in Seq(KeyOrNone)
  BY ItemsType
<1>2. Entries = FlattenSeq(ItemsOf(sent))
  BY DEF Entries, ItemsOf
<1> QED BY <1>1, <1>2, FlattenAppend

\* The first place of a key is what FirstSent finds.
LEMMA FirstOfKey ==
    ASSUME NEW e \in Seq(KeyOrNone), NEW p \in Firsts(e, Len(e))
    PROVE  SelectInSeq(e, LAMBDA k : k = e[p]) = p
PROOF
<1> DEFINE I == {i \in 1..Len(e) : e[i] = e[p]}
<1>1. p \in I /\ \A i \in I : p <= i /\ i \in Nat
  BY DEF Firsts
<1>2. Min(I) = p
  BY <1>1 DEF Min
<1> QED BY <1>1, <1>2 DEF SelectInSeq

\* The invariant implies the property.
LEMMA CollectsAll ==
    ASSUME PagingInv PROVE ReturnsCollection
PROOF
<1>1. SUFFICES ASSUME paging = "done"
               PROVE  /\ ToSet(result) = ToSet(Entries) \ {NoKey}
                      /\ IsInjective(result)
                      /\ \A i, j \in DOMAIN result :
                             i < j => FirstSent(result[i]) < FirstSent(result[j])
  BY DEF PagingInv, ReturnsCollection
<1> DEFINE e == Entries  n == Len(e)  Place(i, p) == p \in Firsts(e, n) /\ e[p] = result[i]
<1>2. Collects(result, e, n) /\ e \in Seq(KeyOrNone)
  BY <1>1, EntriesType DEF PagingInv
<1> HIDE DEF e
<1>3. /\ result \in Seq(Keys) /\ DOMAIN result = 1..Len(result)
      /\ DOMAIN e = 1..n /\ n \in Nat
  BY <1>2 DEF Collects
<1>4. \A p \in Firsts(e, n) : p \in 1..n
  BY DEF Firsts
<1>5. \A i \in DOMAIN result : result[i] # NoKey /\ \E p : Place(i, p)
  BY <1>2, <1>3, PagingAssumption DEF Collects
<1>6. \A i, j \in DOMAIN result : \A p, q : Place(i, p) /\ Place(j, q) /\ i < j => p < q
  BY <1>2, <1>3 DEF Collects
<1>7. ToSet(result) = ToSet(e) \ {NoKey}
  <2>1. \A i \in DOMAIN result : result[i] \in ToSet(e) \ {NoKey}
    BY <1>3, <1>4, <1>5 DEF ToSet
  <2>2. \A p \in DOMAIN e : e[p] # NoKey => e[p] \in ToSet(result)
    BY <1>2, <1>3 DEF Collects, ToSet
  <2> QED BY <2>1, <2>2 DEF ToSet
<1>8. ASSUME NEW i \in DOMAIN result, NEW j \in DOMAIN result, i < j
      PROVE  FirstSent(result[i]) < FirstSent(result[j])
  <2>1. PICK p : Place(i, p)
    BY <1>5
  <2>2. PICK q : Place(j, q)
    BY <1>5
  <2>3. p < q
    BY <1>6, <1>8, <2>1, <2>2
  <2>4. FirstSent(e[p]) = p /\ FirstSent(e[q]) = q
    BY <1>2, <2>1, <2>2, FirstOfKey DEF FirstSent, e
  <2> QED BY <2>1, <2>2, <2>3, <2>4
<1>9. IsInjective(result)
  <2> SUFFICES ASSUME NEW i \in DOMAIN result, NEW j \in DOMAIN result,
                      result[i] = result[j], i < j
               PROVE  FALSE
    BY <1>3 DEF IsInjective
  <2>1. PICK p : Place(i, p)
    BY <1>5
  <2>2. Place(j, p) /\ p \in Nat
    BY <1>3, <1>4, <2>1
  <2>3. p < p
    BY <1>6, <2>1, <2>2
  <2> QED BY <2>2, <2>3
<1> QED BY <1>7, <1>8, <1>9 DEF e

\* What All returns is each achievement that was sent, once, in the order in
\* which it came first; what fails returns nothing.
\* About: Client.All, whatever pages the service sends and whatever the limits.
THEOREM ReturnsCollectionHolds == PagingSpec => []ReturnsCollection
PROOF
<1>1. PagingInit => PagingInv
  BY PagingInitInv
<1>2. PagingInv /\ [PagingNext]_pagingVars => PagingInv'
  BY PagingKept
<1>3. PagingInv => ReturnsCollection
  BY CollectsAll
<1> QED BY <1>1, <1>2, <1>3, PTL DEF PagingSpec

-----------------------------------------------------------------------------
(* The upload of an image *)

\* The number of bytes that were stored.
Total(seq) == FoldLeft(+, 0, seq)

\* The sums of a sequence are those of the one that it continues.
LEMMA SumsContinue ==
    ASSUME NEW seq \in Seq(Nat), NEW x \in Nat, NEW t, NEW u,
           Sums(t, seq), Sums(u, Append(seq, x))
    PROVE  u[Len(seq) + 1] = t[Len(seq)] + x
PROOF
<1> DEFINE n == Len(seq)
           longer == Append(seq, x)
           T == {i \in 0..n : u[i] = t[i]}
<1>1. /\ n \in Nat /\ Len(longer) = n + 1 /\ longer[n + 1] = x
      /\ \A i \in 1..n : longer[i] = seq[i]
  OBVIOUS
<1> HIDE DEF n, longer
<1>2. T \in SUBSET (0..n) /\ 0 \in T
  BY <1>1 DEF Sums
<1>3. ASSUME NEW i \in 1..n, i - 1 \in T PROVE i \in T
  <2>1. t[i] = t[i - 1] + seq[i]
    BY DEF n, Sums
  <2>2. u[i] = u[i - 1] + seq[i]
    <3>1. i \in 1..Len(longer)
      BY <1>1
    <3>2. u[i] = u[i - 1] + longer[i]
      BY <3>1 DEF longer, Sums
    <3> QED BY <1>1, <3>2
  <2> QED BY <1>3, <2>1, <2>2
<1>4. u[n] = t[n]
  <2>1. T = 0..n
    <3> HIDE DEF T
    <3> QED BY <1>1, <1>2, <1>3, UpTo
  <2> QED BY <1>1, <2>1
<1>5. u[n + 1] = u[n] + x
  <2>1. n + 1 \in 1..Len(longer) /\ (n + 1) - 1 = n
    BY <1>1
  <2>2. u[n + 1] = u[(n + 1) - 1] + longer[n + 1]
    BY <2>1 DEF longer, Sums
  <2> QED BY <1>1, <2>1, <2>2
<1> QED BY <1>4, <1>5 DEF n

\* One more number is added to the sum.
LEMMA SumAppend ==
    ASSUME NEW seq \in Seq(Nat), NEW x \in Nat
    PROVE  /\ Total(seq) \in Nat
           /\ Total(Append(seq, x)) = Total(seq) + x
PROOF
<1>1. PICK t : Sums(t, seq) /\ Total(seq) = t[Len(seq)]
  BY FoldSums DEF Total
<1>2. Append(seq, x) \in Seq(Nat) /\ Len(Append(seq, x)) = Len(seq) + 1
  OBVIOUS
<1>3. PICK u : Sums(u, Append(seq, x)) /\ Total(Append(seq, x)) = u[Len(Append(seq, x))]
  BY <1>2, FoldSums DEF Total
<1>4. Len(seq) \in 0..Len(seq)
  OBVIOUS
<1>5. Total(seq) \in Nat
  BY <1>1, <1>4 DEF Sums
<1> QED BY <1>1, <1>2, <1>3, <1>5, SumsContinue

\* Nothing sums to nothing.
LEMMA SumEmpty == Total(<<>>) = 0
PROOF
<1>1. <<>> \in Seq(Nat) /\ Len(<<>>) = 0
  OBVIOUS
<1>2. PICK t : Sums(t, <<>>) /\ Total(<<>>) = t[Len(<<>>)]
  BY <1>1, FoldSums DEF Total
<1> QED BY <1>1, <1>2 DEF Sums

\* A full block less is a block less, and the last block may be smaller.
LEMMA BlockCounts ==
    ASSUME NEW length \in Nat
    PROVE  /\ blockCount(length) \in Nat
           /\ blockCount(0) = 0
           /\ length >= blockSize =>
                 blockCount(length) = blockCount(length - blockSize) + 1
           /\ length \in 1..blockSize => blockCount(length) = 1
PROOF
<1> DEFINE b == blockSize
<1>0. b \in Nat \ {0}
  BY ImageAssumption
<1> HIDE DEF b
<1>1. \A a \in Nat : a \div b \in Nat /\ (a + b) \div b = (a \div b) + 1
  BY <1>0
<1>2. \A a \in Nat : a < b => a \div b = 0
  BY <1>0
<1>3. blockCount(length) \in Nat
  <2>1. length + b - 1 \in Nat
    BY <1>0
  <2> QED BY <1>1, <2>1 DEF blockCount, b
<1>4. blockCount(0) = 0
  <2>1. 0 + b - 1 \in Nat /\ 0 + b - 1 < b
    BY <1>0
  <2> QED BY <1>2, <2>1 DEF blockCount, b
<1>5. ASSUME length >= b PROVE blockCount(length) = blockCount(length - b) + 1
  <2>1. length - b + b - 1 \in Nat /\ length + b - 1 = (length - b + b - 1) + b
    BY <1>0, <1>5
  <2> QED BY <1>1, <2>1 DEF blockCount, b
<1>6. ASSUME length \in 1..b PROVE blockCount(length) = 1
  <2>1. length - 1 \in Nat /\ length - 1 < b /\ length + b - 1 = (length - 1) + b
    BY <1>0, <1>6
  <2> QED BY <1>1, <1>2, <2>1 DEF blockCount, b
<1> QED BY <1>3, <1>4, <1>5, <1>6 DEF b

ImageTypeOK ==
    /\ upload \in {"idle", "create", "blocks", "publish", "published"}
    /\ unread \in Nat
    /\ announced \in [blocks : Nat, size : Nat]
    /\ stored \in Seq(Nat)

\* What is stored and what is to come are what was announced.
ImageInv ==
    /\ ImageTypeOK
    /\ upload = "create" => stored = <<>>
    /\ upload \in {"blocks", "publish", "published"} =>
          \A i \in DOMAIN stored : stored[i] \in 1..blockSize
    /\ upload = "blocks" =>
          /\ Len(stored) + blockCount(unread) = announced.blocks
          /\ Total(stored) + unread = announced.size
    /\ upload \in {"publish", "published"} =>
          /\ Len(stored) = announced.blocks
          /\ Total(stored) = announced.size

\* The next block is full, or all that is left.
LEMMA NextBlock ==
    ASSUME unread \in Nat, unread > 0
    PROVE  /\ Min({blockSize, unread}) \in 1..blockSize
           /\ unread - Min({blockSize, unread}) \in Nat
           /\ blockCount(unread)
                  = blockCount(unread - Min({blockSize, unread})) + 1
PROOF
<1> DEFINE size == Min({blockSize, unread})
<1>1. size = IF blockSize <= unread THEN blockSize ELSE unread
  <2>1. \E x \in {blockSize, unread} : \A y \in {blockSize, unread} : x <= y
    BY ImageAssumption
  <2>2. /\ size \in {blockSize, unread}
        /\ \A y \in {blockSize, unread} : size <= y
    BY <2>1 DEF Min
  <2> QED BY <2>2, ImageAssumption
<1> HIDE DEF size
<1>2. CASE blockSize <= unread
  BY <1>1, <1>2, ImageAssumption, BlockCounts DEF size
<1>3. CASE ~(blockSize <= unread)
  BY <1>1, <1>3, ImageAssumption, BlockCounts DEF size
<1> QED BY <1>2, <1>3

\* Each step of the upload keeps the invariant.
LEMMA ImageStep == ImageInv /\ [ImageNext]_imageVars => ImageInv'
PROOF
<1> SUFFICES ASSUME ImageInv, [ImageNext]_imageVars PROVE ImageInv'
  OBVIOUS
<1> USE DEF ImageInv, ImageTypeOK
<1>1. CASE UploadProfileImage
  BY <1>1 DEF UploadProfileImage, NothingAnnounced
<1>2. CASE UploadCreated
  <2>1. blockCount(unread) \in Nat
    BY BlockCounts
  <2>2. Total(stored) = 0 /\ Len(stored) = 0 /\ DOMAIN stored = {}
    BY <1>2, SumEmpty DEF UploadCreated
  <2> QED BY <1>2, <2>1, <2>2 DEF UploadCreated
<1>3. CASE BlockUploaded
  <2> DEFINE size == Min({blockSize, unread})
  <2>1. /\ upload = "blocks" /\ upload' = "blocks" /\ announced' = announced
        /\ stored' = Append(stored, size) /\ unread' = unread - size
        /\ unread > 0
    BY <1>3 DEF BlockUploaded
  <2>2. /\ size \in 1..blockSize /\ size \in Nat /\ unread' \in Nat
        /\ blockCount(unread) = blockCount(unread') + 1
    BY <2>1, NextBlock, ImageAssumption
  <2>3. blockCount(unread') \in Nat
    BY <2>2, BlockCounts
  <2> HIDE DEF size
  <2>4. Total(stored') = Total(stored) + size /\ Total(stored) \in Nat
    BY <2>1, <2>2, SumAppend
  <2>5. /\ stored' \in Seq(Nat) /\ Len(stored') = Len(stored) + 1
        /\ \A i \in DOMAIN stored' : stored'[i] \in 1..blockSize
    BY <2>1, <2>2
  <2>6. Total(stored)' = Total(stored') /\ blockCount(unread)' = blockCount(unread')
    BY DEF blockCount
  <2>7. ImageTypeOK'
    BY <2>1, <2>2, <2>5
  <2>8. /\ Len(stored') + blockCount(unread') = announced'.blocks
        /\ Total(stored') + unread' = announced'.size
    <3>1. Len(stored) + blockCount(unread) = announced.blocks
          /\ Total(stored) + unread = announced.size
      BY <2>1
    <3>2. Len(stored) \in Nat /\ unread \in Nat
      OBVIOUS
    <3> HIDE DEF ImageInv
    <3>3. Len(stored') + blockCount(unread') = Len(stored) + blockCount(unread)
      BY <2>2, <2>3, <2>5, <3>2
    <3>4. Total(stored') + unread' = Total(stored) + unread
      BY <2>1, <2>2, <2>4, <3>2
    <3> QED BY <2>1, <3>1, <3>3, <3>4
  <2> QED BY <2>1, <2>5, <2>6, <2>7, <2>8
<1>4. CASE BlockFails
  <2> DEFINE size == Min({blockSize, unread})
  <2>1. /\ upload' = "idle" /\ announced' = announced
        /\ \/ \E read \in 0..size :
                  unread' = unread - read /\ stored' = stored
           \/ unread' = unread - size /\ stored' = Append(stored, size)
    BY <1>4 DEF BlockFails
  <2>2. size \in Nat /\ size <= unread
    BY <1>4, NextBlock, ImageAssumption DEF BlockFails
  <2> HIDE DEF size
  <2>3. unread' \in Nat /\ stored' \in Seq(Nat)
    <3>1. CASE stored' = Append(stored, size) /\ unread' = unread - size
      BY <2>2, <3>1
    <3>2. CASE \E read \in 0..size : unread' = unread - read /\ stored' = stored
      BY <2>2, <3>2
    <3> QED BY <2>1, <3>1, <3>2
  <2> QED BY <2>1, <2>3
<1>5. CASE PublishBegins
  <2>1. Total(stored) \in Nat /\ blockCount(unread) = 0
    BY <1>5, SumAppend, BlockCounts DEF PublishBegins
  <2>2. Total(stored)' = Total(stored)
    BY <1>5 DEF PublishBegins
  <2> QED BY <1>5, <2>1, <2>2 DEF PublishBegins
<1>6. CASE Published \/ UploadFails
  BY <1>6 DEF Published, UploadFails
<1>7. CASE ReaderIsReplaced
  BY <1>7, ImageAssumption DEF ReaderIsReplaced
<1>8. CASE UNCHANGED imageVars
  BY <1>8 DEF imageVars, blockCount
<1> QED BY <1>1, <1>2, <1>3, <1>4, <1>5, <1>6, <1>7, <1>8 DEF ImageNext

\* An image is published when all of its announced blocks and bytes are stored.
\* About: Client.UploadProfileImage and the blocks that it counts, whatever the
\* block size and the length of the image.
THEOREM PublishedIsCompleteHolds == ImageSpec => []PublishedIsComplete
PROOF
<1>1. ImageInit => ImageInv
  BY ImageAssumption DEF ImageInit, NothingAnnounced, ImageInv, ImageTypeOK
<1>2. ImageInv => PublishedIsComplete
  <2>1. Total(stored) = FoldLeft(+, 0, stored)
    BY Zenon DEF Total
  <2> QED BY <2>1, Zenon DEF ImageInv, PublishedIsComplete
<1> QED BY <1>1, <1>2, ImageStep, PTL DEF ImageSpec
=============================================================================
