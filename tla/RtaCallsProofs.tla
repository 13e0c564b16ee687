---------------------------- MODULE RtaCallsProofs ----------------------------
(***************************************************************************)
(* Proofs about the call layer of rta.Conn, for any number of goroutines,  *)
(* calls and sockets.  The argument has two halves.  A number of an        *)
(* operation stands for one call wherever it is found (Numbered): so the   *)
(* answer that a reader matches with an entry is that of the entry's call. *)
(* And a channel is in one place at a time, in the table or in the hands   *)
(* of one reader, and is used for the last time there (Untouched, Readers).*)
(***************************************************************************)
EXTENDS RtaCalls, TLAPS

Sending(p) == callGo[p].at \in {"write", "await"}

\* Every message of which there is a trace.
Sent == expected \cup messages \cup answers
          \cup {Own(p) : p \in {q \in Callers : Sending(q)}}

\* Calls are counted, and two goroutines never make the same one.
Counted ==
    /\ \A p \in Callers :
           IF callGo[p].at = "idle"
             THEN callGo[p].call = NoId
             ELSE callGo[p].call \in 1..calls /\ callGo[p].conn \in WebSockets
    /\ \A p, q \in Callers :
           callGo[p].call = callGo[q].call /\ callGo[p].call # NoId => p = q

\* A number of an operation belongs to one call, and is not above the counter.
Numbered ==
    /\ \A m \in Sent : m.seq <= sequences[m.op]
    /\ \A m, n \in Sent : m.op = n.op /\ m.seq = n.seq => m.call = n.call

Untouched(c) ==
    /\ c \notin hungUp
    /\ answered[c] = NoId
    /\ \A s \in WebSockets : reader[s].to # c

\* Nobody has used the channel of a call that waits in the table, or that has
\* still to come to it.
Waiting ==
    /\ \A c \in CallIds : c > calls => Untouched(c)
    /\ \A p \in Callers : callGo[p].at = "expect" => Untouched(callGo[p].call)
    /\ \A e \in expected : Untouched(e.call)

\* A reader holds the answer of the call whose channel it holds.
Readers ==
    \A s \in WebSockets :
        reader[s] # NoDelivery =>
            reader[s].to \in CallIds /\ reader[s].answer = reader[s].to

CallsInv ==
    /\ CallsTypeOK
    /\ Counted
    /\ Numbered
    /\ Waiting
    /\ Readers
    /\ AnswersOwnCall
    /\ SendsToOpenChannel
    /\ NoEntryIsLeft

-----------------------------------------------------------------------------

LEMMA OwnIsMessage ==
    ASSUME CallsTypeOK, Counted, NEW p \in Callers, callGo[p].at # "idle"
    PROVE  Own(p) \in Message
PROOF
<1>1. callGo[p].conn \in WebSockets /\ callGo[p].call \in CallIds
  BY CallsAssumption DEF Counted, CallsTypeOK, CallIds
<1>2. callGo[p].op \in Operations /\ callGo[p].seq \in Nat
  BY DEF CallsTypeOK, Calling
<1> QED
  BY <1>1, <1>2 DEF Own, Message

LEMMA SentAreMessages ==
    ASSUME CallsTypeOK, Counted
    PROVE  Sent \subseteq Message
PROOF
  BY OwnIsMessage DEF Sent, Sending, CallsTypeOK

\* The entries of two calls differ, and an entry is found by its call.
LEMMA EntriesDiffer ==
    ASSUME CallsTypeOK, Counted, NoEntryIsLeft,
           NEW e \in expected, NEW f \in expected, e.call = f.call
    PROVE  e = f
PROOF
<1>1. PICK p \in Callers : Sending(p) /\ Own(p) = e
  BY DEF NoEntryIsLeft, Sending
<1>2. PICK q \in Callers : Sending(q) /\ Own(q) = f
  BY DEF NoEntryIsLeft, Sending
<1>3. callGo[p].call = callGo[q].call
  BY <1>1, <1>2 DEF Own
<1>4. callGo[p].call # NoId
  BY <1>1, CallsAssumption DEF Counted, Sending, NoId, CallsTypeOK
<1> QED
  BY <1>1, <1>2, <1>3, <1>4 DEF Counted

\* A goroutine that has no entry yet shares its call with no entry.
LEMMA EntryOfAnother ==
    ASSUME CallsTypeOK, Counted, NoEntryIsLeft,
           NEW e \in expected, NEW p \in Callers, ~Sending(p)
    PROVE  callGo[p].call # e.call
PROOF
<1>1. PICK q \in Callers : Sending(q) /\ Own(q) = e
  BY DEF NoEntryIsLeft, Sending
<1>2. callGo[q].call = e.call /\ q # p
  BY <1>1 DEF Own
<1>3. callGo[q].call # NoId
  BY <1>1 DEF Counted, Sending, NoId, CallsTypeOK
<1> QED
  BY <1>2, <1>3 DEF Counted

LEMMA FewerSent ==
    ASSUME Numbered, Sent' \subseteq Sent, UNCHANGED sequences
    PROVE  Numbered'
PROOF
  BY DEF Numbered

-----------------------------------------------------------------------------

LEMMA CallsInitInv == CallsInit => CallsInv
PROOF
<1> SUFFICES ASSUME CallsInit PROVE CallsInv
  OBVIOUS
<1>1. CallsTypeOK
  BY CallsAssumption DEF CallsInit, CallsTypeOK, Calling, NotCalling, Delivery,
     NoDelivery, NoWebSocket, NoId, Operations
<1>2. \A p \in Callers : callGo[p].at = "idle" /\ callGo[p].call = NoId
  BY DEF CallsInit, NotCalling
<1>3. Counted
  BY <1>2 DEF Counted
<1>4. Sent = {}
  BY <1>2 DEF CallsInit, Sent, Sending
<1>5. \A c \in CallIds : Untouched(c)
  BY DEF CallsInit, Untouched, NoDelivery, NoId, CallIds
<1>6. \A s \in WebSockets : reader[s] = NoDelivery
  BY DEF CallsInit
<1> QED
  BY <1>1, <1>2, <1>3, <1>4, <1>5, <1>6
  DEF CallsInv, CallsInit, Numbered, Waiting, Readers, AnswersOwnCall,
      SendsToOpenChannel, NoEntryIsLeft

LEMMA CallBeginsKeeps ==
    ASSUME CallsInv, NEW p \in Callers, NEW op \in Operations, CallBegins(p, op)
    PROVE  CallsInv'
PROOF
<1> USE DEF CallsInv
<1> DEFINE new == [at |-> "expect", op |-> op, conn |-> webSocket', seq |-> 0,
                   call |-> calls + 1]
<1>1. /\ webSocket' \in WebSockets /\ sockets' \in 0..MaxWebSockets
      /\ calls' = calls + 1 /\ calls' \in 0..MaxCalls /\ calls' \in CallIds
  BY CallsAssumption
  DEF CallBegins, CallsTypeOK, WebSockets, NoWebSocket, CallIds
<1>2. callGo' = [callGo EXCEPT ![p] = new] /\ callGo[p].at = "idle"
  BY DEF CallBegins
<1>3. new \in Calling
  BY <1>1 DEF Calling
<1>4. CallsTypeOK'
  BY <1>1, <1>2, <1>3 DEF CallsTypeOK, CallBegins
<1>5. Counted'
  <2>1. \A q \in Callers : callGo[q].call # calls + 1
    BY DEF Counted, CallsTypeOK, NoId
  <2>2. callGo'[p] = new /\ \A q \in Callers \ {p} : callGo'[q] = callGo[q]
    BY <1>2 DEF CallsTypeOK
  <2>3. \A q \in Callers :
            IF callGo'[q].at = "idle"
              THEN callGo'[q].call = NoId
              ELSE callGo'[q].call \in 1..calls' /\ callGo'[q].conn \in WebSockets
    BY <2>2, <1>1 DEF Counted, CallsTypeOK
  <2>4. \A q, r \in Callers :
            callGo'[q].call = callGo'[r].call /\ callGo'[q].call # NoId => q = r
    BY <2>1, <2>2 DEF Counted
  <2> QED
    BY <2>3, <2>4 DEF Counted
<1>6. \A q \in Callers : callGo[q].at # "expect" /\ callGo[q].at # "idle"
                            => callGo'[q] = callGo[q]
  BY <1>2 DEF CallsTypeOK
<1>7. \A q \in Callers : Sending(q)' = Sending(q)
  BY <1>2 DEF CallsTypeOK, Sending
<1>8. \A q \in Callers : Sending(q) => Own(q)' = Own(q)
  BY <1>6 DEF Sending, Own
<1>9. Numbered'
  <2>1. Sent' = Sent
    BY <1>7, <1>8 DEF Sent, CallBegins
  <2> QED
    BY <2>1, FewerSent DEF CallBegins
<1>10. Waiting'
  <2>1. \A c : Untouched(c)' = Untouched(c)
    BY DEF Untouched, CallBegins
  <2>2. Untouched(calls + 1)
    BY <1>1 DEF Waiting, CallsTypeOK
  <2>3. \A c \in CallIds : c > calls' => c > calls
    BY <1>1 DEF CallsTypeOK, CallIds
  <2>4. \A q \in Callers : callGo'[q].at = "expect" => Untouched(callGo'[q].call)
    BY <1>2, <2>2 DEF Waiting, CallsTypeOK
  <2> QED
    BY <2>1, <2>3, <2>4 DEF Waiting, CallBegins
<1>11. Readers' /\ AnswersOwnCall' /\ SendsToOpenChannel'
  BY DEF Readers, AnswersOwnCall, SendsToOpenChannel, CallBegins
<1>12. NoEntryIsLeft'
  BY <1>7, <1>8 DEF NoEntryIsLeft, Sending, CallBegins
<1> QED
  BY <1>4, <1>5, <1>9, <1>10, <1>11, <1>12

LEMMA ExpectKeeps ==
    ASSUME CallsInv, NEW p \in Callers, Expect(p)
    PROVE  CallsInv'
PROOF
<1> USE DEF CallsInv
<1> DEFINE op == callGo[p].op
           n == sequences[op] + 1
           e == [conn |-> callGo[p].conn, op |-> op, seq |-> n,
                 call |-> callGo[p].call]
<1>1. op \in Operations /\ n \in Nat
  BY DEF CallsTypeOK, Calling
<1>2. /\ callGo[p].at = "expect"
      /\ callGo' = [callGo EXCEPT ![p] = [callGo[p] EXCEPT !.at = "write", !.seq = n]]
      /\ sequences' = [sequences EXCEPT ![op] = n]
  BY DEF Expect
<1>3. expected' = expected \cup {e}
  BY DEF Expect, Own
<1>4. [callGo[p] EXCEPT !.at = "write", !.seq = n] \in Calling
  BY <1>1 DEF CallsTypeOK, Calling
<1>5. e \in Message
  BY <1>1, <1>2, CallsAssumption DEF Counted, CallsTypeOK, Message, CallIds
<1>6. CallsTypeOK'
  BY <1>1, <1>2, <1>3, <1>4, <1>5 DEF CallsTypeOK, Expect
<1>7. /\ callGo'[p].at = "write" /\ callGo'[p].seq = n
      /\ callGo'[p].call = callGo[p].call /\ callGo'[p].conn = callGo[p].conn
      /\ callGo'[p].op = op
      /\ \A q \in Callers \ {p} : callGo'[q] = callGo[q]
  BY <1>2 DEF CallsTypeOK, Calling
<1>8. Counted'
  <2>1. \A q \in Callers : callGo'[q].call = callGo[q].call
    BY <1>7
  <2>2. \A q \in Callers : /\ callGo'[q].conn = callGo[q].conn
                           /\ callGo'[q].at = "idle" <=> callGo[q].at = "idle"
    BY <1>2, <1>7
  <2>3. calls' = calls
    BY DEF Expect
  <2> QED
    BY <2>1, <2>2, <2>3 DEF Counted
<1>9. Own(p)' = e /\ \A q \in Callers \ {p} : Own(q)' = Own(q)
  BY <1>7 DEF Own
<1>10. Sending(p)' /\ \A q \in Callers \ {p} : Sending(q)' = Sending(q)
  BY <1>7 DEF Sending
<1>11. Sent' \subseteq Sent \cup {e}
  BY <1>3, <1>9, <1>10 DEF Sent, Expect
<1>12. Numbered'
  <2>1. \A m \in Sent : m.op \in Operations /\ m.seq \in Nat
    BY SentAreMessages DEF Message
  <2>2. \A o \in Operations : sequences'[o] = IF o = op THEN n ELSE sequences[o]
    BY <1>2 DEF CallsTypeOK
  <2>3. \A o \in Operations : sequences[o] \in Nat
    BY DEF CallsTypeOK
  <2>4. \A m \in Sent : m.seq <= sequences[m.op]
    BY DEF Numbered
  <2>5. \A m \in Sent : m.seq <= sequences'[m.op]
    BY <2>1, <2>2, <2>3, <2>4
  <2>6. \A m \in Sent : m.op = op => m.seq < n
    BY <2>1, <2>3, <2>4
  <2>7. e.op = op /\ e.seq = n
    OBVIOUS
  <2>8. \A m \in Sent' : m.seq <= sequences'[m.op]
    BY <1>1, <1>11, <2>2, <2>5, <2>7
  <2>9. \A m, k \in Sent' : m.op = k.op /\ m.seq = k.seq => m.call = k.call
    <3>1. TAKE m, k \in Sent'
    <3>2. CASE m \in Sent /\ k \in Sent
      BY <3>2 DEF Numbered
    <3>3. CASE m = e /\ k = e
      BY <3>3
    <3>4. CASE (m \in Sent /\ k = e) \/ (m = e /\ k \in Sent)
      BY <3>4, <2>1, <2>6, <2>7
    <3> QED
      BY <1>11, <3>2, <3>3, <3>4
  <2> QED
    BY <2>8, <2>9 DEF Numbered
<1>13. Waiting'
  <2>1. \A c : Untouched(c)' = Untouched(c)
    BY DEF Untouched, Expect
  <2>2. Untouched(e.call)
    BY <1>2 DEF Waiting
  <2>3. \A q \in Callers : callGo'[q].at = "expect" => callGo'[q] = callGo[q]
    BY <1>7
  <2> QED
    BY <2>1, <2>2, <2>3, <1>3 DEF Waiting, Expect
<1>14. Readers' /\ AnswersOwnCall' /\ SendsToOpenChannel'
  BY DEF Readers, AnswersOwnCall, SendsToOpenChannel, Expect
<1>15. NoEntryIsLeft'
  <2>1. \A f \in expected : \E q \in Callers \ {p} : Sending(q) /\ Own(q) = f
    BY <1>2 DEF NoEntryIsLeft, Sending
  <2>2. \A f \in expected' : \E q \in Callers : Sending(q)' /\ Own(q)' = f
    BY <2>1, <1>3, <1>9, <1>10
  <2> QED
    BY <2>2 DEF NoEntryIsLeft, Sending
<1> QED
  BY <1>6, <1>8, <1>12, <1>13, <1>14, <1>15

LEMMA WriteMessageKeeps ==
    ASSUME CallsInv, NEW p \in Callers, WriteMessage(p)
    PROVE  CallsInv'
PROOF
<1> USE DEF CallsInv
<1>1. /\ callGo[p].at = "write"
      /\ callGo' = [callGo EXCEPT ![p] = [callGo[p] EXCEPT !.at = "await"]]
  BY DEF WriteMessage
<1>2. Own(p) \in Message
  BY OwnIsMessage, <1>1
<1>3. [callGo[p] EXCEPT !.at = "await"] \in Calling
  BY DEF CallsTypeOK, Calling
<1>4. CallsTypeOK'
  BY <1>1, <1>2, <1>3 DEF CallsTypeOK, WriteMessage
<1>5. \A q \in Callers : /\ callGo'[q].call = callGo[q].call
                         /\ callGo'[q].conn = callGo[q].conn
                         /\ callGo'[q].op = callGo[q].op
                         /\ callGo'[q].seq = callGo[q].seq
                         /\ callGo'[q].at = "idle" <=> callGo[q].at = "idle"
                         /\ callGo'[q].at = "expect" <=> callGo[q].at = "expect"
                         /\ Sending(q)' <=> Sending(q)
  BY <1>1 DEF CallsTypeOK, Calling, Sending
<1>6. Counted'
  BY <1>5 DEF Counted, WriteMessage
<1>7. \A q \in Callers : Own(q)' = Own(q)
  BY <1>5 DEF Own
<1>8. Numbered'
  <2>1. Own(p) \in Sent
    BY <1>1 DEF Sent, Sending
  <2>2. Sent' \subseteq Sent
    BY <2>1, <1>5, <1>7 DEF Sent, WriteMessage
  <2> QED
    BY <2>2, FewerSent DEF WriteMessage
<1>9. Waiting'
  BY <1>5 DEF Waiting, Untouched, WriteMessage
<1>10. Readers' /\ AnswersOwnCall' /\ SendsToOpenChannel'
  BY DEF Readers, AnswersOwnCall, SendsToOpenChannel, WriteMessage
<1>11. NoEntryIsLeft'
  <2>1. \A e \in expected : \E q \in Callers : Sending(q) /\ Own(q) = e
    BY DEF NoEntryIsLeft, Sending
  <2>2. \A e \in expected' : \E q \in Callers : Sending(q)' /\ Own(q)' = e
    BY <2>1, <1>5, <1>7 DEF WriteMessage
  <2> QED
    BY <2>2 DEF NoEntryIsLeft, Sending
<1> QED
  BY <1>4, <1>6, <1>8, <1>9, <1>10, <1>11

\* What a return of p, with no entry of its own left, preserves.
LEMMA ReturnKeeps ==
    ASSUME CallsInv, NEW p \in Callers, callGo[p].at \in {"write", "await"},
           CallReturns(p), UNCHANGED calls,
           expected' \subseteq expected, Own(p) \notin expected'
    PROVE  /\ callGo' \in [Callers -> Calling]
           /\ Counted'
           /\ NoEntryIsLeft'
           /\ \A q \in Callers :
                  /\ callGo'[q].at = "expect" => callGo'[q] = callGo[q]
                  /\ Sending(q)' => Sending(q) /\ Own(q)' = Own(q)
PROOF
<1> USE DEF CallsInv
<1>1. callGo' = [callGo EXCEPT ![p] = NotCalling]
  BY DEF CallReturns
<1>2. NotCalling \in Calling
  BY DEF NotCalling, Calling, Operations, NoWebSocket, NoId
<1>3. callGo' \in [Callers -> Calling]
  BY <1>1, <1>2 DEF CallsTypeOK
<1>4. callGo'[p] = NotCalling /\ \A q \in Callers \ {p} : callGo'[q] = callGo[q]
  BY <1>1 DEF CallsTypeOK
<1>5. NotCalling.at = "idle" /\ NotCalling.call = NoId
  BY DEF NotCalling
<1>6. Counted'
  BY <1>4, <1>5 DEF Counted
<1>7. ~Sending(p)' /\ \A q \in Callers \ {p} : /\ Sending(q)' = Sending(q)
                                               /\ Own(q)' = Own(q)
  BY <1>4, <1>5 DEF Sending, Own
<1>8. NoEntryIsLeft'
  <2>1. \A e \in expected' : \E q \in Callers \ {p} : Sending(q) /\ Own(q) = e
    BY DEF NoEntryIsLeft, Sending
  <2>2. \A e \in expected' : \E q \in Callers : Sending(q)' /\ Own(q)' = e
    BY <2>1, <1>7
  <2> QED
    BY <2>2 DEF NoEntryIsLeft, Sending
<1>9. \A q \in Callers :
          /\ callGo'[q].at = "expect" => callGo'[q] = callGo[q]
          /\ Sending(q)' => Sending(q) /\ Own(q)' = Own(q)
  BY <1>4, <1>5, <1>7
<1> QED
  BY <1>3, <1>6, <1>8, <1>9

\* A drain closes channels that nobody has used, and leaves no entry for them.
LEMMA DrainKeeps ==
    ASSUME CallsInv, NEW s \in WebSockets, NEW entries \in SUBSET expected,
           Drains(s, entries), UNCHANGED <<answered, reader, calls>>,
           \A q \in Callers : callGo'[q].at = "expect" => callGo'[q] = callGo[q]
    PROVE  /\ expected' \subseteq entries
           /\ hungUp' \subseteq CallIds
           /\ Waiting'
           /\ Readers' /\ AnswersOwnCall' /\ SendsToOpenChannel'
PROOF
<1> USE DEF CallsInv
<1> DEFINE closed == {e.call : e \in {e \in entries : e.conn = s}}
<1>1. expected' = {e \in entries : e.conn # s} /\ hungUp' = hungUp \cup closed
  BY DEF Drains
<1>2. closed \subseteq 1..calls
  <2>1. SUFFICES ASSUME NEW e \in expected PROVE e.call \in 1..calls
    OBVIOUS
  <2>2. PICK p \in Callers : Sending(p) /\ Own(p) = e
    BY DEF NoEntryIsLeft, Sending
  <2>3. callGo[p].call \in 1..calls /\ callGo[p].call = e.call
    BY <2>2 DEF Counted, Sending, Own
  <2> QED
    BY <2>3
<1>3. 1..calls \subseteq CallIds
  BY CallsAssumption DEF CallsTypeOK, CallIds
<1>4. hungUp' \subseteq CallIds
  BY <1>1, <1>2, <1>3 DEF CallsTypeOK
<1>5. \A c : Untouched(c) /\ c \notin closed => Untouched(c)'
  BY <1>1 DEF Untouched
<1>6. \A c \in closed : Untouched(c)
  BY DEF Waiting
<1>7. Waiting'
  <2>1. \A c \in CallIds : c > calls' => Untouched(c)'
    BY <1>2, <1>5 DEF Waiting, CallsTypeOK, CallIds
  <2>2. \A q \in Callers : callGo'[q].at = "expect" => Untouched(callGo[q].call)'
    <3>1. TAKE q \in Callers
    <3>2. HAVE callGo'[q].at = "expect"
    <3>3. callGo[q].at = "expect" /\ callGo'[q].call = callGo[q].call
      BY <3>2
    <3>4. ~Sending(q)
      BY <3>3 DEF Sending
    <3>5. callGo[q].call \notin closed
      BY <3>4, EntryOfAnother
    <3>6. Untouched(callGo[q].call)
      BY <3>3 DEF Waiting
    <3>7. Untouched(callGo[q].call)'
      BY <1>1, <3>3, <3>5, <3>6 DEF Untouched
    <3> QED
      BY <3>7
  <2>3. \A f \in expected' : Untouched(f.call)'
    <3>1. TAKE f \in expected'
    <3>2. f.call \notin closed
      BY <1>1, EntriesDiffer
    <3>3. Untouched(f.call)
      BY <1>1 DEF Waiting
    <3> QED
      BY <1>1, <3>2, <3>3 DEF Untouched
  <2> QED
    BY <2>1, <2>2, <2>3 DEF Waiting
<1>8. SendsToOpenChannel'
  <2>1. \A r \in WebSockets : reader[r].to \notin closed
    BY <1>6 DEF Untouched
  <2> QED
    BY <1>1, <2>1 DEF SendsToOpenChannel
<1> QED
  BY <1>1, <1>4, <1>7, <1>8 DEF Readers, AnswersOwnCall

LEMMA WriteMessageFailsKeeps ==
    ASSUME CallsInv, NEW p \in Callers, WriteMessageFails(p)
    PROVE  CallsInv'
PROOF
<1> USE DEF CallsInv
<1> DEFINE entries == expected \ {Own(p)}
<1>1. callGo[p].at = "write" /\ CallReturns(p) /\ calls' = calls
  BY DEF WriteMessageFails
<1>2. callGo[p].conn \in WebSockets
  BY <1>1 DEF Counted
<1>3. Drains(callGo[p].conn, entries)
  BY DEF WriteMessageFails
<1>4. expected' \subseteq entries
  BY <1>3 DEF Drains
<1>5. /\ callGo' \in [Callers -> Calling]
      /\ Counted'
      /\ NoEntryIsLeft'
      /\ \A q \in Callers :
             /\ callGo'[q].at = "expect" => callGo'[q] = callGo[q]
             /\ Sending(q)' => Sending(q) /\ Own(q)' = Own(q)
  BY <1>1, <1>4, ReturnKeeps
<1>6. /\ hungUp' \subseteq CallIds
      /\ Waiting'
      /\ Readers' /\ AnswersOwnCall' /\ SendsToOpenChannel'
  BY <1>2, <1>3, <1>5, DrainKeeps DEF WriteMessageFails
<1>7. Own(p) \in Message
  BY <1>1, OwnIsMessage
<1>8. CallsTypeOK'
  BY <1>4, <1>5, <1>6, <1>7 DEF CallsTypeOK, WriteMessageFails
<1>9. Numbered'
  <2>1. Own(p) \in Sent
    BY <1>1 DEF Sent, Sending
  <2>2. messages' \subseteq messages \cup {Own(p)}
    BY DEF WriteMessageFails
  <2>3. Sent' \subseteq Sent
    BY <2>1, <2>2, <1>4, <1>5 DEF Sent, WriteMessageFails
  <2> QED
    BY <2>3, FewerSent DEF WriteMessageFails
<1> QED
  BY <1>5, <1>6, <1>8, <1>9

\* A call whose channel has been answered or closed has no entry.
LEMMA AwaitEndsKeeps ==
    ASSUME CallsInv, NEW p \in Callers, AwaitEnds(p) \/ AwaitGivesUp(p)
    PROVE  CallsInv'
PROOF
<1> USE DEF CallsInv
<1>1. /\ callGo[p].at = "await" /\ CallReturns(p) /\ calls' = calls
      /\ expected' \subseteq expected
  BY DEF AwaitEnds, AwaitGivesUp
<1>2. Own(p) \notin expected'
  <2>1. CASE AwaitEnds(p)
    <3>1. ~Untouched(callGo[p].call)
      BY <2>1 DEF AwaitEnds, Untouched
    <3>2. Own(p) \notin expected
      BY <3>1 DEF Waiting, Own
    <3> QED
      BY <3>2, <1>1
  <2>2. CASE AwaitGivesUp(p)
    BY <2>2 DEF AwaitGivesUp
  <2> QED
    BY <2>1, <2>2
<1>3. /\ callGo' \in [Callers -> Calling]
      /\ Counted'
      /\ NoEntryIsLeft'
      /\ \A q \in Callers :
             /\ callGo'[q].at = "expect" => callGo'[q] = callGo[q]
             /\ Sending(q)' => Sending(q) /\ Own(q)' = Own(q)
  BY <1>1, <1>2, ReturnKeeps
<1>4. UNCHANGED <<webSocket, sockets, sequences, answered, hungUp, reader,
                  messages, answers, calls>>
  BY DEF AwaitEnds, AwaitGivesUp
<1>5. CallsTypeOK'
  BY <1>1, <1>3, <1>4 DEF CallsTypeOK
<1>6. Numbered'
  <2>1. Sent' \subseteq Sent
    BY <1>1, <1>3, <1>4 DEF Sent
  <2> QED
    BY <2>1, <1>4, FewerSent
<1>7. Waiting'
  BY <1>1, <1>3, <1>4 DEF Waiting, Untouched
<1>8. Readers' /\ AnswersOwnCall' /\ SendsToOpenChannel'
  BY <1>4 DEF Readers, AnswersOwnCall, SendsToOpenChannel
<1> QED
  BY <1>3, <1>5, <1>6, <1>7, <1>8

LEMMA ServeKeeps ==
    ASSUME CallsInv, NEW m \in messages, Serve(m)
    PROVE  CallsInv'
PROOF
<1> USE DEF CallsInv
<1>1. UNCHANGED <<webSocket, sockets, sequences, expected, answered, hungUp,
                  callGo, reader, calls>>
  BY DEF Serve
<1>2. messages' \subseteq messages /\ answers' \subseteq answers \cup messages
  BY DEF Serve
<1>3. CallsTypeOK'
  BY <1>1, <1>2 DEF CallsTypeOK
<1>4. Numbered'
  <2>1. Sent' \subseteq Sent
    BY <1>1, <1>2 DEF Sent, Own, Sending
  <2> QED
    BY <2>1, <1>1, FewerSent
<1> QED
  BY <1>1, <1>3, <1>4 DEF Counted, Waiting, Untouched, Readers, AnswersOwnCall,
     SendsToOpenChannel, NoEntryIsLeft, Own

\* A reader finds the entry of the call that its answer is for.
LEMMA ReaderTakesKeeps ==
    ASSUME CallsInv, NEW a \in answers, ReaderTakes(a)
    PROVE  CallsInv'
PROOF
<1> USE DEF CallsInv
<1>1. UNCHANGED <<webSocket, sockets, sequences, answered, hungUp, callGo,
                  messages, calls>> /\ answers' \subseteq answers
  BY DEF ReaderTakes
<1>2. a \in Message
  BY DEF CallsTypeOK
<1>3. CASE Awaited(a) = {}
  <2>1. UNCHANGED <<expected, reader>>
    BY <1>3 DEF ReaderTakes
  <2>2. CallsTypeOK'
    BY <1>1, <2>1 DEF CallsTypeOK
  <2>3. Numbered'
    <3>1. Sent' \subseteq Sent
      BY <1>1, <2>1 DEF Sent, Own, Sending
    <3> QED
      BY <3>1, <1>1, FewerSent
  <2> QED
    BY <1>1, <2>1, <2>2, <2>3 DEF Counted, Waiting, Untouched, Readers,
       AnswersOwnCall, SendsToOpenChannel, NoEntryIsLeft, Own
<1>4. CASE Awaited(a) # {}
  <2>1. PICK e \in Awaited(a) :
            /\ expected' = expected \ {e}
            /\ reader' = [reader EXCEPT ![a.conn] = [to |-> e.call, answer |-> a.call]]
    BY <1>4 DEF ReaderTakes
  <2>2. e \in expected /\ e.op = a.op /\ e.seq = a.seq
    BY DEF Awaited
  <2>3. e.call = a.call
    BY <2>2 DEF Numbered, Sent
  <2>4. a.conn \in WebSockets /\ a.call \in CallIds
    BY <1>2 DEF Message
  <2>5. /\ reader'[a.conn] = [to |-> e.call, answer |-> e.call]
        /\ \A s \in WebSockets \ {a.conn} : reader'[s] = reader[s]
    BY <2>1, <2>3, <2>4 DEF CallsTypeOK
  <2>6. Untouched(e.call)
    BY <2>2 DEF Waiting
  <2>7. CallsTypeOK'
    <3>1. [to |-> e.call, answer |-> a.call] \in Delivery
      BY <2>3, <2>4 DEF Delivery
    <3> QED
      BY <3>1, <1>1, <2>1 DEF CallsTypeOK
  <2>8. Numbered'
    <3>1. Sent' \subseteq Sent
      BY <1>1, <2>1 DEF Sent, Own, Sending
    <3> QED
      BY <3>1, <1>1, FewerSent
  <2>9. \A c : Untouched(c) /\ c # e.call => Untouched(c)'
    BY <1>1, <2>5 DEF Untouched
  <2>10. Waiting'
    <3>1. \A c \in CallIds : c > calls' => Untouched(c)'
      <4>1. e.call \in 1..calls
        <5>1. PICK p \in Callers : Sending(p) /\ Own(p) = e
          BY <2>2 DEF NoEntryIsLeft, Sending
        <5> QED
          BY <5>1 DEF Counted, Sending, Own
      <4>2. \A c \in CallIds : c > calls => c # e.call
        BY <4>1 DEF CallsTypeOK, CallIds
      <4> QED
        BY <4>2, <2>9, <1>1 DEF Waiting
    <3>2. \A p \in Callers : callGo[p].at = "expect" => callGo[p].call # e.call
      BY <2>2, EntryOfAnother DEF Sending
    <3>3. \A f \in expected' : f.call # e.call
      BY <2>1, <2>2, EntriesDiffer
    <3>4. \A p \in Callers : callGo[p].at = "expect" =>
              (callGo'[p].call = callGo[p].call /\ Untouched(callGo[p].call))
      BY <1>1 DEF Waiting
    <3>5. \A c : (Untouched(c) /\ c # e.call) =>
              /\ c \notin hungUp'
              /\ answered'[c] = NoId
              /\ \A s \in WebSockets : reader'[s].to # c
      BY <1>1, <2>5 DEF Untouched
    <3> QED
      BY <1>1, <2>1, <3>1, <3>2, <3>3, <3>4, <3>5 DEF Waiting, Untouched
  <2>11. Readers'
    BY <2>3, <2>4, <2>5 DEF Readers
  <2>12. SendsToOpenChannel'
    BY <1>1, <2>5, <2>6 DEF SendsToOpenChannel, Untouched
  <2> QED
    BY <1>1, <2>1, <2>7, <2>8, <2>10, <2>11, <2>12
    DEF Counted, AnswersOwnCall, NoEntryIsLeft, Own
<1> QED
  BY <1>3, <1>4

LEMMA ReaderSendsKeeps ==
    ASSUME CallsInv, NEW s \in WebSockets, ReaderSends(s)
    PROVE  CallsInv'
PROOF
<1> USE DEF CallsInv
<1> DEFINE c == reader[s].to
<1>1. UNCHANGED <<webSocket, sockets, sequences, expected, hungUp, callGo,
                  messages, answers, calls>>
  BY DEF ReaderSends
<1>2. /\ reader[s] # NoDelivery
      /\ answered' = [answered EXCEPT ![c] =
             IF answered[c] = NoId THEN reader[s].answer ELSE answered[c]]
      /\ reader' = [reader EXCEPT ![s] = NoDelivery]
  BY DEF ReaderSends
<1>3. c \in CallIds /\ reader[s].answer = c /\ answered[c] = NoId
  BY <1>2 DEF Readers, SendsToOpenChannel
<1>4. answered'[c] = c /\ \A d \in CallIds \ {c} : answered'[d] = answered[d]
  BY <1>2, <1>3 DEF CallsTypeOK
<1>5. /\ reader'[s] = NoDelivery
      /\ \A r \in WebSockets \ {s} : reader'[r] = reader[r]
  BY <1>2 DEF CallsTypeOK
<1>6. CallsTypeOK'
  BY <1>1, <1>2, <1>3 DEF CallsTypeOK, Delivery, NoDelivery
<1>7. Numbered'
  <2>1. Sent' \subseteq Sent
    BY <1>1 DEF Sent, Own, Sending
  <2> QED
    BY <2>1, <1>1, FewerSent
<1>8. \A d \in CallIds : Untouched(d) => Untouched(d)'
  <2>1. TAKE d \in CallIds
  <2>2. HAVE Untouched(d)
  <2>3. d # c /\ d # NoId
    BY <2>2 DEF Untouched, CallIds, NoId
  <2> QED
    BY <2>2, <2>3, <1>1, <1>4, <1>5 DEF Untouched, NoDelivery
<1>9. Waiting'
  <2>1. \A p \in Callers : callGo[p].at = "expect" =>
            (callGo[p].call \in CallIds /\ Untouched(callGo[p].call))
    BY CallsAssumption DEF Waiting, Counted, CallsTypeOK, CallIds
  <2>2. \A e \in expected : e.call \in CallIds /\ Untouched(e.call)
    BY DEF Waiting, CallsTypeOK, Message
  <2>3. \A p \in Callers : callGo'[p].at = "expect" => Untouched(callGo[p].call)'
    BY <1>1, <1>8, <2>1 DEF Untouched
  <2> QED
    BY <1>1, <1>8, <2>2, <2>3 DEF Waiting
<1>10. Readers' /\ SendsToOpenChannel'
  <2>1. \A r \in WebSockets \ {s} : reader[r] # NoDelivery => reader[r].to # c
    BY <1>2 DEF SendsToOpenChannel
  <2>2. \A r \in WebSockets \ {s} :
            reader[r] # NoDelivery => reader[r].to \in CallIds /\ reader[r].to # NoId
    BY DEF Readers, CallIds, NoId
  <2>3. SendsToOpenChannel'
    BY <1>1, <1>4, <1>5, <2>1, <2>2 DEF SendsToOpenChannel, NoDelivery
  <2> QED
    BY <1>5, <2>3 DEF Readers
<1>11. AnswersOwnCall'
  BY <1>4 DEF AnswersOwnCall
<1> QED
  BY <1>1, <1>6, <1>7, <1>9, <1>10, <1>11 DEF Counted, NoEntryIsLeft, Own

LEMMA DrainSocketKeeps ==
    ASSUME CallsInv, NEW s \in WebSockets, DrainSocket(s)
    PROVE  CallsInv'
PROOF
<1> USE DEF CallsInv
<1>1. Drains(s, expected)
      /\ UNCHANGED <<webSocket, sockets, sequences, answered, callGo, reader,
                     messages, answers, calls>>
  BY DEF DrainSocket
<1>2. /\ expected' \subseteq expected
      /\ hungUp' \subseteq CallIds
      /\ Waiting'
      /\ Readers' /\ AnswersOwnCall' /\ SendsToOpenChannel'
  BY <1>1, DrainKeeps
<1>3. CallsTypeOK'
  BY <1>1, <1>2 DEF CallsTypeOK
<1>4. Numbered'
  <2>1. Sent' \subseteq Sent
    BY <1>1, <1>2 DEF Sent, Own, Sending
  <2> QED
    BY <2>1, <1>1, FewerSent
<1> QED
  BY <1>1, <1>2, <1>3, <1>4 DEF Counted, NoEntryIsLeft, Own

\* A socket that is given up, or a step of another part of the program.
LEMMA OtherStepKeeps ==
    ASSUME CallsInv, webSocket' \in WebSockets \cup {NoWebSocket},
           UNCHANGED <<sockets, sequences, expected, answered, hungUp, callGo,
                       reader, messages, answers, calls>>
    PROVE  CallsInv'
PROOF
<1> USE DEF CallsInv
<1>1. CallsTypeOK'
  BY DEF CallsTypeOK
<1>2. Numbered'
  <2>1. Sent' \subseteq Sent
    BY DEF Sent, Own, Sending
  <2> QED
    BY <2>1, FewerSent
<1> QED
  BY <1>1, <1>2 DEF Counted, Waiting, Untouched, Readers, AnswersOwnCall,
     SendsToOpenChannel, NoEntryIsLeft, Own

\* The inductive invariant, from which the theorems below follow.
LEMMA CallsInvariant == CallsSpec => []CallsInv
PROOF
<1>1. CallsInv /\ [CallsNext]_callVars => CallsInv'
  <2> SUFFICES ASSUME CallsInv, [CallsNext]_callVars PROVE CallsInv'
    OBVIOUS
  <2>1. ASSUME NEW p \in Callers, NEW op \in Operations, CallBegins(p, op)
        PROVE  CallsInv'
    BY <2>1, CallBeginsKeeps
  <2>2. ASSUME NEW p \in Callers, CallStep(p) PROVE CallsInv'
    BY <2>2, ExpectKeeps, WriteMessageKeeps, WriteMessageFailsKeeps, AwaitEndsKeeps
    DEF CallStep
  <2>3. ASSUME NEW p \in Callers, AwaitGivesUp(p) PROVE CallsInv'
    BY <2>3, AwaitEndsKeeps
  <2>4. ASSUME NEW m \in messages, Serve(m) PROVE CallsInv'
    BY <2>4, ServeKeeps
  <2>5. ASSUME NEW s \in WebSockets, ReaderStep(s) PROVE CallsInv'
    BY <2>5, ReaderTakesKeeps, ReaderSendsKeeps DEF ReaderStep
  <2>6. ASSUME NEW s \in WebSockets, DrainSocket(s) PROVE CallsInv'
    BY <2>6, DrainSocketKeeps
  <2>7. CASE AbandonSocket
    BY <2>7, OtherStepKeeps DEF AbandonSocket
  <2>8. CASE UNCHANGED callVars
    <3>1. webSocket' \in WebSockets \cup {NoWebSocket}
      BY <2>8 DEF callVars, CallsInv, CallsTypeOK
    <3> QED
      BY <2>8, <3>1, OtherStepKeeps DEF callVars
  <2> QED
    BY <2>1, <2>2, <2>3, <2>4, <2>5, <2>6, <2>7, <2>8 DEF CallsNext
<1> QED
  BY <1>1, CallsInitInv, PTL DEF CallsSpec

\* The variables of the call layer keep their types.
\* About: call, expect and handleMessage.
THEOREM CallsTypeCorrect == CallsSpec => []CallsTypeOK
PROOF
<1>1. CallsInv => CallsTypeOK
  BY DEF CallsInv
<1> QED
  BY <1>1, CallsInvariant, PTL

\* No call is given the answer to another one, however many of them are in
\* flight, give up or outlive their socket.
\* About: call and handleMessage.
THEOREM AnswersOwnCallHolds == CallsSpec => []AnswersOwnCall
PROOF
<1>1. CallsInv => AnswersOwnCall
  BY DEF CallsInv
<1> QED
  BY <1>1, CallsInvariant, PTL

\* A reader never sends to a channel that a drain has closed or that is full.
\* About: handleMessage and drainExpected.
THEOREM SendsToOpenChannelHolds == CallsSpec => []SendsToOpenChannel
PROOF
<1>1. CallsInv => SendsToOpenChannel
  BY DEF CallsInv
<1> QED
  BY <1>1, CallsInvariant, PTL

\* The table of expected answers does not outgrow the calls in flight.
\* About: call, release and drainExpected.
THEOREM NoEntryIsLeftHolds == CallsSpec => []NoEntryIsLeft
PROOF
<1>1. CallsInv => NoEntryIsLeft
  BY DEF CallsInv
<1> QED
  BY <1>1, CallsInvariant, PTL
=============================================================================
