------------------------------- MODULE RtaCalls -------------------------------
(***************************************************************************)
(* The call layer of rta.Conn: a call numbers its message, leaves a        *)
(* channel in the table of expected answers and waits on it; the reader of *)
(* a socket takes the channel out of the table and sends the answer, or a  *)
(* drain takes it out and closes it.  RtaConn models what calls are made   *)
(* for; this module looks inside one.                                      *)
(*                                                                         *)
(* A socket can be given up while its reader still has a message in hand,  *)
(* so that readers of several sockets run at a time.  A channel is named   *)
(* by its call, the calls are counted, and the numbers of an operation     *)
(* never wrap: it would take 2^32 calls.  The service answers in the form  *)
(* that readResponse decodes, and the Conn stays open; closing it ends     *)
(* every call, with or without an answer (RtaConn).                        *)
(***************************************************************************)
EXTENDS Naturals, FiniteSets, Goroutines

CONSTANTS
    MaxCalls,       \* bound: calls that are ever made
    MaxWebSockets   \* bound: sockets that are ever dialed

ASSUME CallsAssumption == MaxCalls \in Nat /\ MaxWebSockets \in Nat

Operations == {"subscribe", "unsubscribe"}
WebSockets == 1..MaxWebSockets
NoWebSocket == 0
CallIds == 1..MaxCalls
NoId == 0

VARIABLES
    webSocket,      \* Conn.conn
    sockets,        \* number of sockets dialed so far
    sequences,      \* Conn.sequences
    expected,       \* Conn.expected
    answered,       \* answered[c]: the answer in the channel of call c
    hungUp,         \* the calls whose channel is closed
    callGo,         \* callGo[p]: the call goroutine p makes
    reader,         \* reader[s]: the channel and the answer it is about to send
    messages,       \* messages on their way to the service
    answers,        \* answers on their way back
    calls           \* number of calls so far

callVars == <<webSocket, sockets, sequences, expected, answered, hungUp, callGo,
              reader, messages, answers, calls>>

-----------------------------------------------------------------------------

\* A message and its answer are known by their socket, operation and number;
\* call says who sent the message, which the answer does not tell.
Message == [conn : WebSockets, op : Operations, seq : Nat, call : CallIds]

Calling == [at : {"idle", "expect", "write", "await"}, op : Operations,
            conn : WebSockets \cup {NoWebSocket}, seq : Nat,
            call : CallIds \cup {NoId}]

NotCalling == [at |-> "idle", op |-> "subscribe", conn |-> NoWebSocket,
               seq |-> 0, call |-> NoId]

Delivery == [to : CallIds \cup {NoId}, answer : CallIds \cup {NoId}]

NoDelivery == [to |-> NoId, answer |-> NoId]

CallsTypeOK ==
    /\ webSocket \in WebSockets \cup {NoWebSocket}
    /\ sockets \in 0..MaxWebSockets
    /\ sequences \in [Operations -> Nat]
    /\ expected \subseteq Message
    /\ answered \in [CallIds -> CallIds \cup {NoId}]
    /\ hungUp \subseteq CallIds
    /\ callGo \in [Callers -> Calling]
    /\ reader \in [WebSockets -> Delivery]
    /\ messages \subseteq Message
    /\ answers \subseteq Message
    /\ calls \in 0..MaxCalls

CallsInit ==
    /\ webSocket = NoWebSocket
    /\ sockets = 0
    /\ sequences = [op \in Operations |-> 0]
    /\ expected = {}
    /\ answered = [c \in CallIds |-> NoId]
    /\ hungUp = {}
    /\ callGo = [p \in Callers |-> NotCalling]
    /\ reader = [s \in WebSockets |-> NoDelivery]
    /\ messages = {}
    /\ answers = {}
    /\ calls = 0

\* The message of goroutine p, and its entry in the table.
Own(p) == [conn |-> callGo[p].conn, op |-> callGo[p].op, seq |-> callGo[p].seq,
           call |-> callGo[p].call]

CallReturns(p) == callGo' = [callGo EXCEPT ![p] = NotCalling]

-----------------------------------------------------------------------------
(* call *)

\* ensureWebSocket, which dials when there is no socket.
CallBegins(p, op) ==
    /\ callGo[p].at = "idle"
    /\ calls < MaxCalls
    /\ calls' = calls + 1
    /\ \/ webSocket # NoWebSocket /\ UNCHANGED <<webSocket, sockets>>
       \/ /\ webSocket = NoWebSocket
          /\ sockets < MaxWebSockets
          /\ sockets' = sockets + 1
          /\ webSocket' = sockets + 1
    /\ callGo' = [callGo EXCEPT ![p] =
           [at |-> "expect", op |-> op, conn |-> webSocket', seq |-> 0,
            call |-> calls + 1]]
    /\ UNCHANGED <<sequences, expected, answered, hungUp, reader, messages, answers>>

\* Mutant: a message gets the number of the calls that wait for an answer.
ExpectByPending(p) ==
    /\ callGo[p].at = "expect"
    /\ LET op == callGo[p].op
           n == Cardinality({e \in expected : e.op = op}) + 1
       IN  /\ sequences' = [sequences EXCEPT ![op] = n]
           /\ callGo' = [callGo EXCEPT ![p].at = "write", ![p].seq = n]
           /\ expected' = expected \cup {[Own(p) EXCEPT !.seq = n]}
    /\ UNCHANGED <<webSocket, sockets, answered, hungUp, reader, messages,
                   answers, calls>>

\* The next number, and expect.
Expect(p) ==
    /\ callGo[p].at = "expect"
    /\ LET op == callGo[p].op
           n == sequences[op] + 1
       IN  /\ sequences' = [sequences EXCEPT ![op] = n]
           /\ callGo' = [callGo EXCEPT ![p].at = "write", ![p].seq = n]
           /\ expected' = expected \cup {[Own(p) EXCEPT !.seq = n]}
    /\ UNCHANGED <<webSocket, sockets, answered, hungUp, reader, messages,
                   answers, calls>>

WriteMessage(p) ==
    /\ callGo[p].at = "write"
    /\ messages' = messages \cup {Own(p)}
    /\ callGo' = [callGo EXCEPT ![p].at = "await"]
    /\ UNCHANGED <<webSocket, sockets, sequences, expected, answered, hungUp,
                   reader, answers, calls>>

\* drainExpected: the entries of a socket go and their channels are closed.
Drains(s, entries) ==
    /\ expected' = {e \in entries : e.conn # s}
    /\ hungUp' = hungUp \cup {e.call : e \in {e \in entries : e.conn = s}}

\* The call releases its entry, drains its socket, which may be an old one, and
\* starts a reconnect.  The message may have been written all the same.
WriteMessageFails(p) ==
    /\ callGo[p].at = "write"
    /\ Drains(callGo[p].conn, expected \ {Own(p)})
    /\ messages' = messages \/ messages' = messages \cup {Own(p)}
    /\ CallReturns(p)
    /\ UNCHANGED <<webSocket, sockets, sequences, answered, reader, answers, calls>>

\* The answer has come, or the channel was closed.
AwaitEnds(p) ==
    /\ callGo[p].at = "await"
    /\ answered[callGo[p].call] # NoId \/ callGo[p].call \in hungUp
    /\ CallReturns(p)
    /\ UNCHANGED <<webSocket, sockets, sequences, expected, answered, hungUp,
                   reader, messages, answers, calls>>

\* Mutant: the entry of a call that gave up stays in the table.
AwaitGivesUpUnreleased(p) ==
    /\ callGo[p].at = "await"
    /\ CallReturns(p)
    /\ UNCHANGED <<webSocket, sockets, sequences, expected, answered, hungUp,
                   reader, messages, answers, calls>>

\* The context of the call or of the Conn ends.
AwaitGivesUp(p) ==
    /\ callGo[p].at = "await"
    /\ expected' = expected \ {Own(p)}
    /\ CallReturns(p)
    /\ UNCHANGED <<webSocket, sockets, sequences, answered, hungUp, reader,
                   messages, answers, calls>>

-----------------------------------------------------------------------------
(* The service and the readers *)

Serve(m) ==
    /\ m \in messages
    /\ messages' = messages \ {m}
    /\ answers' = answers \cup {m}
    /\ UNCHANGED <<webSocket, sockets, sequences, expected, answered, hungUp,
                   callGo, reader, calls>>

\* The entry of the answer a, if there is one; one of another socket is stale.
Awaited(a) == {e \in expected : e.op = a.op /\ e.seq = a.seq /\ e.conn = a.conn}

\* Mutant: the entry stays in the table until the answer is sent.
ReaderLooks(a) ==
    /\ a \in answers
    /\ reader[a.conn] = NoDelivery
    /\ answers' = answers \ {a}
    /\ \/ Awaited(a) = {} /\ UNCHANGED reader
       \/ \E e \in Awaited(a) :
              reader' = [reader EXCEPT ![a.conn] = [to |-> e.call, answer |-> a.call]]
    /\ UNCHANGED <<webSocket, sockets, sequences, expected, answered, hungUp,
                   callGo, messages, calls>>

\* handleMessage under expectedMu.
ReaderTakes(a) ==
    /\ a \in answers
    /\ reader[a.conn] = NoDelivery
    /\ answers' = answers \ {a}
    /\ \/ Awaited(a) = {} /\ UNCHANGED <<expected, reader>>
       \/ \E e \in Awaited(a) :
              /\ expected' = expected \ {e}
              /\ reader' = [reader EXCEPT ![a.conn] = [to |-> e.call, answer |-> a.call]]
    /\ UNCHANGED <<webSocket, sockets, sequences, answered, hungUp, callGo,
                   messages, calls>>

\* handleMessage after the lock; it drops an answer for which the channel has
\* no room, and would panic on one that is closed.
ReaderSends(s) ==
    /\ reader[s] # NoDelivery
    /\ LET c == reader[s].to
       IN  answered' = [answered EXCEPT ![c] = IF @ = NoId THEN reader[s].answer ELSE @]
    /\ reader' = [reader EXCEPT ![s] = NoDelivery]
    /\ UNCHANGED <<webSocket, sockets, sequences, expected, hungUp, callGo,
                   messages, answers, calls>>

\* drainExpected on behalf of a reader that failed, of closeWebSocket or of a
\* write that failed; it may concern a socket that is still the current one.
DrainSocket(s) ==
    /\ \E e \in expected : e.conn = s
    /\ Drains(s, expected)
    /\ UNCHANGED <<webSocket, sockets, sequences, answered, callGo, reader,
                   messages, answers, calls>>

\* The reconnect gives the socket up.
AbandonSocket ==
    /\ webSocket # NoWebSocket
    /\ webSocket' = NoWebSocket
    /\ UNCHANGED <<sockets, sequences, expected, answered, hungUp, callGo, reader,
                   messages, answers, calls>>

-----------------------------------------------------------------------------

CallStep(p) == Expect(p) \/ WriteMessage(p) \/ WriteMessageFails(p) \/ AwaitEnds(p)

ReaderStep(s) ==
    \/ \E a \in answers : a.conn = s /\ ReaderTakes(a)
    \/ ReaderSends(s)

CallsNext ==
    \/ \E p \in Callers :
        \/ \E op \in Operations : CallBegins(p, op)
        \/ CallStep(p) \/ AwaitGivesUp(p)
    \/ \E m \in messages : Serve(m)
    \/ \E s \in WebSockets : ReaderStep(s) \/ DrainSocket(s)
    \/ AbandonSocket

CallsSpec == CallsInit /\ [][CallsNext]_callVars

\* The service answers and the readers are scheduled; the reader of a socket
\* that was given up fails, and then drains it.
AnswersCome ==
    \/ \E m \in messages : Serve(m)
    \/ \E s \in WebSockets : ReaderStep(s) \/ (s # webSocket /\ DrainSocket(s))

CallsFairness ==
    /\ \A p \in Callers : WF_callVars(CallStep(p))
    /\ WF_callVars(AnswersCome)

-----------------------------------------------------------------------------

\* A call is only ever given the answer to its own message, although an answer
\* carries no more than a number and may be read long after its call gave up,
\* or from a socket that has been replaced.
\* About: call, expect and handleMessage, from several restorers at a time.
AnswersOwnCall == \A c \in CallIds : answered[c] \in {NoId, c}

\* The channel to which a reader is about to send is open and has room: the
\* send can neither panic nor lose the answer.
\* About: handleMessage and drainExpected, which run concurrently and both take
\* a channel out of the table before they use it.
SendsToOpenChannel ==
    \A s \in WebSockets :
        reader[s] # NoDelivery =>
            /\ reader[s].to \notin hungUp
            /\ answered[reader[s].to] = NoId
            /\ \A r \in WebSockets : reader[r].to = reader[s].to => r = s

\* The table only holds entries of calls that are being made.
\* About: call, which releases its entry however it ends.
NoEntryIsLeft ==
    \A e \in expected :
        \E p \in Callers : callGo[p].at \in {"write", "await"} /\ Own(p) = e
=============================================================================
