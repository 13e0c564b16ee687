---------------------------- MODULE MCRtaSafety ----------------------------
(***************************************************************************)
(* RtaConn with outages, in behaviours of two kinds.  In a calm behaviour, *)
(* outages keep clear of the operations and of each other.  In another one *)
(* they come as Overlaps permits, but one goroutine at a time uses the     *)
(* Conn.                                                                   *)
(***************************************************************************)
EXTENDS RtaConn, TLC

VARIABLE calm

\* No operation starts in an outage, and no socket drops during an operation or
\* before the last outage is dealt with.
KeepsClear ==
    /\ \A p \in Callers : go[p].at = "idle" /\ go'[p].at # "idle" => ~Outage
    /\ \A s \in Sockets :
           Drop(s) => ~Outage /\ \A p \in Callers : go[p].at = "idle"

OneAtATime ==
    \A p, q \in Callers : go'[p].at # "idle" /\ go'[q].at # "idle" => p = q

SafetyInit == Init /\ calm \in BOOLEAN

SafetyNext ==
    /\ Next
    /\ \/ calm /\ KeepsClear
       \/ ~calm /\ OneAtATime
    /\ calm' = calm

SafetySpec == SafetyInit /\ [][SafetyNext]_<<vars, calm>>

\* Callers, subscriptions and ids are interchangeable.
Symmetry == Permutations(Callers) \cup Permutations(Subs)
            \cup Permutations(Ids)

-----------------------------------------------------------------------------

\* Outages that keep clear of the operations strand nobody: see NoStranded.
\* About: runReconnect and resubscribe, with answers that come late.
CalmStrandsNobody == calm => NoStranded

\* When outages keep clear of the operations, no socket is open once Close has
\* come to rest, although it may have come during a dial.
\* About: the context that ensureWebSocket and runReconnect look at under connMu.
CalmCloseLeavesNoOpenSocket == calm => ClosedLeavesNoOpenSocket
=============================================================================
