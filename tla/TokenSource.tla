----------------------------- MODULE TokenSource -----------------------------
(***************************************************************************)
(* What nsal.TokenSource and nsal.TokenInvalidator promise to their users: *)
(* a call of XSTSToken for a relying party fails or returns a token, but   *)
(* never one that InvalidateXSTSToken had discarded for that relying party *)
(* before the call began.                                                  *)
(***************************************************************************)
CONSTANTS Callers, RelyingParties, Tokens, NoToken, Nowhere

VARIABLES
    calls,      \* calls[p]: the call that goroutine p makes
    rejected    \* rejected[rp]: the tokens that were discarded for rp

vars == <<calls, rejected>>

NoCall == [at |-> "idle", rp |-> Nowhere, token |-> NoToken, banned |-> {}]

Init ==
    /\ calls = [p \in Callers |-> NoCall]
    /\ rejected = [rp \in RelyingParties |-> {}]

Ask(p, rp) ==
    /\ calls[p].at = "idle"
    /\ calls' = [calls EXCEPT ![p] = [at |-> "asking", rp |-> rp,
                                      token |-> NoToken,
                                      banned |-> rejected[rp]]]
    /\ UNCHANGED rejected

Answer(p) ==
    /\ calls[p].at = "asking"
    /\ \E t \in Tokens \ calls[p].banned :
          calls' = [calls EXCEPT ![p].at = "answered", ![p].token = t]
    /\ UNCHANGED rejected

\* The call fails, or its token has been used and was accepted.
Finish(p) ==
    /\ calls[p].at \in {"asking", "answered"}
    /\ calls' = [calls EXCEPT ![p] = NoCall]
    /\ UNCHANGED rejected

\* The service did not accept the token.
Invalidate(p) ==
    /\ calls[p].at = "answered"
    /\ rejected' = [rejected EXCEPT ![calls[p].rp] = @ \cup {calls[p].token}]
    /\ calls' = [calls EXCEPT ![p] = NoCall]

Next ==
    \E p \in Callers :
        \/ \E rp \in RelyingParties : Ask(p, rp)
        \/ Answer(p) \/ Finish(p) \/ Invalidate(p)

Spec == Init /\ [][Next]_vars
=============================================================================
