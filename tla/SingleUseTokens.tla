-------------------------- MODULE SingleUseTokens --------------------------
(***************************************************************************)
(* What refresh-token rotation promises when the requests of a client do   *)
(* not overlap.  A login opens a chain of refresh tokens.  The live token  *)
(* of a chain is consumed once, and only a consumed token has a successor; *)
(* a token that was closed (logout, or the purge that answers a reuse) is  *)
(* never followed by another one.                                          *)
(***************************************************************************)
CONSTANTS
    Tokens,     \* refresh tokens
    None        \* "no chain": the token has not been issued

VARIABLES
    chain,      \* chain[t]: first token of the chain of t
    alive,      \* tokens a client may still exchange
    pending     \* tokens consumed whose successor is not issued yet

vars == <<chain, alive, pending>>

Init ==
    /\ chain = [t \in Tokens |-> None]
    /\ alive = {}
    /\ pending = {}

Issue(t, c) ==
    /\ chain[t] = None
    /\ chain' = [chain EXCEPT ![t] = c]
    /\ alive' = alive \cup {t}

Open(t) ==
    /\ Issue(t, t)
    /\ UNCHANGED pending

Consume(t) ==
    /\ t \in alive
    /\ alive' = alive \ {t}
    /\ pending' = pending \cup {t}
    /\ UNCHANGED chain

Reissue(p, t) ==
    /\ p \in pending
    /\ pending' = pending \ {p}
    /\ Issue(t, chain[p])

\* The successor is never issued: the request failed after the consumption.
Drop(p) ==
    /\ p \in pending
    /\ pending' = pending \ {p}
    /\ UNCHANGED <<chain, alive>>

Close(S) ==
    /\ alive' = alive \ S
    /\ UNCHANGED <<chain, pending>>

Next ==
    \/ \E t \in Tokens : Open(t) \/ Consume(t) \/ Drop(t)
    \/ \E p, t \in Tokens : Reissue(p, t)
    \/ \E S \in SUBSET Tokens : Close(S)

Spec == Init /\ [][Next]_vars
=============================================================================
