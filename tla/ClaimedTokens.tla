--------------------------- MODULE ClaimedTokens ---------------------------
(***************************************************************************)
(* What refresh-token rotation promises, however many requests overlap.    *)
(* A login opens a chain of refresh tokens.  A request claims a token      *)
(* while it is alive; only a claim consumes it, and each claim that did so *)
(* gives it at most one successor, in the same chain.  A token that was    *)
(* consumed, or closed (logout, or the purge that answers a reuse), is     *)
(* never claimed again: what it can still give is what was claimed before. *)
(***************************************************************************)
CONSTANTS
    Tokens,     \* refresh tokens
    Slots,      \* requests that can be under way at one time
    None        \* "no chain", "no token"

VARIABLES
    chain,      \* chain[t]: first token of the chain of t
    alive,      \* tokens that may be claimed
    claim,      \* claim[s]: token claimed by s and not consumed yet
    spent       \* spent[s]: token s consumed and owes a successor

vars == <<chain, alive, claim, spent>>

Init ==
    /\ chain = [t \in Tokens |-> None]
    /\ alive = {}
    /\ claim = [s \in Slots |-> None]
    /\ spent = [s \in Slots |-> None]

Issue(t, c) ==
    /\ chain[t] = None
    /\ chain' = [chain EXCEPT ![t] = c]
    /\ alive' = alive \cup {t}

Open(t) ==
    /\ Issue(t, t)
    /\ UNCHANGED <<claim, spent>>

Claim(s, t) ==
    /\ claim[s] = None /\ spent[s] = None
    /\ t \in alive
    /\ claim' = [claim EXCEPT ![s] = t]
    /\ UNCHANGED <<chain, alive, spent>>

Consume(s) ==
    /\ claim[s] # None
    /\ alive' = alive \ {claim[s]}
    /\ spent' = [spent EXCEPT ![s] = claim[s]]
    /\ claim' = [claim EXCEPT ![s] = None]
    /\ UNCHANGED chain

Reissue(s, t) ==
    /\ spent[s] # None
    /\ Issue(t, chain[spent[s]])
    /\ spent' = [spent EXCEPT ![s] = None]
    /\ UNCHANGED claim

\* The request ends early: the claim, or the successor, is given up.
Drop(s) ==
    /\ claim' = [claim EXCEPT ![s] = None]
    /\ spent' = [spent EXCEPT ![s] = None]
    /\ UNCHANGED <<chain, alive>>

Close(S) ==
    /\ alive' = alive \ S
    /\ UNCHANGED <<chain, claim, spent>>

Next ==
    \/ \E t \in Tokens : Open(t)
    \/ \E s \in Slots : Consume(s) \/ Drop(s)
    \/ \E s \in Slots, t \in Tokens : Claim(s, t) \/ Reissue(s, t)
    \/ \E S \in SUBSET Tokens : Close(S)

Spec == Init /\ [][Next]_vars
=============================================================================
