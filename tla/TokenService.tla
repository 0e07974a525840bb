---------------------------- MODULE TokenService ----------------------------
(***************************************************************************)
(* Refresh tokens: internal/service/token_service.go over the table        *)
(* refresh_tokens (internal/repository/auth_repo.go).                      *)
(*                                                                         *)
(* Every SQL statement runs alone (there is no transaction), and every     *)
(* HTTP request is a goroutine: one action per statement, and the requests *)
(* interleave between any two of them.  A request may also stop between    *)
(* two statements (client gone and context cancelled, database error,      *)
(* process killed): Abandon.                                               *)
(***************************************************************************)
EXTENDS Naturals, FiniteSets

CONSTANTS
    Users,      \* rows of users
    Tokens,     \* refresh tokens; a raw token and its hash are one value
    Requests,   \* request slots: goroutines that can be running at one time
    Faults,     \* steps before which a request may stop
    None        \* no user, no token

ASSUME NoneAssumption == None \notin Users \cup Tokens
ASSUME RequestsAssumption == IsFiniteSet(Requests)

VARIABLES
    owner,      \* owner[t]: user_id of the row of t, None when there is no row
    revoked,    \* rows with revoked_at set
    expired,    \* rows whose expires_at has passed
    pc,         \* pc[r]: the next statement of request r
    presented,  \* presented[r]: the token request r was called with
    parent,     \* history: the token exchanged for t, None for a login
    root,       \* history: the login token t descends from
    purged      \* history: purged[u] = tokens of u at its latest purge

rows == <<owner, revoked, expired>>
history == <<parent, root, purged>>
vars == <<owner, revoked, expired, pc, presented, parent, root, purged>>

Steps == {"idle", "loaded", "rotated", "reuse", "logout"}

ASSUME FaultsAssumption == Faults \subseteq Steps \ {"idle"}

TypeOK ==
    /\ owner \in [Tokens -> Users \cup {None}]
    /\ revoked \in SUBSET Tokens
    /\ expired \in SUBSET Tokens
    /\ pc \in [Requests -> Steps]
    /\ presented \in [Requests -> Tokens \cup {None}]
    /\ parent \in [Tokens -> Tokens \cup {None}]
    /\ root \in [Tokens -> Tokens \cup {None}]
    /\ purged \in [Users -> SUBSET Tokens]

Issued == {t \in Tokens : owner[t] # None}
Live == Issued \ revoked
TokensOf(u) == {t \in Tokens : owner[t] = u}

Init ==
    /\ owner = [t \in Tokens |-> None]
    /\ revoked = {}
    /\ expired = {}
    /\ pc = [r \in Requests |-> "idle"]
    /\ presented = [r \in Requests |-> None]
    /\ parent = [t \in Tokens |-> None]
    /\ root = [t \in Tokens |-> None]
    /\ purged = [u \in Users |-> {}]

-----------------------------------------------------------------------------
\* GenerateTokenPair: 32 random bytes are a token nobody has, and the row is
\* one INSERT.  p is the token exchanged, None at a login.
GenerateTokenPair(u, p, t) ==
    /\ owner[t] = None
    /\ owner' = [owner EXCEPT ![t] = u]
    /\ parent' = [parent EXCEPT ![t] = p]
    /\ root' = [root EXCEPT ![t] = IF p = None THEN t ELSE root[p]]
    /\ UNCHANGED <<revoked, expired, purged>>

\* The end of VerifySMSCode and of WeChatLogin.
Login(u, t) ==
    /\ GenerateTokenPair(u, None, t)
    /\ UNCHANGED <<pc, presented>>

Goto(r, step) == pc' = [pc EXCEPT ![r] = step]

Finish(r) ==
    /\ Goto(r, "idle")
    /\ presented' = [presented EXCEPT ![r] = None]

\* Fault: a token that is revoked is exchanged like any other.
RefreshLoadUnchecked(r, t) ==
    /\ pc[r] = "idle"
    /\ t \in Issued \ expired
    /\ Goto(r, "loaded")
    /\ presented' = [presented EXCEPT ![r] = t]
    /\ UNCHANGED <<rows, history>>

\* RefreshTokens reads the row by hash and decides on what it read.  A token
\* without a row, and an expired one, are answered 401 and change nothing.
RefreshLoad(r, t) ==
    /\ pc[r] = "idle"
    /\ t \in Issued
    /\ \/ t \in revoked /\ Goto(r, "reuse")
       \/ t \notin revoked /\ t \notin expired /\ Goto(r, "loaded")
    /\ presented' = [presented EXCEPT ![r] = t]
    /\ UNCHANGED <<rows, history>>

\* The token expired between the SELECT and the comparison with time.Now().
RefreshExpired(r) ==
    /\ pc[r] = "loaded"
    /\ presented[r] \in expired
    /\ Finish(r)
    /\ UNCHANGED <<rows, history>>

\* Faults: the update is forgotten, or it is sent for the row of the parent.
RefreshRotateForgets(r) ==
    /\ pc[r] = "loaded"
    /\ Goto(r, "rotated")
    /\ UNCHANGED <<rows, presented, history>>

RefreshRotateParent(r) ==
    /\ pc[r] = "loaded"
    /\ revoked' = revoked \cup {parent[presented[r]]}
    /\ Goto(r, "rotated")
    /\ UNCHANGED <<owner, expired, presented, history>>

\* UPDATE ... SET revoked_at = NOW() WHERE id = $1: unconditional, it does
\* not notice that another request revoked the row since it was read.
RefreshRotate(r) ==
    /\ pc[r] = "loaded"
    /\ revoked' = revoked \cup {presented[r]}
    /\ Goto(r, "rotated")
    /\ UNCHANGED <<owner, expired, presented, history>>

\* The user is read and the new pair generated for the user of the row.
RefreshMint(r, t) ==
    /\ pc[r] = "rotated"
    /\ GenerateTokenPair(owner[presented[r]], presented[r], t)
    /\ Finish(r)

\* Fault: only the token presented is revoked.
RefreshPurgeOne(r) ==
    /\ pc[r] = "reuse"
    /\ revoked' = revoked \cup {presented[r]}
    /\ LET u == owner[presented[r]] IN
         purged' = [purged EXCEPT ![u] = TokensOf(u)]
    /\ Finish(r)
    /\ UNCHANGED <<owner, expired, parent, root>>

\* A revoked token was presented: RevokeAllUserTokens, then 401.
RefreshPurge(r) ==
    /\ pc[r] = "reuse"
    /\ LET u == owner[presented[r]] IN
         /\ revoked' = revoked \cup TokensOf(u)
         /\ purged' = [purged EXCEPT ![u] = TokensOf(u)]
    /\ Finish(r)
    /\ UNCHANGED <<owner, expired, parent, root>>

\* Logout: the row is read by hash, whatever its state, then revoked by id.
LogoutLoad(r, t) ==
    /\ pc[r] = "idle"
    /\ t \in Issued
    /\ Goto(r, "logout")
    /\ presented' = [presented EXCEPT ![r] = t]
    /\ UNCHANGED <<rows, history>>

LogoutRevoke(r) ==
    /\ pc[r] = "logout"
    /\ revoked' = revoked \cup {presented[r]}
    /\ Finish(r)
    /\ UNCHANGED <<owner, expired, history>>

\* The request stops before its next statement, or that statement fails; the
\* error of RevokeAllUserTokens is dropped, every other one is answered 500.
Abandon(r) ==
    /\ pc[r] \in Faults
    /\ Finish(r)
    /\ UNCHANGED <<rows, history>>

\* expires_at passes.  A token is issued after the one it replaces was, for
\* the same duration, so it expires later.
Expire(t) ==
    /\ t \in Issued \ expired
    /\ parent[t] # None => parent[t] \in expired
    /\ expired' = expired \cup {t}
    /\ UNCHANGED <<owner, revoked, pc, presented, history>>

-----------------------------------------------------------------------------
RequestStep(r) ==
    \/ RefreshExpired(r)
    \/ RefreshRotate(r)
    \/ \E t \in Tokens : RefreshMint(r, t)
    \/ RefreshPurge(r)
    \/ LogoutRevoke(r)

Next ==
    \/ \E u \in Users, t \in Tokens : Login(u, t)
    \/ \E r \in Requests, t \in Tokens : RefreshLoad(r, t) \/ LogoutLoad(r, t)
    \/ \E r \in Requests : RequestStep(r) \/ Abandon(r)
    \/ \E t \in Tokens : Expire(t)

Spec == Init /\ [][Next]_vars

-----------------------------------------------------------------------------
\* A token obtained by a refresh was paid for by the token presented: that
\* one is revoked, belongs to the same user and descends from the same login.
\* (RefreshTokens revokes before it generates.)
RotationConsumesParent ==
    \A t \in Tokens :
        parent[t] # None =>
            /\ parent[t] \in revoked
            /\ owner[parent[t]] = owner[t]
            /\ root[parent[t]] = root[t]

Children(p) == {t \in Tokens : parent[t] = p}

\* One refresh token is exchanged at most once per request in flight:
\* whatever the interleaving of reads and unconditional updates, a token
\* cannot be exchanged again once the requests that read it live have ended.
ExchangesBounded ==
    \A p \in Tokens : Cardinality(Children(p)) <= Cardinality(Requests)

\* Tokens that appeared after the purge of u, in exchange for purged ones.
Escaped(u) == {t \in Tokens \ purged[u] : parent[t] \in purged[u]}

\* Only the requests already past the revocation check when reuse is detected
\* can carry a session of the user over the purge, each by one token.
PurgeEscapeBounded ==
    \A u \in Users :
        purged[u] # {} => Cardinality(Escaped(u)) < Cardinality(Requests)

\* The token request r holds while its next statement is step.
Holding(step) ==
    [r \in Requests |-> IF pc[r] = step THEN presented[r] ELSE None]

\* However many requests overlap, the service implements claimed tokens: only
\* a request that read a token live exchanges it, for one successor in the
\* chain of the same login, whatever was revoked since; and a token that was
\* exchanged, logged out or purged is never taken up again.
Claimed == INSTANCE ClaimedTokens
               WITH Slots <- Requests, chain <- root, alive <- Live,
                    claim <- Holding("loaded"), spent <- Holding("rotated")
ImplementsClaimed == Claimed!Spec

\* With one request at a time it implements single-use tokens.
Pending == {presented[r] : r \in {q \in Requests : pc[q] = "rotated"}}

SingleUse == INSTANCE SingleUseTokens
                 WITH chain <- root, alive <- Live, pending <- Pending
ImplementsSingleUse == SingleUse!Spec
=============================================================================
