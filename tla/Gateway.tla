------------------------------- MODULE Gateway -------------------------------
(***************************************************************************)
(* What lets a request in, by the clock: the rate limiter                  *)
(* (internal/middleware/ratelimit.go), the access token and its admin      *)
(* claim (internal/middleware/auth.go, internal/service/token_service.go)  *)
(* and share links (internal/service/permission_service.go).               *)
(*                                                                         *)
(* One user from one address, one counter for each group of routes.  A     *)
(* pipeline is executed within a tick.                                     *)
(***************************************************************************)
EXTENDS Naturals, FiniteSets

CONSTANTS
    Groups,         \* groups of routes looked at: "auth", "api", "admin"
    Limit,          \* requests per window (10, and 100 with a token)
    Window,         \* ticks a counter lives after a request (1 minute)
    TTL,            \* ticks an access token is valid
    Delay,          \* bound: ticks between the SELECT of a user and the token
    Hours           \* ticks a share link is asked for

ASSUME GroupsAssumption == Groups \subseteq {"auth", "api", "admin"}
ASSUME BoundsAssumption ==
    /\ Limit \in Nat \ {0} /\ Window \in Nat \ {0} /\ TTL \in Nat \ {0}
    /\ Delay \in Nat /\ Hours \in Nat \ {0}

VARIABLES
    admin,          \* users.is_admin
    read,           \* what a request that will sign a token read: "none",
                    \* "user" or "admin"
    age,            \* ticks since it read that
    life,           \* life[claim]: ticks the youngest access token with this
                    \* claim (is_admin true: "admin") is still valid
    count,          \* count[g]: value of the key in Redis, at most Limit + 1
    ttl,            \* ttl[g]: its time to live; 0 no key, Endless no expiry
    link,           \* time to live of a share link; 0 none, Endless NULL
    since,          \* history: ticks since the user was an administrator
    recent,         \* history: what the counter let in since Window ticks,
                    \* each as <<ticks ago, what INCR had answered>>
    quiet,          \* history: ticks since the counter was last touched
    whole           \* history: whole[g] = that pipeline was executed entirely

keyVars == <<count, ttl>>
tokenVars == <<admin, read, age, life, since>>
pastVars == <<recent, quiet, whole>>
gatewayVars == <<keyVars, tokenVars, link, pastVars>>

Endless == Window + Hours + TTL    \* longer than any of them
Forgotten == TTL + Delay + 1
Claims == {"user", "admin"}

GatewayTypeOK ==
    /\ admin \in BOOLEAN /\ read \in Claims \cup {"none"} /\ age \in 0 .. Delay
    /\ life \in [Claims -> 0 .. TTL]
    /\ count \in [Groups -> 0 .. Limit + 1]
    /\ ttl \in [Groups -> 0 .. Window \cup {Endless}]
    /\ link \in 0 .. Hours \cup {Endless}
    /\ since \in 0 .. Forgotten
    /\ recent \in [Groups -> SUBSET ((0 .. Window - 1) \X (1 .. Limit + 1))]
    /\ quiet \in [Groups -> 0 .. Window]
    /\ whole \in [Groups -> BOOLEAN]

GatewayInit ==
    /\ admin = FALSE /\ read = "none" /\ age = 0
    /\ life = [claim \in Claims |-> 0]
    /\ count = [g \in Groups |-> 0]
    /\ ttl = [g \in Groups |-> 0]
    /\ link = 0
    /\ since = Forgotten
    /\ recent = [g \in Groups |-> {}]
    /\ quiet = [g \in Groups |-> Window]
    /\ whole = [g \in Groups |-> TRUE]

AtMost(n, bound) == IF n > bound THEN bound ELSE n
Older(n) == IF n = 0 \/ n = Endless THEN n ELSE n - 1

-----------------------------------------------------------------------------
\* What the operator does to the row by SQL; no statement of the program
\* writes is_admin.
SetAdmin(flag) ==
    /\ admin' = flag
    /\ since' = IF flag THEN 0 ELSE since
    /\ UNCHANGED <<read, age, life, keyVars, link, pastVars>>

\* Fault: the claim is taken over from a valid token instead of the row.
IssueLoadClaims ==
    /\ read = "none"
    /\ read' = IF admin \/ life["admin"] > 0 THEN "admin" ELSE "user"
    /\ age' = 0
    /\ UNCHANGED <<admin, life, since, keyVars, link, pastVars>>

\* A login or a refresh reads the user, GetByID included the flag.
IssueLoad ==
    /\ read = "none"
    /\ read' = IF admin THEN "admin" ELSE "user"
    /\ age' = 0
    /\ UNCHANGED <<admin, life, since, keyVars, link, pastVars>>

\* GenerateTokenPair copies the flag into the claims and signs them.
IssueSign ==
    /\ read # "none"
    /\ life' = [life EXCEPT ![read] = TTL]
    /\ read' = "none"
    /\ age' = 0
    /\ UNCHANGED <<admin, since, keyVars, link, pastVars>>

\* Signature and expiry; nothing is looked up in the database.
ValidateAccessToken(claim) == life[claim] > 0

\* The middleware in front of the limiter: none, Auth, or Auth and AdminOnly.
Passes(g) ==
    CASE g = "auth"  -> TRUE
      [] g = "api"   -> \E claim \in Claims : ValidateAccessToken(claim)
      [] g = "admin" -> ValidateAccessToken("admin")

-----------------------------------------------------------------------------
Incr(g) == AtMost(count[g] + 1, Limit + 1)

\* Fault: only the first request of a window sets the expiry.
ExpiryFirst(g) == IF Incr(g) = 1 THEN Window
                  ELSE IF ttl[g] = 0 THEN Endless ELSE ttl[g]

\* EXPIRE after every INCR, those of refused requests included.
Expiry(g) == Window

\* A new key has no expiry of its own.
Unexpired(g) == IF ttl[g] = 0 THEN Endless ELSE ttl[g]

Touch(g, lifetime, complete) ==
    /\ count' = [count EXCEPT ![g] = Incr(g)]
    /\ ttl' = [ttl EXCEPT ![g] = lifetime]
    /\ quiet' = [quiet EXCEPT ![g] = 0]
    /\ whole' = [whole EXCEPT ![g] = complete]

\* Fault: the limit itself is refused too late.
RefusedLate(n) == n > Limit + 1

Refused(n) == n > Limit

\* Both commands are answered: admitted, or 429.
Limited(g) ==
    /\ Passes(g)
    /\ Touch(g, Expiry(g), TRUE)
    /\ recent' = IF Refused(Incr(g)) THEN recent
                 ELSE [recent EXCEPT ![g] = @ \cup {<<0, Incr(g)>>}]
    /\ UNCHANGED <<tokenVars, link>>

\* An error of the pipeline lets the request in whatever was executed: nothing
\* (always so when Redis is disabled), the first command, or both.
FailOpen(g) ==
    /\ Passes(g)
    /\ \/ UNCHANGED <<keyVars, quiet, whole>>
       \/ Touch(g, Unexpired(g), FALSE)
       \/ Touch(g, Expiry(g), TRUE)
    /\ UNCHANGED <<tokenVars, link, recent>>

-----------------------------------------------------------------------------
\* INSERT INTO memory_permissions (.., token_hash, expires_at): one link at a
\* time is followed.  No request takes a link back.
GrantTokenAccess(expiry) ==
    /\ link = 0
    /\ link' = expiry
    /\ UNCHANGED <<tokenVars, keyVars, pastVars>>

\* A duration that is not positive leaves expires_at NULL.
GenerateShareToken(expiresIn) ==
    GrantTokenAccess(IF expiresIn > 0 THEN expiresIn ELSE Endless)

\* The handler passes no duration when hours are left out, zero or negative.
HandleShare(hours) ==
    Passes("api") /\ GenerateShareToken(IF hours > 0 THEN hours ELSE 0)

\* expires_at IS NULL OR expires_at > NOW()
CanAccessByToken == link # 0

-----------------------------------------------------------------------------
\* What is Window ticks ago is no longer recent.
Aged(past) == {<<p[1] + 1, p[2]>> : p \in {q \in past : q[1] + 1 < Window}}

Tick ==
    /\ read # "none" => age < Delay
    /\ age' = IF read = "none" THEN 0 ELSE age + 1
    /\ life' = [claim \in Claims |-> Older(life[claim])]
    /\ since' = IF admin THEN 0 ELSE AtMost(since + 1, Forgotten)
    /\ ttl' = [g \in Groups |-> Older(ttl[g])]
    /\ count' = [g \in Groups |-> IF ttl'[g] = 0 THEN 0 ELSE count[g]]
    /\ link' = Older(link)
    /\ recent' = [g \in Groups |-> Aged(recent[g])]
    /\ quiet' = [g \in Groups |-> AtMost(quiet[g] + 1, Window)]
    /\ UNCHANGED <<admin, read, whole>>

GatewayNext ==
    \/ \E flag \in BOOLEAN : SetAdmin(flag)
    \/ IssueLoad \/ IssueSign
    \/ \E g \in Groups : Limited(g) \/ FailOpen(g)
    \/ \E hours \in {0, Hours} : HandleShare(hours)
    \/ Tick

GatewaySpec == GatewayInit /\ [][GatewayNext]_gatewayVars

-----------------------------------------------------------------------------
\* "limit is max requests per window": in any Window consecutive ticks the
\* counter lets at most Limit requests in, wherever the window begins.
SlidingWindowHolds ==
    \A g \in Groups : Cardinality(recent[g]) <= Limit

\* A client that has been answered, with a refusal perhaps, and then stays away
\* for a window starts with a new counter.  (Without an answer the key may be
\* left without an expiry, until the next request gives it one.)
QuietKeysReopen ==
    \A g \in Groups : quiet[g] = Window /\ whole[g] => count[g] = 0

\* AdminOnly trusts a claim that is at most a token's life, and the time it
\* took to sign, older than the row.
StaleAdminExpires == Passes("admin") => admin \/ since < Forgotten
=============================================================================
