------------------------------ MODULE SmsLogin ------------------------------
(***************************************************************************)
(* Signing in: internal/service/auth_service.go over the tables sms_codes  *)
(* and users, the cooldown keys in Redis, the SMS provider and WeChat.     *)
(*                                                                         *)
(* One action per statement or external call; requests interleave between  *)
(* any two.  The codes of a phone are numbered in the order of their       *)
(* created_at; a client submits the code of a row, so that "the code       *)
(* matches" is equality of rows.  A wrong guess is refused without effect. *)
(***************************************************************************)
EXTENDS Naturals, FiniteSets

CONSTANTS
    Phones,         \* phone numbers
    OpenIds,        \* WeChat identities
    Requests,       \* request slots: goroutines that can be running at once
    DailyLimit,     \* smsMaxPerDay (5 in the code)
    MaxRows,        \* bound: codes ever created per phone
    RedisFaults,    \* TRUE: Redis may fail to answer or to store
    Faults,         \* TRUE: a statement may fail, a request may stop
    None

Ids == Phones \cup OpenIds
Rows == 1..MaxRows

ASSUME NoneAssumption == None \notin Ids
ASSUME RequestsAssumption == IsFiniteSet(Requests) /\ Requests # {}
ASSUME BoundsAssumption == DailyLimit \in Nat \ {0} /\ MaxRows \in Nat
ASSUME FaultsAssumption == RedisFaults \in BOOLEAN /\ Faults \in BOOLEAN

VARIABLES
    last,       \* last[p]: number of sms_codes rows of phone p
    used,       \* used[p]: rows with used = TRUE
    stale,      \* stale[p]: rows 1..stale[p] are past expires_at
    dayStart,   \* dayStart[p]: rows created before the current UTC day
    cooldown,   \* phones whose key sms:cooldown:<phone> exists
    accounts,   \* accounts[i]: rows of users with phone or open id i
    pc,         \* pc[r]: the next statement of request r
    who,        \* who[r]: the phone or open id request r is about
    row,        \* row[r]: the code request r read, 0 for none
    blind,      \* history: requests that went on because EXISTS failed
    logins,     \* history: logins[p][k] = sessions opened with code k of p
    cooled      \* history: messages sent to p since its cooldown key appeared
                \* by requests that Redis answered

codes == <<last, used, stale, dayStart>>
requests == <<pc, who, row, blind>>
vars == <<last, used, stale, dayStart, cooldown, accounts, pc, who, row,
          blind, logins, cooled>>

SendSteps == {"count", "insert", "sms", "cool"}
VerifySteps == {"mark", "find", "create", "token"}
Steps == {"idle"} \cup SendSteps \cup VerifySteps

TypeOK ==
    /\ last \in [Phones -> 0..MaxRows]
    /\ used \in [Phones -> SUBSET Rows]
    /\ stale \in [Phones -> 0..MaxRows]
    /\ dayStart \in [Phones -> 0..MaxRows]
    /\ cooldown \in SUBSET Phones
    /\ accounts \in [Ids -> Nat]
    /\ pc \in [Requests -> Steps]
    /\ who \in [Requests -> Ids \cup {None}]
    /\ row \in [Requests -> 0..MaxRows]
    /\ blind \in SUBSET Requests
    /\ logins \in [Phones -> [Rows -> Nat]]
    /\ cooled \in [Phones -> Nat]

Init ==
    /\ last = [p \in Phones |-> 0]
    /\ used = [p \in Phones |-> {}]
    /\ stale = [p \in Phones |-> 0]
    /\ dayStart = [p \in Phones |-> 0]
    /\ cooldown = {}
    /\ accounts \in [Ids -> {0, 1}]
    /\ pc = [r \in Requests |-> "idle"]
    /\ who = [r \in Requests |-> None]
    /\ row = [r \in Requests |-> 0]
    /\ blind = {}
    /\ logins = [p \in Phones |-> [k \in Rows |-> 0]]
    /\ cooled = [p \in Phones |-> 0]

CodesToday(p) == last[p] - dayStart[p]

Goto(r, step) == pc' = [pc EXCEPT ![r] = step]

Begin(r, step, id, k) ==
    /\ pc[r] = "idle"
    /\ Goto(r, step)
    /\ who' = [who EXCEPT ![r] = id]
    /\ row' = [row EXCEPT ![r] = k]

Finish(r) ==
    /\ Goto(r, "idle")
    /\ who' = [who EXCEPT ![r] = None]
    /\ row' = [row EXCEPT ![r] = 0]
    /\ blind' = blind \ {r}

-----------------------------------------------------------------------------
\* Fault: the key is not looked at.
SendCooldownUnchecked(r, p) ==
    /\ Begin(r, "count", p, 0)
    /\ UNCHANGED <<codes, cooldown, accounts, blind, logins, cooled>>

\* SendSMSCode.  The cooldown: the error of EXISTS is not looked at, and a
\* failed EXISTS reads as 0, so the request goes on.
SendCooldownCheck(r, p) ==
    /\ \/ p \notin cooldown /\ UNCHANGED blind
       \/ RedisFaults /\ blind' = blind \cup {r}
    /\ Begin(r, "count", p, 0)
    /\ UNCHANGED <<codes, cooldown, accounts, logins, cooled>>

\* Fault: the limit itself still passes.
SendCountOffByOne(r) ==
    /\ pc[r] = "count"
    /\ \/ CodesToday(who[r]) <= DailyLimit /\ Goto(r, "insert")
          /\ UNCHANGED <<who, row, blind>>
       \/ CodesToday(who[r]) > DailyLimit /\ Finish(r)
    /\ UNCHANGED <<codes, cooldown, accounts, logins, cooled>>

\* SELECT COUNT(*) of the codes created since midnight UTC.
SendCount(r) ==
    /\ pc[r] = "count"
    /\ \/ CodesToday(who[r]) < DailyLimit /\ Goto(r, "insert")
          /\ UNCHANGED <<who, row, blind>>
       \/ CodesToday(who[r]) >= DailyLimit /\ Finish(r)
    /\ UNCHANGED <<codes, cooldown, accounts, logins, cooled>>

SendInsert(r) ==
    /\ pc[r] = "insert"
    /\ last[who[r]] < MaxRows
    /\ last' = [last EXCEPT ![who[r]] = @ + 1]
    /\ Goto(r, "sms")
    /\ UNCHANGED <<used, stale, dayStart, cooldown, accounts, who, row, blind,
                   logins, cooled>>

\* The provider.  An error leaves the code stored and no cooldown behind.
SendMessage(r) ==
    /\ pc[r] = "sms"
    /\ \/ /\ Goto(r, "cool")
          /\ cooled' = [cooled EXCEPT ![who[r]] =
                            IF who[r] \in cooldown /\ r \notin blind
                              THEN @ + 1 ELSE @]
          /\ UNCHANGED <<who, row, blind>>
       \/ Faults /\ Finish(r) /\ UNCHANGED cooled
    /\ UNCHANGED <<codes, cooldown, accounts, logins>>

\* SET sms:cooldown:<phone> with a time to live; its error is not looked at.
SendSetCooldown(r) ==
    /\ pc[r] = "cool"
    /\ \/ cooldown' = cooldown \cup {who[r]}
       \/ RedisFaults /\ UNCHANGED cooldown
    /\ Finish(r)
    /\ UNCHANGED <<codes, accounts, logins, cooled>>

-----------------------------------------------------------------------------
\* Fault: the query does not filter on used = FALSE.
AnyCode(p) == 1..last[p]

Unused(p) == {k \in 1..last[p] : k \notin used[p]}

\* The newest code that is not used, as ORDER BY created_at DESC LIMIT 1.
IsLatest(p, k) == k \in Unused(p) /\ \A j \in Unused(p) : j <= k

\* VerifySMSCode reads the latest unused code and compares expiry and value.
VerifyLoad(r, p, k) ==
    /\ IsLatest(p, k)
    /\ k > stale[p]
    /\ Begin(r, "mark", p, k)
    /\ UNCHANGED <<codes, cooldown, accounts, blind, logins, cooled>>

\* UPDATE sms_codes SET used = TRUE WHERE id = $1: unconditional.
VerifyMarkUsed(r) ==
    /\ pc[r] = "mark"
    /\ used' = [used EXCEPT ![who[r]] = @ \cup {row[r]}]
    /\ Goto(r, "find")
    /\ UNCHANGED <<last, stale, dayStart, cooldown, accounts, who, row, blind,
                   logins, cooled>>

\* WeChatLogin: the provider vouches for an open id.
WeChatExchange(r, w) ==
    /\ Begin(r, "find", w, 0)
    /\ UNCHANGED <<codes, cooldown, accounts, blind, logins, cooled>>

\* findOrCreateUserBy...: every error of the lookup counts as "no such user".
FindUser(r) ==
    /\ pc[r] = "find"
    /\ \/ accounts[who[r]] > 0 /\ Goto(r, "token")
       \/ (accounts[who[r]] = 0 \/ Faults) /\ Goto(r, "create")
    /\ UNCHANGED <<codes, cooldown, accounts, who, row, blind, logins, cooled>>

\* Fault: no unique index on phone and wechat_open_id.
CreateUserTwice(r) ==
    /\ pc[r] = "create"
    /\ accounts' = [accounts EXCEPT ![who[r]] = @ + 1]
    /\ Goto(r, "token")
    /\ UNCHANGED <<codes, cooldown, who, row, blind, logins, cooled>>

\* users.phone and users.wechat_open_id are UNIQUE: the INSERT that comes
\* second fails, and so does its request, with the code already used up.
CreateUser(r) ==
    /\ pc[r] = "create"
    /\ \/ /\ accounts[who[r]] = 0
          /\ accounts' = [accounts EXCEPT ![who[r]] = @ + 1]
          /\ Goto(r, "token")
          /\ UNCHANGED <<who, row, blind>>
       \/ accounts[who[r]] > 0 /\ Finish(r) /\ UNCHANGED accounts
    /\ UNCHANGED <<codes, cooldown, logins, cooled>>

\* GenerateTokenPair for the user found or created.
OpenSession(r) ==
    /\ pc[r] = "token"
    /\ logins' = IF who[r] \in Phones
                   THEN [logins EXCEPT ![who[r]][row[r]] = @ + 1]
                   ELSE logins
    /\ Finish(r)
    /\ UNCHANGED <<codes, cooldown, accounts, cooled>>

\* A statement fails or the request is cancelled: an error is answered and
\* what was done stays done.
Abandon(r) ==
    /\ Faults
    /\ pc[r] # "idle"
    /\ Finish(r)
    /\ UNCHANGED <<codes, cooldown, accounts, logins, cooled>>

-----------------------------------------------------------------------------
\* smsCodeExpiry passes.  Codes expire in the order of their creation.
ExpireCode(p) ==
    /\ stale[p] < last[p]
    /\ stale' = [stale EXCEPT ![p] = @ + 1]
    /\ UNCHANGED <<last, used, dayStart, cooldown, accounts, requests, logins,
                   cooled>>

\* smsCooldown passes and Redis drops the key.
ExpireCooldown(p) ==
    /\ p \in cooldown
    /\ cooldown' = cooldown \ {p}
    /\ cooled' = [cooled EXCEPT ![p] = 0]
    /\ UNCHANGED <<codes, accounts, requests, logins>>

\* Midnight UTC: time.Now().Truncate(24h) moves on.
Midnight ==
    /\ dayStart # last
    /\ dayStart' = last
    /\ UNCHANGED <<last, used, stale, cooldown, accounts, requests, logins,
                   cooled>>

RequestStep(r) ==
    \/ SendCount(r) \/ SendInsert(r) \/ SendMessage(r) \/ SendSetCooldown(r)
    \/ VerifyMarkUsed(r) \/ FindUser(r) \/ CreateUser(r) \/ OpenSession(r)

Next ==
    \/ \E r \in Requests, p \in Phones : SendCooldownCheck(r, p)
    \/ \E r \in Requests, p \in Phones, k \in Rows : VerifyLoad(r, p, k)
    \/ \E r \in Requests, w \in OpenIds : WeChatExchange(r, w)
    \/ \E r \in Requests : RequestStep(r) \/ Abandon(r)
    \/ \E p \in Phones : ExpireCode(p) \/ ExpireCooldown(p)
    \/ Midnight

Spec == Init /\ [][Next]_vars

-----------------------------------------------------------------------------
\* The daily limit can be exceeded only by the requests that counted before
\* the others inserted: less than one code per concurrent request.
DailyOvershootBounded ==
    \A p \in Phones : CodesToday(p) < DailyLimit + Cardinality(Requests)

\* While the cooldown key of a phone exists, the only messages sent are those
\* of requests already past the check when the key appeared, fewer than the
\* requests running, and of requests whose EXISTS failed.
CooldownOvershootBounded ==
    \A p \in Phones : cooled[p] < Cardinality(Requests)

\* One code opens at most one session per request in flight, whatever the
\* interleaving of the reads and the unconditional UPDATE.
CodeSessionsBounded ==
    \A p \in Phones, k \in Rows : logins[p][k] <= Cardinality(Requests)

\* A code that opened a session is used up: no later request can read it.
SessionsConsumeCodes ==
    \A p \in Phones, k \in Rows : logins[p][k] > 0 => k \in used[p]

\* Find-then-create races end with one account per phone or open id, and a
\* session is only opened for an account that exists.
OneAccount ==
    /\ \A i \in Ids : accounts[i] <= 1
    /\ \A r \in Requests : pc[r] = "token" => accounts[who[r]] = 1
=============================================================================
