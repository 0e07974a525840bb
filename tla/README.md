# Spatial Memory: a formal model

TLA+ specifications of the Spatial Memory API server (Go, `internal/`, `cmd/`,
`bridge/`), the TLC configurations that check them on small instances, and
proofs of the theorems that hold for every instance.

## 1. The system

HTTP handlers call services, services call repositories, and repositories send
single statements to PostgreSQL and Redis. There are **no multi-statement
transactions**, except for adding and removing circle members: every `Exec`,
`QueryRow` or Redis command takes effect alone, and each HTTP request is a
goroutine of its own. So the steps of two requests interleave between any two
statements, a request can fail between them (its context is cancelled when the
client goes away), and what was written stays written. That is the granularity
of every module: **one action per statement or external call**.

| Component (source) | State | Operations | What makes it correct |
| --- | --- | --- | --- |
| Refresh tokens (`service/token_service.go`, `repository/auth_repo.go`) | `refresh_tokens` | issue, rotate, detect reuse, log out, expire | a token is exchanged once; reuse ends every session |
| Login (`service/auth_service.go`) | `sms_codes`, `users`, cooldown keys in Redis | send a code, verify it, WeChat login | limits on messages, one use per code, one account per phone |
| Memories (`service/memory_service.go`, `repository/memory_repo.go`, `spatial_cache.go`) | `memories`, the GEO set in Redis | create, update, delete, search nearby | nobody sees an unreviewed public memory; the cache follows the rows |
| Likes, bookmarks (`repository/interaction_repo.go`) | `memory_interactions`, two counters | toggle like, create and delete bookmark | the counters agree with the rows |
| Reports, moderation queue (`service/interaction_service.go`, `moderation_service.go`, `repository/moderation_repo.go`) | `moderation_queue`, status of memories, reports | report, escalate, submit, process, review | third report escalates; queue and memory agree; nothing is forgotten |
| Moderation worker (`service/moderation_service.go`) | mutex, context, wait group, goroutine | start, stop, tick | one worker, no use after stop, calls return |
| Friend circles (`service/circle_service.go`, `repository/circle_repo.go`) | `friend_circles`, `circle_members` | create, update, delete, add and remove members | limits, owner stays member, member count, nothing written after deletion |
| Permissions (`service/permission_service.go`) | `memory_permissions`, share tokens | grant, revoke, share, check access | the lists follow the last request about an entry; revocation holds |
| Media upload (`service/upload_service.go`, `repository/media_repo.go`) | `memory_media`, objects in R2 | request, confirm | no confirmed row without an object, owners only, a reused key holds its content |
| Rate limiting (`middleware/ratelimit.go`) | counters in Redis | count, expire | bounded admission per window; whoever pauses gets in |
| Access tokens (`middleware/auth.go`, `service/token_service.go`) | none: claims and a clock | sign, validate | a claim does not outlive the flag for long |
| Profiles (`handler/user_handler.go`, `repository/user_repo.go`) | `users` | read, update | an edit does not undo a ban |
| Lifecycle (`cmd/server/main.go`, `bridge/app.go`) | the process, the pool, the worker | start, serve, shut down, die | nothing uses the pool after it is closed; a shutdown ends |
| HTTP layer, configuration, API docs | none that interleaves | binding, JSON, wiring | - |

How they interact: a login ends in the issue of refresh tokens (`SmsLogin`'s
`OpenSession` is `TokenService`'s `Login`); memories, reports and moderation meet
in the `status` column of `memories` (`MemoryService`'s `ModerationVerdict` is
what `Moderation`'s `WorkerMemory` and `ReviewMemory` do to one row); the worker
whose lifecycle is `ModerationWorker` is the one that runs `Moderation`'s
`WorkerStep`, and `OneWorker` is what allows that module to have one `batch`.
Grants name circles and a member of a circle sees what the circle was granted:
`Permissions` extends `Circles` by `memory_permissions`. `main` starts the worker,
serves requests and takes both down: `Server` extends `ModerationWorker` and
`Profiles`, whose edits stand for the requests being served. `Gateway` is what a
request meets before its handler.

Hard behaviours: check-then-act on every limit, unconditional `UPDATE`s after a
read, row-then-counter pairs, errors that are logged and ignored, a cache filled
from reads that are out of date, verdicts that arrive late, a killed process, and
a shutdown that waits with the mutex held. `PROJECT.json` lists them line by
line under `hazards`, with the properties that watch over each.

## 2. Modules

| Module | Models | Theorems |
| --- | --- | --- |
| `ClaimedTokens` | what rotation promises however requests overlap: the abstract specification `TokenService` refines | |
| `SingleUseTokens` | the stronger promise to a client whose requests do not overlap | |
| `TokenService` | refresh tokens | `TokenServiceProofs` |
| `SmsLogin` | SMS codes, accounts, WeChat login | `SmsLoginProofs` |
| `MemoryService` | memories and the GEO set | `MemoryServiceProofs` |
| `Interactions` | likes and bookmarks of one memory | `InteractionsProofs` |
| `ModerationWorker` | the goroutine's lifecycle | `ServerProofs` |
| `Moderation` | reports, queue, worker pass, reviews | `ModerationProofs` |
| `Circles` | friend circles and their members | `CirclesProofs` |
| `Permissions` | grants and revocations on a memory, over `Circles`, with the handlers of both | `CirclesProofs` |
| `Profiles` | the row of a user, its edits and bans | `ServerProofs` |
| `Server` | the life of a process, over `ModerationWorker` and `Profiles` | `ServerProofs` |
| `Gateway` | rate limiter, access token, share link, by a clock | `TokenServiceProofs` |
| `Uploads` | the two phases of an upload, R2, rows of media | `UploadsProofs` |
| `MC...` | symmetry sets and small functions for TLC, one per module | |

Conventions. `pc[r]` is the next statement of request slot `r`; a slot is a
goroutine that may be running, so the number of slots is the number of requests
that can overlap. Data are model values: a raw token and its hash are one value,
a code is the number of its row, a place is the set of memories around it.
Variables marked *history* are not in the program: they record what a property
has to compare with. `Abandon` is a request that stops before its next statement
or whose statement fails; `Crash` kills the process and keeps the tables.
Operators whose comment starts with *Fault* are wrong on purpose: they are
plausible bugs in the code of the operator that follows them, and each property
finds at least one of them.

Some choices worth knowing:

- `TokenService`: `RefreshLoad` is the `SELECT` *and* the decision taken on what it
  returned; `RefreshRotate` is the unconditional `UPDATE`; a refused token changes
  nothing and is no step. Tokens of one chain expire in order, because each is
  issued later for the same duration. `Faults` names the steps before which a
  request may stop.
- `SmsLogin`: a client submits the code of a row, so that a matching code is a
  matching row. Codes expire in the order of their creation. An error of `EXISTS`
  reads as "no cooldown", as the code ignores it (`blind`). `FindUser` may miss an
  existing user, since every error of the lookup counts as "no such user"; the
  unique index then refuses the second row.
- `MemoryService`: `Update` keeps a visibility the request leaves out by writing
  back the one it read. The status it computes is never written, as in
  `pgxMemoryRepo.Update`. "private" and "circle" are one case here.
  `canAccess` is what reading a memory by its id allows to others; it never asks
  for permissions or circles (section 4). `NoOpSpatialCache` (serverless) is a cache whose additions all get lost, which
  `Faults` includes.
- `Interactions`: the statements of `ToggleLike` that unlike are not modelled: the
  code never gets there, which is the defect of `like_toggles` (section 4; the theorem
  `UnlikeIsUnreachable` says why). `Careful` restricts *clients*, not
  the code: it is needed for what is said about bookmarks, because bookmarking
  twice counts twice.
- `Moderation`: `MemoryIdUnique = TRUE` is the schema the statements need; the
  migrations do not create the index (section 4). As shipped every insertion into the
  queue fails. `queue_full` contains that: with its faults any insertion may fail, so
  also every one. `queue_worker` is about the queue as it would work. `Judgements` are
  the outcomes of `Verdict`, the rule of `processItem`, over all answers of the AI
  service with its one retry. Over HTTP `ManualReview`
  only approves, because its binding refuses `approved = false`; the model lets it
  reject as well. The program has no caller of `SubmitForModeration`; it is modelled
  because the worker has nothing to do without it. `batch` holds the memories whose
  items a pass of `ProcessQueue` listed and has not taken up, `current` the one in the
  hands of `processItem`; since a row is never inserted twice, the set and `order`
  together say what the slice says.
- `Circles`: requests of anybody but the owner are refused without effect, so the
  requests are the owner's. `AddMember` and `RemoveMember` are the two transactions
  of the program and one action each; inserting a circle and making its owner a
  member are two statements whose second error is swallowed. `member_count` and
  `deleted_at` are used by the statements and not created by the migrations;
  `CountDefault` stands for the default the column would have. `Update` writes
  names only and is left out; `MaxCount` bounds the counter for TLC.
- `Uploads`: a key is given out once (its name contains a UUID) and knows the user
  and the memory in its path, which the second phase parses. The client that puts
  the file is part of the module: careful users upload what they announced, the
  others anything, as often as they like while the URL is valid. A request
  refused for the type or the size of its file, after the memory was read, has changed
  nothing and is no step. Deleting the memory plays no part: `GetByID`
  finds deleted rows, and the second phase does not read the memory. `Delete`,
  `DeleteByMemoryID` and `DeleteObject` have no caller, so rows and objects stay.
  The columns `media_repo.go` uses (`size_bytes`, `status`, `duration_seconds`,
  `updated_at`, no `user_id`) are not those of the migration; the module assumes a
  table that fits the statements.
- `ModerationWorker`: the body of `StartWorker` is one action, since the mutex is
  held throughout and the goroutine it starts cannot be seen before. `Next` lets any
  caller start and stop the worker, which is what its theorems are about; in `Server`
  only `main` calls.
- `Permissions`: one memory stands for all, since no statement relates two. The
  table has no unique key, so `ON CONFLICT DO NOTHING` never applies and a grant may
  have several rows; a `DELETE` takes all of them and a check asks whether there is
  one, so a set of entries says everything. A *seat* is a user in a circle, or an
  entry among the grants. The history variables `open` and `shut` record which seats
  the last undisputed request gave or took: a request counts while none of the other
  kind about the same seat is under way. `ContextKeys` is what the middleware leaves
  in the context: the handlers of circles and permissions look for `userID`, and with
  the `user_id` of the repository's middleware every one of them answers 401 and
  nothing happens; the run looks at the handlers as they are meant to be reached.
  The module is about the tables. `CanAccess` of the repository has no caller, and
  `memoryService.canAccess`, which decides who reads, refuses every grantee (section
  4): `ShutOutStayOut` bounds what `CanAccess` *would* answer, `GivenSeatsStay` is about
  rows, and neither says that anybody reads the memory.
- `Profiles`: nickname, avatar and bio are treated alike by the code, and the
  nickname stands for them. No code bans a user; `SetStatus` is an operator's SQL.
- `Server`: what `main` constructs (`Boot`) is one step, because until it is done
  nothing is served and nothing written; every `log.Fatal` is the end of the process
  (`Vanish`), which keeps the row and loses the rest. The degraded instance of the
  bridge answers 503 until it is replaced, and no serverless instance runs the worker.
  The goroutines that `IncrementView` detaches from its request are not modelled;
  neither `Shutdown` nor anybody else waits for them.
- `Gateway`: one user at one address; a tick is the unit of all durations, and a
  pipeline is executed within a tick. An error of the pipeline lets the request in
  whatever Redis executed of it (`FailOpen`); with Redis disabled that is every
  request. A link is asked for with or without hours (`HandleShare`); one link at a
  time is followed. `Delay` bounds the time between the `SELECT` of the user and the
  signature of the token. `recent` is a set of pairs (how long ago a request was let in,
  what `INCR` had answered), so that an admission is never counted twice nor two as one;
  `EveryAdmissionCounts` proves the latter. `life` follows the youngest token of each
  claim, since the older ones are refused earlier. `Endless` is a lifetime that does not
  age: it is the sum of all durations, so that no real lifetime can equal it.

## 3. Runs

| Run | Question | Bounds |
| --- | --- | --- |
| `token_concurrent` | What holds however requests interleave and stop; is only a token claimed alive exchanged, and once per claim? | 2 users, 4 tokens, 2 requests |
| `sms_faults` | By how much can the limits be exceeded; can a code open two sessions later on; one account? | 1 phone, 1 open id, 3 codes, limit 1, 2 requests |
| `memory_concurrent` | Is anything shown before a verdict; who revives a deleted memory; whose visibility does an edit write; what may stay in the GEO set? | 2 memories close to each other, 2 requests |
| `memory_nearby_leak` | Does the cache path filter? (it does not) | 1 memory, 1 request |
| `interactions_faults` | What do the counters say about the rows? | 2 users, 3 requests, 2 likes each, 4 bookmark calls |
| `like_toggles` | Does a second call take the like back? (it does not) | 1 user, 1 request, 2 calls |
| `queue_full` | Does anything but reports and submissions fill the queue; can overlapping reports miss the threshold; is a memory forgotten behind a closed item? | 2 memories, 2 users, threshold 2, 2 requests, worker, crashes |
| `queue_worker` | Is every pending item handled, and do memory and item agree? | 2 memories, 2 users, threshold 2, 2 requests, one item per pass |
| `sharing` | Do revocations, and what was granted, hold in the tables against everything else; by how much can the member limit be exceeded; is the count right; what is written to a deleted circle? | 3 users, 1 owner and author, 1 circle, 2 circle requests, 1 permission request, both limits 1, `MaxCount` 2 |
| `uploads_phases` | How many rows per file; is a confirmed upload recorded; who attaches; what does a reused key hold? | 2 users (1 careful), 1 memory, 2 keys, 2 contents, 2 requests |
| `server_lifecycle` | Is anything left when the pool is closed; does a shutdown end; no nil context; what do overlapping edits lose? | `main`, 1 goroutine identity, batch of 1, 2 editors, 2 nicknames |
| `gateway` | How many requests in any window; does a pause reopen; how long does a lost admin flag work? | groups `auth` and `admin`, limit 2, window 2, token life 2, delay 1, link 1 |

Why the bounds are enough to be interesting. Two overlapping requests are the
smallest race; in each module the properties compare a counter with the number
of slots, or two rows, and the theorems of section 5 lift the first kind to any
number. Four tokens let a parent have two children with one token left for a
third that must not be issued. Three codes with a daily limit of one let the
limit be overshot and a newer code shadow an older one. Two memories close to
each other make one invalidation evict the other's member. A batch of one with
two pending items makes the second wait for another pass. In `sharing` the two
circle requests race each other (both count before either inserts; one deletes
while the other adds), and each of them races the permission request; a third user
is what lets the member limit be overshot. Two permission requests of one entry
would need nothing new: the theorems hold for any number. Two editors are the
smallest overlap of edits, a third party being the operator. A window of two ticks
with a limit of two has windows that begin between two others, and refused requests
in each; both kinds of claim live at once for two ticks. Two keys let a file be
offered while another is being uploaded or replaced.

`CHECK_DEADLOCK FALSE` appears where a bounded pool (tokens, codes, calls) is used
up; the program itself goes on.

**Fairness.** `queue_worker`: a statement that was sent returns (weak fairness of the
steps of a request that is running; clients are under no obligation), and the ticker
makes the worker look at the queue again and again (`WF(WorkerStep)`). `server_lifecycle`: `main` runs (weak fairness of its
steps, the ten seconds of `Shutdown` included), the goroutine runs and items end
(the AI client has a timeout of 30 s), and strong fairness for the `Done` case of
the `select`, since Go chooses among ready cases at random and a tick can be ready
together with the cancellation. Nothing obliges requests to end, signals or ticks to
come, or the operator to act.

## 4. Where code and documents disagree

Two disagreements are runs with a counterexample:

- `memory_nearby_leak`: `Create` caches every active memory, private ones too, and
  the cache path of `FindNearby` returns rows by id without looking at visibility
  and status.
- `like_toggles`: `ToggleLike` "Returns true if now liked, false if unliked"
  (`interaction_repo.go:32`), and `DELETE /api/v1/memories/:id/like` is to "Unlike a
  memory" (`README.md:148`). It inserts the row before it looks for it, so it always
  finds one: the second call, by either route, leaves the like and counts once more.

Two more concern whole features, and no run of a working system can show them:

- **Nothing enters the moderation queue.** `ON CONFLICT (memory_id)` in
  `moderation_repo.go:44` needs a unique index that
  `migrations/000001_initial_schema.up.sql:173-188` does not create: with the shipped
  schema every `Create` of an item fails and `Report` only logs it, against
  "Report: auto-escalate to moderation at 3 distinct reports"
  (`docs/plans/2026-03-31-backend-api-plan.md:297`). The theorem `QueueStaysEmpty` says
  so of every run; what else is said about the queue matters once the index exists.
  Nor does creating a public memory submit it ("verify it enters moderation queue",
  line 496): `SubmitForModeration` has no caller.
- **Grants let nobody read.** `memoryService.canAccess` (`memory_service.go:225-229`)
  answers false for a memory of visibility "circle" ("TODO: Check if requestUserID is in
  owner's circle") and for a private one; it never asks for grants, and
  `pgxPermissionRepo.CanAccess`, which would, has no caller. The plan wants "Validate
  access before returning memory content" (line 369) and "verify circle member can
  access, non-member cannot" (line 495); the first half of the latter fails.

Others met while modelling are built into the modules and bounded or worked
around by the properties:

- A refresh past its check carries a session over the purge that answers a reuse
  (`PurgeEscapeBounded` says by how many tokens).
- The daily limit and the cooldown are checked before the insertion and before
  the message: `DailyOvershootBounded`, `CooldownOvershootBounded`.
- `Update` makes a memory public without a review: `ReviewBeforeExposure` is stated
  for memories *created* public, which is where the code keeps its promise.
- A verdict revives a memory deleted meanwhile (`OnlyVerdictsRevive` shows that
  nothing else does), and a nearby query can put a deleted memory back into the
  cache (the additions `stray` counts).
- `processItem` closes an item although the status of the memory could not be
  written; `DecidedReachesMemory` shows that nothing else leaves a pending memory
  behind a closed item, crashes included. It also overwrites an escalation, or
  an administrator's verdict, that arrived while it was judging, and the `Create` of a
  second escalation puts the item back to pending: `LostByFailureOnly` promises a row in
  the queue, not that it stays escalated, and `DecisionsAgree` leaves reviews out.
- The comment in `processItem` announces the "minimum of text and image" confidence
  (`moderation_service.go:129`); the code takes that of the text, so a photo about which
  the AI is unsure, or whose answer cannot be parsed, does not stop an approval.
- Used-up codes uncover older ones: when the newest code is used, an older one that has
  not expired is valid again.
- Two confirmations of one upload insert two rows (`RowsPerKeyBounded` says how
  many at most). The hash is compared with nothing: `ReuseServesContent` holds for
  careful clients only.
- A key that was offered because its content is known already has a row, so
  confirming it for another memory answers success and attaches nothing there. The
  plan asks for both "reuse URL" and "verify media attached"
  (`docs/plans/2026-03-31-backend-api-plan.md:322` and `:494`).
- A circle that was deleted keeps its members and its grants: `CanAccess` does not
  look at `deleted_at`, and `GivenSeatsStay` holds across deletions. A grant may name a
  circle of somebody else. Requests that found the circle go on to change it
  (`StragglersBounded`). Its count is raised by adding the same member twice.
- `member_count` and `deleted_at` of `friend_circles`, `joined_at` of `circle_members`
  and several columns of `memory_media` are missing in
  `migrations/000001_initial_schema.up.sql`.
- Handlers of circles, permissions and uploads read the context key `userID`, the
  middleware sets `user_id`: as shipped they answer 401 to everybody.
- A share link asked for without hours, with zero or with a negative number never
  expires, and no route revokes a link (`RevokeAccess` of the handler passes no token).
- The limiter renews the window with every request, refused ones included, where the
  plan asks for a "Redis sliding window"
  (`docs/plans/2026-03-31-backend-api-plan.md:204`): no window admits more than the
  limit (`SlidingWindowHolds`), but a client that never pauses for a whole window stays
  refused for ever. `QuietKeysReopen` says what pausing is worth.
- `AdminOnly` trusts a claim: a user who is no administrator any more remains one for
  the life of her token, and for another one if it was being signed meanwhile
  (`StaleAdminExpires`). A ban does not reach tokens at all.
- `UpdateMe` writes back the status it read: a ban issued between its two statements
  is undone (`EditsLostToOverlap` says that this is the only way).
- When requests outlast ten seconds `log.Fatal` ends the process without stopping the
  worker; its item stays as it is (`Crash` of `Moderation`).

## 5. Proofs

TLAPS checks the eight `...Proofs` modules for every value of the constants that
satisfies the named assumptions: any users, rows, keys and limits, and any finite
non-empty set of request slots. In each, `IInv` is an inductive invariant,
`InitInv` and `NextInv` show that it is one, and `TypeCorrect` follows at once;
below is what it adds to `TypeOK`, and why. A module that is composed of others has
its own names for these (`SharingInv`, `ServerInv`, `GatewayInv`).

**What a request knows.** Each module needs a conjunct of the form "a request whose
next statement is this one has seen that" (`RequestsKnow`, `RowsExist`,
`CallersKnown`): the row exists, it is the caller's, it was marked used. Without
it a step in the middle of a request could not even be typed.

**Budgets.** A limit that is checked before it is used up is not an invariant. What
is inductive is a budget: *what is done, together with the requests that may still
do it*, is bounded by the limit and the number of slots. A request enters the
second set only while the first is below the limit, and the set cannot exceed the
slots; it leaves the set when it adds to the first. `DailyLimitHolds`,
`CooldownHolds`, `CodesOpenFewSessions`, `CirclesAreBounded`, `MembersAreBounded`,
`StragglersAreBounded`, `RowsAreBounded`, `ExchangesAreBounded` and
`PurgeEscapesAreBounded` are all proved this way, with the library's theorems on
cardinalities.

- `TokenServiceProofs`: `RowsConsistent` says what rows know of each other (only
  issued tokens are revoked, are parents or have a root). Without `RequestsKnow`
  `RefreshMint` could take a parent that is still live. `RotationConsumes` follows.
  `ClaimsAreKept` is the refinement the run checks, for any number of requests: each
  step of `TokenService` is a step of `ClaimedTokens` or leaves its variables alone,
  where a request that has read a token live holds a claim to it until it has consumed
  it, and owes a successor until it has issued one. It needs `RequestsKnow` and
  `RowsConsistent` only. `SequentialSingleUse` adds what no run checks: if no two requests overlap
  (`Sequential`), each step of `TokenService` is a step of `SingleUseTokens` or leaves
  its variables alone; the additional invariant is that a token read live is still
  live when it is updated.
  The second part is about `Gateway`. `WindowAgrees` says that whatever was let in
  during the last window was let in under the key that is still there: each admission
  carries a number `INCR` has answered, no two the same, none above the limit or the
  present counter, and the key lives at least as long as the admission stays recent.
  The numbers are then an injection into `1 .. Limit`, from which `WindowsAreBounded`
  follows for any limit and window. `KeysAgree` relates the life of a key with how long
  it was left alone (`PausesReopen`), and `ClaimsAgree` the life of the claim with how
  long the flag has been gone (`AdminsAreRecent`).
- `SmsLoginProofs`: `SessionsConsumeCodes` (a code that opened a session is used up) and `OneAccount` are inductive once a
  request that holds a code knows that the code is marked (`RequestsKnow`), and
  the start of the day and the expiry reach only codes that exist (`CountersAgree`).
- `MemoryServiceProofs`: `ReviewBeforeExposure` needs `Unexposed`, which adds the
  request that is about to cache what it created, and `RowsExist`, so that a memory
  that is created now is in no list yet. `KeptUnlessOvertaken` is inductive as it
  stands: what an update will write agrees with the row until another write to the
  same memory takes it off the list. `UnwantedLeaveIndex` is inductive next to it
  (`Accounted`): a member that should not be there is a stray one or some request
  owes its removal. `VerdictsRevive` is an action property.
- `InteractionsProofs`: `UnlikeIsDead` (a request finds the row it inserted) is inductive by itself; the like counter is
  proved with the increments to come and the lost ones. `DriftIsLoss` assumes
  `Careful`: it needs that a user has one request under way, so that there are at
  least as many rows as increments to come and `GREATEST` hides nothing.
- `ModerationProofs`: `EscalationNeedsReports` and `DecidedReachesMemory` are
  inductive next to what each statement relies on. A request (`Knows`) that is on its
  way to escalate has seen enough reports, one that submits was asked to, and one that
  closes an item has written the memory. The worker (`WorkerKnows`) closes an item
  only after the memory has a status or the attempt to write it has failed. All of this
  survives the steps of everybody else because of two facts about *every* step: rows
  stay (`RowsStay`: no item disappears, no report is taken back, no memory waits again)
  and whatever changes has a reason (`RowsJustified`). The first is the theorem
  `NothingTakenBack`. `EscalationsAreLostByFailure` assumes
  neither the absence of faults nor the index: `LostByFailureOnly` is inductive next to
  the rest, because a report is inserted before it is counted, and whatever ends a
  request early is recorded. `QueueStaysEmpty` assumes that there is no index, and
  that is all it takes.
  `ItemAgreesWithMemory` adds `OneDecides`: the worker writes the memory first and the
  item next, and nobody else closes items. It assumes no faults and no reviews: a
  review that overtakes the worker between its two statements leaves them apart.
- `ServerProofs`, first part: the worker by itself. Between two steps the mutex is held
  only by a caller that waits in `StopWorker` (`MutexHeld`), the fields agree with each
  other, and the goroutine with the fields (`FieldsAgree`, `WorkerAgrees`). Second part:
  this invariant again, reused lemma by lemma, plus `PhasesAgree` (in which phases
  there may be a worker, requests and an open pool), from which `PoolClosedLast`
  follows. `CopiesAgree` is the budget of the edits: what a request has read differs
  from what was last asked for only in columns written since, or already lost.
- `CirclesProofs`: `OwnerKeepsMembership` (an action property no run checks)
  rests on the owner never changing;
  `CountCovers` counts the members besides the owner.
  For `Permissions`, `SharingKeepsCircles` carries all this over: requests about
  permissions leave the variables of `Circles` alone. `TakenBackStaysOut` and
  `GivenSeatsAreKept` rest on `LastWordHolds`: an open seat is filled and a shut one is
  not. It is inductive once a request under way is known to be in the way of its
  opposite: no open seat is among those `Leaving`, no shut one among those `Asking`.
- `UploadsProofs`: `KeysGrow` orders what may exist (key, object, row, hash,
  confirmation) and says that a key belongs to the owner of its memory;
  `CarefulKeys` says that the key of a careful user has one content all along.

Only model-checked: liveness (`ShutdownEnds`, `PendingIsHandled`),
which is out of the prover's reach. The violations of `memory_nearby_leak` and `like_toggles` are TLC's.
Every other property of the runs is proved, under the assumptions named above. Some
theorems are about properties no run checks: `AtMostOneWorker` and `QuietAfterStop`
(for callers in any order), `CirclesAreBounded`, `OwnerKeepsMembership`,
`SessionsCostCodes`, `SharingKeepsCircles`, `NothingTakenBack`, `QueueStaysEmpty`,
`UnlikeIsUnreachable`, `SequentialSingleUse`, `EveryAdmissionCounts`, and the type
invariants of `Permissions` and `Gateway`.

## 6. Not modelled

Handlers appear as the disjuncts of `Next` that start a request, with the inputs
their bindings let through; what they answer does not.

Left out: binding and JSON; configuration and how connections are opened; the health
handler, which only pings; generated API documentation. Lists, statistics and single
reads change nothing and appear only where a decision depends on them.
`IncrementReportCount`, `RevokeAllAccess`, `CanAccess` and `ValidateShareToken` have no
caller outside their own layer. `Update` of a circle writes back a name and a description it
read, as `UpdateMe` does, and nothing depends on them. `IncrementView` counts in a
goroutine of its own with the context of a request that may be over; nothing reads
the counter to decide.

## 7. Plan

1. The composition of `MemoryService` with `Moderation` over the shared status
   column, to state `ReviewBeforeExposure` and `DecidedReachesMemory` of one system.
2. `IncrementView` in `Server`: a goroutine `Shutdown` does not wait for.
3. Pure operators: pagination, visibility to status, storage keys, health
   aggregation, each against a reference definition.
