---------------------------- MODULE Interactions ----------------------------
(***************************************************************************)
(* Likes and bookmarks of one memory: the rows of memory_interactions and  *)
(* the counters like_count and bookmark_count of its row, as               *)
(* internal/repository/interaction_repo.go keeps them.  All statements are *)
(* keyed by memory_id, so one memory stands for all.                       *)
(*                                                                         *)
(* A row and its counter are written by two statements without a           *)
(* transaction, and the error of the second one is dropped.                *)
(***************************************************************************)
EXTENDS Integers, FiniteSets

CONSTANTS
    Users,
    Requests,       \* request slots
    MaxToggles,     \* bound: calls of ToggleLike by one user
    MaxMarks,       \* bound: calls of CreateBookmark and DeleteBookmark
    Careful,        \* TRUE: a user calls only what changes her own row, and
                    \* waits for the answer; FALSE: any client
    Faults,         \* TRUE: a request may stop between two statements
    None

ASSUME NoneAssumption == None \notin Users
ASSUME BoundsAssumption == MaxToggles \in Nat /\ MaxMarks \in Nat
ASSUME SwitchesAssumption == Careful \in BOOLEAN /\ Faults \in BOOLEAN

VARIABLES
    liked,          \* users with a row of type like
    bookmarked,     \* users with a row of type bookmark
    like_count,
    bookmark_count,
    pc,             \* pc[r]: next statement of request r
    user,           \* user[r]: caller of request r
    toggles,        \* history: toggles[u] = calls of ToggleLike by u
    marks,          \* history: calls of CreateBookmark and DeleteBookmark
    lost            \* history: lost[s] = requests that ended before step s

likeVars == <<liked, like_count, toggles>>
bookmarkVars == <<bookmarked, bookmark_count, marks>>
vars == <<liked, bookmarked, like_count, bookmark_count, pc, user, toggles,
          marks, lost>>

Steps == {"idle", "likeCheck", "unlike", "likeAdd", "bookmarkAdd",
          "bookmarkSub"}

ASSUME RequestsAssumption == IsFiniteSet(Requests) /\ IsFiniteSet(Users)

TypeOK ==
    /\ liked \in SUBSET Users
    /\ bookmarked \in SUBSET Users
    /\ like_count \in Nat
    /\ bookmark_count \in Nat
    /\ pc \in [Requests -> Steps]
    /\ user \in [Requests -> Users \cup {None}]
    /\ toggles \in [Users -> 0..MaxToggles]
    /\ marks \in 0..MaxMarks
    /\ lost \in [Steps -> Nat]

Init ==
    /\ liked = {}
    /\ bookmarked = {}
    /\ like_count = 0
    /\ bookmark_count = 0
    /\ pc = [r \in Requests |-> "idle"]
    /\ user = [r \in Requests |-> None]
    /\ toggles = [u \in Users |-> 0]
    /\ marks = 0
    /\ lost = [s \in Steps |-> 0]

Begin(r, u, step) ==
    /\ pc[r] = "idle"
    /\ pc' = [pc EXCEPT ![r] = step]
    /\ user' = [user EXCEPT ![r] = u]

Finish(r) ==
    /\ pc' = [pc EXCEPT ![r] = "idle"]
    /\ user' = [user EXCEPT ![r] = None]

-----------------------------------------------------------------------------
\* ToggleLike, which DELETE .../like calls too: INSERT ... ON CONFLICT DO
\* NOTHING.
LikeInsert(r, u) ==
    /\ toggles[u] < MaxToggles
    /\ Begin(r, u, "likeCheck")
    /\ liked' = liked \cup {u}
    /\ toggles' = [toggles EXCEPT ![u] = @ + 1]
    /\ UNCHANGED <<like_count, bookmarkVars, lost>>

\* SELECT COUNT(*) of the row that was just inserted or already there.  The
\* DELETE after a count of zero is not modelled: no request gets there, which
\* is the defect CallsToggle is about (UnlikeIsDead in InteractionsProofs).
LikeCheck(r) ==
    /\ pc[r] = "likeCheck"
    /\ pc' = [pc EXCEPT ![r] =
                IF user[r] \in liked THEN "likeAdd" ELSE "unlike"]
    /\ UNCHANGED <<user, likeVars, bookmarkVars, lost>>

\* Fault: the counter is not written.
LikeAddLost(r) ==
    /\ pc[r] = "likeAdd"
    /\ Finish(r)
    /\ UNCHANGED <<likeVars, bookmarkVars, lost>>

\* UPDATE memories SET like_count = like_count + 1, in every case.
LikeAdd(r) ==
    /\ pc[r] = "likeAdd"
    /\ like_count' = like_count + 1
    /\ Finish(r)
    /\ UNCHANGED <<liked, toggles, bookmarkVars, lost>>

\* A careful user has no other request under way.
MayMark(u) == Careful => \A r \in Requests : user[r] # u

\* CreateBookmark: INSERT ... ON CONFLICT DO NOTHING, then the counter.
BookmarkInsert(r, u) ==
    /\ marks < MaxMarks
    /\ MayMark(u) /\ (Careful => u \notin bookmarked)
    /\ Begin(r, u, "bookmarkAdd")
    /\ bookmarked' = bookmarked \cup {u}
    /\ marks' = marks + 1
    /\ UNCHANGED <<bookmark_count, likeVars, lost>>

BookmarkAdd(r) ==
    /\ pc[r] = "bookmarkAdd"
    /\ bookmark_count' = bookmark_count + 1
    /\ Finish(r)
    /\ UNCHANGED <<bookmarked, marks, likeVars, lost>>

\* Fault: the row stays.
BookmarkDeleteLost(r, u) ==
    /\ marks < MaxMarks
    /\ MayMark(u) /\ (Careful => u \in bookmarked)
    /\ Begin(r, u, "bookmarkSub")
    /\ marks' = marks + 1
    /\ UNCHANGED <<bookmarked, bookmark_count, likeVars, lost>>

\* DeleteBookmark: DELETE, whether or not there is a row, then the counter.
BookmarkDelete(r, u) ==
    /\ marks < MaxMarks
    /\ MayMark(u) /\ (Careful => u \in bookmarked)
    /\ Begin(r, u, "bookmarkSub")
    /\ bookmarked' = bookmarked \ {u}
    /\ marks' = marks + 1
    /\ UNCHANGED <<bookmark_count, likeVars, lost>>

\* GREATEST(bookmark_count - 1, 0).
BookmarkSub(r) ==
    /\ pc[r] = "bookmarkSub"
    /\ bookmark_count' = IF bookmark_count > 0 THEN bookmark_count - 1 ELSE 0
    /\ Finish(r)
    /\ UNCHANGED <<bookmarked, marks, likeVars, lost>>

\* A statement fails or the request stops: what was written stays.
Abandon(r) ==
    /\ Faults
    /\ pc[r] # "idle"
    /\ lost' = [lost EXCEPT ![pc[r]] = @ + 1]
    /\ Finish(r)
    /\ UNCHANGED <<likeVars, bookmarkVars>>

Next ==
    \/ \E r \in Requests, u \in Users :
        LikeInsert(r, u) \/ BookmarkInsert(r, u) \/ BookmarkDelete(r, u)
    \/ \E r \in Requests :
        \/ LikeCheck(r) \/ LikeAdd(r)
        \/ BookmarkAdd(r) \/ BookmarkSub(r)
        \/ Abandon(r)

Spec == Init /\ [][Next]_vars

-----------------------------------------------------------------------------
At(step) == {r \in Requests : pc[r] = step}

\* "Returns true if now liked, false if unliked": a user whose requests have
\* all been answered likes the memory after an odd number of calls of
\* ToggleLike and does not after an even one.  (The code breaks this: it
\* inserts the row before it looks for one, and so always finds it.)
CallsToggle ==
    \A u \in Users :
        (\A r \in Requests : user[r] # u) =>
            (u \in liked <=> toggles[u] % 2 = 1)

\* Counted together with the increments still to come and those that were
\* lost, the counter is never below the number of people who like the memory:
\* every row has paid for itself.  (It is above it as soon as somebody likes
\* twice.)
LikeCountCoversLikers ==
    Cardinality(liked) <=
        like_count + Cardinality(At("likeCheck") \cup At("likeAdd"))
            + lost["likeCheck"] + lost["likeAdd"]

\* What the counter of bookmarks, with the updates still to come, is above the
\* number of rows.
BookmarkDrift ==
    bookmark_count + Cardinality(At("bookmarkAdd"))
        - Cardinality(bookmarked) - Cardinality(At("bookmarkSub"))

\* With careful users the counter of bookmarks is wrong only by updates that
\* were lost, low by increments and high by decrements: the update that
\* follows an ON CONFLICT or a DELETE is never a second one for the same row,
\* and GREATEST hides nothing but a lost increment.
BookmarkDriftIsLoss ==
    /\ BookmarkDrift >= -lost["bookmarkAdd"]
    /\ BookmarkDrift <= lost["bookmarkSub"]
=============================================================================
