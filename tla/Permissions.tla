----------------------------- MODULE Permissions -----------------------------
(***************************************************************************)
(* Who is given access to a memory that is not public: the rows of         *)
(* memory_permissions                                                      *)
(* (internal/service/permission_service.go over                            *)
(* internal/repository/permission_repo.go) together with the circles they  *)
(* name, as the handlers of both are called.                               *)
(*                                                                         *)
(* One memory stands for all: no statement relates two of them.  The table *)
(* has no unique key, so that a grant may have several rows; what is asked *)
(* of them is whether there is one, and a DELETE takes all, so a set says  *)
(* everything.                                                             *)
(*                                                                         *)
(* The module is about these tables.  The program does not consult them    *)
(* when a memory is read (see CanAccess).                                  *)
(***************************************************************************)
EXTENDS Circles

CONSTANTS
    Memory,         \* the memory
    Author,         \* its owner
    ContextKeys,    \* keys under which the middleware leaves what it knows of
                    \* the caller
    Shares          \* slots for requests about permissions

ASSUME AuthorAssumption == Author \in Users
ASSUME MemoryAssumption == Memory \notin Circles /\ Circles \cap Users = {}

VARIABLES
    grants,         \* circle_id and user_id of the rows of the memory
    step,           \* step[s]: next statement of request s
    entry,          \* entry[s]: the circle or user it is about
    open,           \* history: seats given and not touched since
    shut            \* history: seats taken back and not touched since

permVars == <<grants, step, entry>>
sharingVars == <<vars, permVars, open, shut>>

\* A seat is a pair <<list, entry>>: <<c, u>> is user u in circle c, and
\* <<Memory, g>> is circle or user g among the grants of the memory.
Seats == (Circles \X Users) \cup ({Memory} \X (Circles \cup Users))

\* Seats that are taken, in the tables.
Filled ==
    {seat \in Circles \X Users : seat[2] \in members[seat[1]]}
        \cup ({Memory} \X grants)

SharingTypeOK ==
    /\ grants \subseteq Circles \cup Users
    /\ step \in [Shares -> {"idle", "grant", "revoke"}]
    /\ entry \in [Shares -> Circles \cup Users \cup {None}]
    /\ open \subseteq Seats
    /\ shut \subseteq Seats

\* The handlers of circles and permissions look for the caller under this key
\* and answer 401 without it.  (The middleware of the repository stores the
\* caller under "user_id".)
Identified == "userID" \in ContextKeys

SharingInit ==
    /\ Init
    /\ grants = {}
    /\ step = [s \in Shares |-> "idle"]
    /\ entry = [s \in Shares |-> None]
    /\ open = {}
    /\ shut = Seats

-----------------------------------------------------------------------------
\* What the repository would answer.  Nothing calls its CanAccess: reading a
\* memory asks memoryService.canAccess, which looks at the visibility alone
\* and refuses everybody but the owner what is not public, grants or not.
\* Neither of the lists looks at deleted_at of a circle.
GrantedCircles == grants \cap Circles
GrantedUsers == grants \cap Users

CanAccess(u, public) ==
    \/ u = Author
    \/ public
    \/ u \in GrantedUsers
    \/ \E c \in GrantedCircles : u \in members[c]

-----------------------------------------------------------------------------
\* Seats a request under way is about to fill, or to clear.
Asking ==
    {<<circle[r], user[r]>> : r \in {q \in Requests : pc[q] \in {"owner", "count", "add"}}}
    \cup {<<Memory, entry[s]>> : s \in {q \in Shares : step[q] = "grant"}}

Leaving ==
    {<<circle[r], user[r]>> : r \in {q \in Requests : pc[q] = "remove"}}
    \cup {<<Memory, entry[s]>> : s \in {q \in Shares : step[q] = "revoke"}}

\* A step gives and takes seats.  A seat is open (shut) from a request that
\* gave it (took it) while none of the other kind was under way, until one of
\* the other kind starts.
Recall(given, taken) ==
    /\ open' = (open \cup (given \ Leaving)) \ Leaving'
    /\ shut' = (shut \cup (taken \ Asking)) \ Asking'

\* A step of a circle request.
OfCircles(given, taken) == UNCHANGED permVars /\ Recall(given, taken)

HandleCreate(r, u) == Identified /\ CreateCount(r, u) /\ OfCircles({}, {})
HandleDelete(r, c) == Identified /\ DeleteLoad(r, c) /\ OfCircles({}, {})
HandleAddMember(r, c, u) == Identified /\ AddLoad(r, c, u) /\ OfCircles({}, {})
HandleRemoveMember(r, c, u) == Identified /\ RemoveLoad(r, c, u) /\ OfCircles({}, {})

InsertCircle(r, c) == CreateInsert(r, c) /\ OfCircles({}, {})
EnrolOwner(r) == CreateOwner(r) /\ OfCircles({<<circle[r], user[r]>>}, {})
MarkDeleted(r) == DeleteMark(r) /\ OfCircles({}, {})
CountMembers(r) == AddCount(r) /\ OfCircles({}, {})
Enrol(r) == AddMember(r) /\ OfCircles({<<circle[r], user[r]>>}, {})
Expel(r) == RemoveMember(r) /\ OfCircles({}, {<<circle[r], user[r]>>})
AbandonCircle(r) == Abandon(r) /\ OfCircles({}, {})

-----------------------------------------------------------------------------
\* A request of the author about an entry starts, or sends its statement.  (The
\* first statement finds the memory, also when it is deleted, and its owner.)
StartShare(s, next, e) ==
    /\ step[s] = "idle"
    /\ step' = [step EXCEPT ![s] = next]
    /\ entry' = [entry EXCEPT ![s] = e]
    /\ UNCHANGED <<vars, grants>>
    /\ Recall({}, {})

EndShare(s) ==
    /\ step' = [step EXCEPT ![s] = "idle"]
    /\ entry' = [entry EXCEPT ![s] = None]
    /\ UNCHANGED vars

\* Any circle that is not deleted, whoever owns it.
GrantCircleAccess(s, c) == Exists(c) /\ StartShare(s, "grant", c)

\* "Cannot grant access to self".
GrantUserAccess(s, u) == u # Author /\ StartShare(s, "grant", u)

InsertGrant(s) ==
    /\ step[s] = "grant"
    /\ grants' = grants \cup {entry[s]}
    /\ EndShare(s)
    /\ Recall({<<Memory, entry[s]>>}, {})

\* A request that names a circle and a user is about the circle.
RevokeAccess(s, e) == StartShare(s, "revoke", e)

\* Fault: the case of circles is missing.
DeleteGrantUsersOnly(s) ==
    /\ step[s] = "revoke"
    /\ grants' = grants \ ({entry[s]} \cap Users)
    /\ EndShare(s)
    /\ Recall({}, {<<Memory, entry[s]>>})

\* Fault: WHERE memory_id only, as in RevokeAllAccess.
DeleteGrantAll(s) ==
    /\ step[s] = "revoke"
    /\ grants' = {}
    /\ EndShare(s)
    /\ Recall({}, {<<Memory, entry[s]>>})

DeleteGrant(s) ==
    /\ step[s] = "revoke"
    /\ grants' = grants \ {entry[s]}
    /\ EndShare(s)
    /\ Recall({}, {<<Memory, entry[s]>>})

\* The handlers: 401 without the caller's key, else the service.
HandleGrantCircle(s, c) == Identified /\ GrantCircleAccess(s, c)
HandleGrantUser(s, u) == Identified /\ GrantUserAccess(s, u)
HandleRevoke(s, e) == Identified /\ RevokeAccess(s, e)

AbandonShare(s) ==
    /\ Faults
    /\ step[s] # "idle"
    /\ EndShare(s)
    /\ UNCHANGED grants
    /\ Recall({}, {})

SharingNext ==
    \/ \E r \in Requests, u \in Owners : HandleCreate(r, u)
    \/ \E r \in Requests, c \in Circles : InsertCircle(r, c) \/ HandleDelete(r, c)
    \/ \E r \in Requests, c \in Circles, u \in Users :
        HandleAddMember(r, c, u) \/ HandleRemoveMember(r, c, u)
    \/ \E r \in Requests :
        \/ EnrolOwner(r) \/ MarkDeleted(r) \/ CountMembers(r)
        \/ Enrol(r) \/ Expel(r) \/ AbandonCircle(r)
    \/ \E s \in Shares, c \in Circles : HandleGrantCircle(s, c)
    \/ \E s \in Shares, u \in Users : HandleGrantUser(s, u)
    \/ \E s \in Shares, e \in Circles \cup Users : HandleRevoke(s, e)
    \/ \E s \in Shares : InsertGrant(s) \/ DeleteGrant(s) \/ AbandonShare(s)

SharingSpec == SharingInit /\ [][SharingNext]_sharingVars

-----------------------------------------------------------------------------
\* What the author took back stays taken back: whomever CanAccess still lets in
\* holds a seat that nobody took from her, or that somebody has asked to give
\* her again, directly or through one circle.
ShutOutStayOut ==
    \A u \in Users \ {Author} :
        CanAccess(u, FALSE) =>
            \/ <<Memory, u>> \notin shut
            \/ \E c \in Circles : <<c, u>> \notin shut /\ <<Memory, c>> \notin shut

\* A seat that was given is still in the tables until a request that takes it
\* back starts: deleting the circle, revoking other entries, expelling other
\* members, other people's requests and requests that stop half way leave it.
\* (Overlapping requests for and against one seat may end either way.)
GivenSeatsStay == open \subseteq Filled
=============================================================================
