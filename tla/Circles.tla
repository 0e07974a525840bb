------------------------------- MODULE Circles -------------------------------
(***************************************************************************)
(* Friend circles: internal/service/circle_service.go over the tables      *)
(* friend_circles and circle_members (internal/repository/circle_repo.go). *)
(*                                                                         *)
(* One action per statement; adding and removing a member are the two      *)
(* transactions of the program and one action each.  Everybody but the     *)
(* owner is refused without effect, so the requests below are the owner's. *)
(* Names and descriptions, which Update writes back, are left out.         *)
(***************************************************************************)
EXTENDS Naturals, FiniteSets

CONSTANTS
    Users,
    Owners,         \* users who create circles
    Circles,        \* rows of friend_circles that may be created
    Requests,       \* request slots
    MaxCircles,     \* MaxCirclesPerUser (20 in the code)
    MaxMembers,     \* MaxMembersPerCircle (100 in the code)
    CountDefault,   \* DEFAULT of friend_circles.member_count, a column the
                    \* statements use and the migrations do not create
    MaxCount,       \* bound: largest member_count
    Faults,         \* TRUE: a statement may fail, a request may stop
    None

ASSUME NoneAssumption == None \notin Users \cup Circles
ASSUME OwnersAssumption == Owners \subseteq Users
ASSUME RequestsAssumption == IsFiniteSet(Requests) /\ Requests # {}
ASSUME LimitsAssumption == MaxCircles \in Nat \ {0} /\ MaxMembers \in Nat \ {0}
ASSUME CountAssumption == CountDefault \in Nat /\ MaxCount \in Nat
ASSUME FaultsAssumption == Faults \in BOOLEAN

VARIABLES
    owner,          \* owner[c]: owner_id, None when there is no row
    deleted,        \* circles with deleted_at set
    members,        \* members[c]: user_id of the rows of circle_members
    member_count,   \* member_count[c]: column of friend_circles
    pc,             \* pc[r]: next statement of request r
    circle,         \* circle[r]: circle request r is about
    user,           \* user[r]: owner-to-be, or member to add or to remove
    late            \* history: late[c] = writes to c after its deletion

circleVars == <<owner, deleted, members, member_count>>
reqVars == <<pc, circle, user>>
vars == <<owner, deleted, members, member_count, pc, circle, user, late>>

Steps == {"idle", "insert", "owner", "delete", "count", "add", "remove"}

TypeOK ==
    /\ owner \in [Circles -> Users \cup {None}]
    /\ deleted \in SUBSET Circles
    /\ members \in [Circles -> SUBSET Users]
    /\ member_count \in [Circles -> Nat]
    /\ pc \in [Requests -> Steps]
    /\ circle \in [Requests -> Circles \cup {None}]
    /\ user \in [Requests -> Users \cup {None}]
    /\ late \in [Circles -> Nat]

Init ==
    /\ owner = [c \in Circles |-> None]
    /\ deleted = {}
    /\ members = [c \in Circles |-> {}]
    /\ member_count = [c \in Circles |-> 0]
    /\ pc = [r \in Requests |-> "idle"]
    /\ circle = [r \in Requests |-> None]
    /\ user = [r \in Requests |-> None]
    /\ late = [c \in Circles |-> 0]

Created == {c \in Circles : owner[c] # None}

\* Fault: deleted_at is not looked at.
CreatedOrDeleted(c) == c \in Created

\* GetByID: the row is there and not marked.
Exists(c) == c \in Created \ deleted

\* CountByOwner counts these.
OwnedBy(u) == {c \in Created \ deleted : owner[c] = u}

Begin(r, step, c, u) ==
    /\ pc[r] = "idle"
    /\ pc' = [pc EXCEPT ![r] = step]
    /\ circle' = [circle EXCEPT ![r] = c]
    /\ user' = [user EXCEPT ![r] = u]

Goto(r, step) ==
    /\ pc' = [pc EXCEPT ![r] = step]
    /\ UNCHANGED <<circle, user>>

Finish(r) ==
    /\ pc' = [pc EXCEPT ![r] = "idle"]
    /\ circle' = [circle EXCEPT ![r] = None]
    /\ user' = [user EXCEPT ![r] = None]

\* Request r wrote to its circle.
Wrote(r) == late' = IF circle[r] \in deleted
                      THEN [late EXCEPT ![circle[r]] = @ + 1] ELSE late

-----------------------------------------------------------------------------
\* Create: the circles of the user are counted and, below the limit, one is
\* inserted.
CreateCount(r, u) ==
    /\ Cardinality(OwnedBy(u)) < MaxCircles
    /\ Begin(r, "insert", None, u)
    /\ UNCHANGED <<circleVars, late>>

CreateInsert(r, c) ==
    /\ pc[r] = "insert"
    /\ owner[c] = None
    /\ owner' = [owner EXCEPT ![c] = user[r]]
    /\ member_count' = [member_count EXCEPT ![c] = CountDefault]
    /\ pc' = [pc EXCEPT ![r] = "owner"]
    /\ circle' = [circle EXCEPT ![r] = c]
    /\ UNCHANGED <<deleted, members, user, late>>

\* "Add owner as first member", outside a transaction and without counting;
\* an error is swallowed (Abandon).
CreateOwner(r) ==
    /\ pc[r] = "owner"
    /\ members' = [members EXCEPT ![circle[r]] = @ \cup {user[r]}]
    /\ Wrote(r)
    /\ Finish(r)
    /\ UNCHANGED <<owner, deleted, member_count>>

\* Delete: GetByID, then the row is marked, whatever happened since.
DeleteLoad(r, c) ==
    /\ Exists(c)
    /\ Begin(r, "delete", c, None)
    /\ UNCHANGED <<circleVars, late>>

DeleteMark(r) ==
    /\ pc[r] = "delete"
    /\ deleted' = deleted \cup {circle[r]}
    /\ Finish(r)
    /\ UNCHANGED <<owner, members, member_count, late>>

-----------------------------------------------------------------------------
AddLoad(r, c, u) ==
    /\ Exists(c)
    /\ Begin(r, "count", c, u)
    /\ UNCHANGED <<circleVars, late>>

\* Fault: the limit itself still passes.
AddCountOffByOne(r) ==
    /\ pc[r] = "count"
    /\ IF Cardinality(members[circle[r]]) <= MaxMembers
       THEN Goto(r, "add")
       ELSE Finish(r)
    /\ UNCHANGED <<circleVars, late>>

\* CountMembers counts the rows, not member_count.
AddCount(r) ==
    /\ pc[r] = "count"
    /\ IF Cardinality(members[circle[r]]) < MaxMembers
       THEN Goto(r, "add")
       ELSE Finish(r)
    /\ UNCHANGED <<circleVars, late>>

\* INSERT ... ON CONFLICT DO NOTHING and member_count + 1, in one transaction;
\* the counter goes up also when the row was there.
AddMember(r) ==
    /\ pc[r] = "add"
    /\ member_count[circle[r]] < MaxCount
    /\ members' = [members EXCEPT ![circle[r]] = @ \cup {user[r]}]
    /\ member_count' = [member_count EXCEPT ![circle[r]] = @ + 1]
    /\ Wrote(r)
    /\ Finish(r)
    /\ UNCHANGED <<owner, deleted>>

RemoveLoad(r, c, u) ==
    /\ Exists(c)
    /\ u # owner[c]
    /\ Begin(r, "remove", c, u)
    /\ UNCHANGED <<circleVars, late>>

\* Fault: the number of rows deleted is not looked at.
RemoveMemberAlways(r) ==
    /\ pc[r] = "remove"
    /\ members' = [members EXCEPT ![circle[r]] = @ \ {user[r]}]
    /\ member_count' = [member_count EXCEPT ![circle[r]] =
                            IF @ > 0 THEN @ - 1 ELSE 0]
    /\ Wrote(r)
    /\ Finish(r)
    /\ UNCHANGED <<owner, deleted>>

\* DELETE, and when there was a row GREATEST(member_count - 1, 0), in one
\* transaction.
RemoveMember(r) ==
    /\ pc[r] = "remove"
    /\ IF user[r] \in members[circle[r]]
       THEN /\ members' = [members EXCEPT ![circle[r]] = @ \ {user[r]}]
            /\ member_count' = [member_count EXCEPT ![circle[r]] =
                                    IF @ > 0 THEN @ - 1 ELSE 0]
            /\ Wrote(r)
       ELSE UNCHANGED <<members, member_count, late>>
    /\ Finish(r)
    /\ UNCHANGED <<owner, deleted>>

Abandon(r) ==
    /\ Faults
    /\ pc[r] # "idle"
    /\ Finish(r)
    /\ UNCHANGED <<circleVars, late>>

Next ==
    \/ \E r \in Requests, u \in Owners : CreateCount(r, u)
    \/ \E r \in Requests, c \in Circles : CreateInsert(r, c) \/ DeleteLoad(r, c)
    \/ \E r \in Requests, c \in Circles, u \in Users :
        AddLoad(r, c, u) \/ RemoveLoad(r, c, u)
    \/ \E r \in Requests :
        \/ CreateOwner(r) \/ DeleteMark(r)
        \/ AddCount(r) \/ AddMember(r) \/ RemoveMember(r)
        \/ Abandon(r)

Spec == Init /\ [][Next]_vars

-----------------------------------------------------------------------------
\* "maximum 20 circles allowed": a user can have more only by creations that
\* counted before the others inserted.
CirclesOvershootBounded ==
    \A u \in Users :
        Cardinality(OwnedBy(u)) < MaxCircles + Cardinality(Requests)

\* "maximum 100 members allowed": the same for the members of a circle.
MembersOvershootBounded ==
    \A c \in Circles :
        Cardinality(members[c]) < MaxMembers + Cardinality(Requests)

\* member_count is never below the number of members besides the owner: what
\* a removal takes off an addition has put there, and GREATEST never bites.
\* (It is above it as soon as somebody is added twice.)
CountCoversMembers ==
    \A c \in Created :
        member_count[c] >= CountDefault + Cardinality(members[c] \ {owner[c]})

\* A deleted circle is written to by the requests that read it before it was
\* deleted, once each, and by no other.
StragglersBounded == \A c \in Circles : late[c] < Cardinality(Requests)

\* "Cannot remove owner": once the owner is a member nothing changes that.
OwnerStays ==
    [][\A c \in Circles : owner[c] \in members[c] => owner[c] \in members'[c]]_vars
=============================================================================
