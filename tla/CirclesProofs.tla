---------------------------- MODULE CirclesProofs ----------------------------
(***************************************************************************)
(* Theorems about Circles, for any users and circles, any limits and any   *)
(* finite set of concurrent requests, and about the permissions that name  *)
(* them (the last section).                                                *)
(***************************************************************************)
EXTENDS Permissions, FiniteSetTheorems, TLAPS

USE NoneAssumption, OwnersAssumption

\* What the statements of a request know about their arguments.
RequestsKnow ==
    \A r \in Requests :
        /\ pc[r] \in {"owner", "delete", "count", "add", "remove"}
             => circle[r] \in Created
        /\ pc[r] \in {"insert", "count", "add", "remove"} => user[r] \in Users
        /\ pc[r] = "owner" => user[r] = owner[circle[r]]
        /\ pc[r] = "remove" => user[r] # owner[circle[r]]

\* Only created circles are deleted and have members, and only deleted ones
\* are written to late.
RowsConsistent ==
    /\ deleted \subseteq Created
    /\ \A c \in Circles : owner[c] = None => members[c] = {}
    /\ \A c \in Circles : c \notin deleted => late[c] = 0

IInv ==
    /\ TypeOK
    /\ RequestsKnow
    /\ RowsConsistent

LEMMA InitInv == Init => IInv
  BY CountAssumption
  DEF Init, IInv, TypeOK, Steps, RequestsKnow, RowsConsistent, Created

LEMMA NextInv == IInv /\ [Next]_vars => IInv'
<1> SUFFICES ASSUME IInv, [Next]_vars PROVE IInv'
  OBVIOUS
<1> USE DEF IInv, TypeOK, Steps, Begin, Goto, Finish, Wrote, circleVars,
            Created, Exists, RequestsKnow, RowsConsistent
<1>1. ASSUME NEW r \in Requests, NEW u \in Owners, CreateCount(r, u)
      PROVE  IInv'
  BY <1>1 DEF CreateCount
<1>2. ASSUME NEW r \in Requests, NEW c \in Circles, CreateInsert(r, c)
      PROVE  IInv'
  <2>1. TypeOK'
    BY <1>2, CountAssumption DEF CreateInsert
  <2>2. RequestsKnow'
    BY <1>2, <2>1 DEF CreateInsert
  <2>3. RowsConsistent'
    BY <1>2, <2>1 DEF CreateInsert
  <2> QED
    BY <2>1, <2>2, <2>3
<1>3. ASSUME NEW r \in Requests, NEW c \in Circles, DeleteLoad(r, c)
      PROVE  IInv'
  BY <1>3 DEF DeleteLoad
<1>4. ASSUME NEW r \in Requests, NEW c \in Circles, NEW u \in Users,
             AddLoad(r, c, u)
      PROVE  IInv'
  BY <1>4 DEF AddLoad
<1>5. ASSUME NEW r \in Requests, NEW c \in Circles, NEW u \in Users,
             RemoveLoad(r, c, u)
      PROVE  IInv'
  BY <1>5 DEF RemoveLoad
<1>6. ASSUME NEW r \in Requests, CreateOwner(r)
      PROVE  IInv'
  <2>1. TypeOK'
    BY <1>6 DEF CreateOwner
  <2>2. RequestsKnow'
    BY <1>6, <2>1 DEF CreateOwner
  <2>3. RowsConsistent'
    BY <1>6, <2>1 DEF CreateOwner
  <2> QED
    BY <2>1, <2>2, <2>3
<1>7. ASSUME NEW r \in Requests, DeleteMark(r)
      PROVE  IInv'
  BY <1>7 DEF DeleteMark
<1>8. ASSUME NEW r \in Requests, AddCount(r)
      PROVE  IInv'
  BY <1>8 DEF AddCount
<1>9. ASSUME NEW r \in Requests, AddMember(r)
      PROVE  IInv'
  <2>1. TypeOK'
    BY <1>9 DEF AddMember
  <2>2. RequestsKnow'
    BY <1>9, <2>1 DEF AddMember
  <2>3. RowsConsistent'
    BY <1>9, <2>1 DEF AddMember
  <2> QED
    BY <2>1, <2>2, <2>3
<1>10. ASSUME NEW r \in Requests, RemoveMember(r)
       PROVE  IInv'
  <2>1. TypeOK'
    BY <1>10 DEF RemoveMember
  <2>2. RequestsKnow'
    BY <1>10, <2>1 DEF RemoveMember
  <2>3. RowsConsistent'
    BY <1>10, <2>1 DEF RemoveMember
  <2> QED
    BY <2>1, <2>2, <2>3
<1>11. ASSUME NEW r \in Requests, Abandon(r)
       PROVE  IInv'
  BY <1>11 DEF Abandon
<1>12. CASE UNCHANGED vars
  BY <1>12 DEF vars
<1> HIDE DEF IInv, TypeOK, Steps, Begin, Goto, Finish, Wrote, circleVars,
             Created, Exists, RequestsKnow, RowsConsistent
<1> QED
  BY <1>1, <1>2, <1>3, <1>4, <1>5, <1>6, <1>7, <1>8, <1>9, <1>10, <1>11, <1>12
  DEF Next

LEMMA Invariance == Spec => []IInv
  BY InitInv, NextInv, PTL DEF Spec

\* Every variable keeps its type.
THEOREM TypeCorrect == Spec => []TypeOK
<1>1. IInv => TypeOK
  BY DEF IInv
<1> QED
  BY <1>1, Invariance, PTL

-----------------------------------------------------------------------------
\* The only statement that takes a member off a circle is RemoveMember, and
\* the request it belongs to has seen that the member is not the owner, who
\* never changes.
THEOREM OwnerKeepsMembership == Spec => OwnerStays
<1> DEFINE Stays == \A c \in Circles :
                        owner[c] \in members[c] => owner[c] \in members'[c]
<1>1. IInv /\ [Next]_vars => [Stays]_vars
  <2> SUFFICES ASSUME IInv, Next PROVE Stays
    OBVIOUS
  <2> USE DEF IInv, TypeOK, circleVars
  <2>1. ASSUME NEW r \in Requests, NEW u \in Owners, CreateCount(r, u)
        PROVE  Stays
    BY <2>1 DEF CreateCount
  <2>2. ASSUME NEW r \in Requests, NEW c \in Circles,
               CreateInsert(r, c) \/ DeleteLoad(r, c)
        PROVE  Stays
    BY <2>2 DEF CreateInsert, DeleteLoad
  <2>3. ASSUME NEW r \in Requests, NEW c \in Circles, NEW u \in Users,
               AddLoad(r, c, u) \/ RemoveLoad(r, c, u)
        PROVE  Stays
    BY <2>3 DEF AddLoad, RemoveLoad
  <2>4. ASSUME NEW r \in Requests,
               \/ CreateOwner(r) \/ DeleteMark(r) \/ AddCount(r)
               \/ AddMember(r) \/ Abandon(r)
        PROVE  Stays
    BY <2>4 DEF CreateOwner, DeleteMark, AddCount, AddMember, Abandon
  <2>5. ASSUME NEW r \in Requests, RemoveMember(r)
        PROVE  Stays
    BY <2>5 DEF RemoveMember, RequestsKnow
  <2> HIDE DEF IInv, TypeOK, circleVars, Stays
  <2> QED
    BY <2>1, <2>2, <2>3, <2>4, <2>5 DEF Next
<1> QED
  BY <1>1, Invariance, PTL DEF Spec, OwnerStays

-----------------------------------------------------------------------------
\* Rows of A that are there and requests of B that may still add one: below
\* the limit n by fewer than one per request slot.
Budget(A, B, n) ==
    /\ IsFiniteSet(A)
    /\ Cardinality(A) + Cardinality(B) < n + Cardinality(Requests)

\* Nothing is added to either set.
LEMMA BudgetQuiet ==
    ASSUME NEW n \in Nat, NEW A, NEW B, NEW A1, NEW B1,
           Budget(A, B, n), B \subseteq Requests,
           A1 \subseteq A, B1 \subseteq B
    PROVE  Budget(A1, B1, n)
<1>1. IsFiniteSet(A) /\ IsFiniteSet(B)
  BY FS_Subset, RequestsAssumption DEF Budget
<1>2. /\ IsFiniteSet(A1) /\ Cardinality(A1) <= Cardinality(A)
      /\ Cardinality(B1) <= Cardinality(B) /\ IsFiniteSet(B1)
  BY <1>1, FS_Subset
<1>3. /\ Cardinality(A) \in Nat /\ Cardinality(A1) \in Nat
      /\ Cardinality(B) \in Nat /\ Cardinality(B1) \in Nat
      /\ Cardinality(Requests) \in Nat
  BY <1>1, <1>2, FS_CardinalityType, RequestsAssumption
<1> QED
  BY <1>2, <1>3 DEF Budget

\* A request adds its row.
LEMMA BudgetMove ==
    ASSUME NEW n \in Nat, NEW A, NEW B, NEW A1, NEW B1, NEW x, NEW r \in B,
           Budget(A, B, n), B \subseteq Requests,
           A1 \subseteq A \cup {x}, B1 \subseteq B \ {r}
    PROVE  Budget(A1, B1, n)
<1>1. IsFiniteSet(A) /\ IsFiniteSet(B)
  BY FS_Subset, RequestsAssumption DEF Budget
<1>2. /\ IsFiniteSet(A \cup {x})
      /\ Cardinality(A \cup {x}) <= Cardinality(A) + 1
  <2>1. Cardinality(A) \in Nat
    BY <1>1, FS_CardinalityType
  <2>2. /\ IsFiniteSet(A \cup {x})
        /\ \/ Cardinality(A \cup {x}) = Cardinality(A)
           \/ Cardinality(A \cup {x}) = Cardinality(A) + 1
    BY <1>1, FS_AddElement, Zenon
  <2> QED
    BY <2>1, <2>2
<1>3. IsFiniteSet(B \ {r}) /\ Cardinality(B \ {r}) = Cardinality(B) - 1
  BY <1>1, FS_RemoveElement
<1>4. IsFiniteSet(A1) /\ Cardinality(A1) <= Cardinality(A \cup {x})
  BY <1>2, FS_Subset
<1>5. IsFiniteSet(B1) /\ Cardinality(B1) <= Cardinality(B \ {r})
  BY <1>3, FS_Subset
<1>6. /\ Cardinality(A) \in Nat /\ Cardinality(A1) \in Nat
      /\ Cardinality(B) \in Nat /\ Cardinality(B1) \in Nat
      /\ Cardinality(A \cup {x}) \in Nat /\ Cardinality(B \ {r}) \in Nat
      /\ Cardinality(Requests) \in Nat
  BY <1>1, <1>2, <1>3, <1>4, <1>5, FS_CardinalityType, RequestsAssumption
<1>7. Cardinality(A) + Cardinality(B) < n + Cardinality(Requests)
  BY DEF Budget
<1>8. Cardinality(A1) + Cardinality(B1) < n + Cardinality(Requests)
  BY <1>2, <1>3, <1>4, <1>5, <1>6, <1>7
<1> QED
  BY <1>4, <1>8 DEF Budget

\* A request that finds fewer than n rows may go on.
LEMMA BudgetPass ==
    ASSUME NEW n \in Nat, NEW A, NEW B,
           IsFiniteSet(A), Cardinality(A) < n, B \subseteq Requests
    PROVE  Budget(A, B, n)
<1>1. IsFiniteSet(B) /\ Cardinality(B) <= Cardinality(Requests)
  BY FS_Subset, RequestsAssumption
<1>2. /\ Cardinality(A) \in Nat /\ Cardinality(B) \in Nat
      /\ Cardinality(Requests) \in Nat
  BY <1>1, FS_CardinalityType, RequestsAssumption
<1> QED
  BY <1>1, <1>2 DEF Budget

\* What a budget leaves for the rows alone.
LEMMA BudgetBound ==
    ASSUME NEW n \in Nat, NEW A, NEW B, Budget(A, B, n), B \subseteq Requests
    PROVE  Cardinality(A) < n + Cardinality(Requests)
<1>1. IsFiniteSet(A) /\ IsFiniteSet(B)
  BY FS_Subset, RequestsAssumption DEF Budget
<1>2. /\ Cardinality(A) \in Nat /\ Cardinality(B) \in Nat
      /\ Cardinality(Requests) \in Nat
  BY <1>1, FS_CardinalityType, RequestsAssumption
<1> QED
  BY <1>2 DEF Budget

-----------------------------------------------------------------------------
\* Requests that may still insert a member of c, or a circle of u.
Adding(c) == {r \in Requests : pc[r] \in {"add", "owner"} /\ circle[r] = c}
Creating(u) == {r \in Requests : pc[r] = "insert" /\ user[r] = u}

MembersBudget == \A c \in Circles : Budget(members[c], Adding(c), MaxMembers)
CirclesBudget == \A u \in Users : Budget(OwnedBy(u), Creating(u), MaxCircles)

LEMMA MembersStep == IInv /\ MembersBudget /\ [Next]_vars => MembersBudget'
<1> SUFFICES ASSUME IInv, MembersBudget, [Next]_vars, NEW c \in Circles
             PROVE  Budget(members[c], Adding(c), MaxMembers)'
  BY DEF MembersBudget
<1> DEFINE Goal == Budget(members'[c], Adding(c)', MaxMembers)
           Quiet == members'[c] \subseteq members[c] /\ Adding(c)' \subseteq Adding(c)
           Move(r) == /\ r \in Adding(c)
                      /\ \E x : members'[c] \subseteq members[c] \cup {x}
                      /\ Adding(c)' \subseteq Adding(c) \ {r}
           Pass == /\ IsFiniteSet(members'[c])
                   /\ Cardinality(members'[c]) < MaxMembers
<1>1. /\ Budget(members[c], Adding(c), MaxMembers)
      /\ Adding(c) \subseteq Requests /\ Adding(c)' \subseteq Requests
      /\ MaxMembers \in Nat
  BY LimitsAssumption DEF MembersBudget, Adding
<1>2. IsFiniteSet(members[c])
  BY <1>1 DEF Budget
<1>3. ASSUME Quiet PROVE Goal
  BY <1>1, <1>3, BudgetQuiet
<1>4. ASSUME NEW r \in Requests, Move(r) PROVE Goal
  BY <1>1, <1>4, BudgetMove
<1>5. ASSUME Pass PROVE Goal
  BY <1>1, <1>5, BudgetPass
<1> USE DEF IInv, TypeOK, Steps, Begin, Goto, Finish, circleVars, Adding
<1>6. ASSUME NEW r \in Requests, NEW u \in Owners, CreateCount(r, u)
      PROVE  Quiet
  BY <1>6 DEF CreateCount
<1>7. ASSUME NEW r \in Requests, NEW d \in Circles, CreateInsert(r, d)
      PROVE  Quiet \/ Pass
  <2>1. CASE d # c
    BY <1>7, <2>1 DEF CreateInsert
  <2>2. CASE d = c
    <3>1. members'[c] = {}
      BY <1>7, <2>2 DEF CreateInsert, RowsConsistent
    <3> QED
      BY <3>1, FS_EmptySet, LimitsAssumption
  <2> QED
    BY <2>1, <2>2
<1>8. ASSUME NEW r \in Requests, NEW d \in Circles, DeleteLoad(r, d)
      PROVE  Quiet
  BY <1>8 DEF DeleteLoad
<1>9. ASSUME NEW r \in Requests, NEW d \in Circles, NEW u \in Users,
             AddLoad(r, d, u) \/ RemoveLoad(r, d, u)
      PROVE  Quiet
  BY <1>9 DEF AddLoad, RemoveLoad
<1>10. ASSUME NEW r \in Requests, CreateOwner(r) \/ AddMember(r)
       PROVE  Quiet \/ Move(r)
  <2>1. CASE circle[r] = c
    BY <1>10, <2>1 DEF CreateOwner, AddMember
  <2>2. CASE circle[r] # c
    BY <1>10, <2>2 DEF CreateOwner, AddMember
  <2> QED
    BY <2>1, <2>2
<1>11. ASSUME NEW r \in Requests, DeleteMark(r) \/ RemoveMember(r) \/ Abandon(r)
       PROVE  Quiet
  BY <1>11 DEF DeleteMark, RemoveMember, Abandon
<1>12. ASSUME NEW r \in Requests, AddCount(r)
       PROVE  Quiet \/ Pass
  <2>1. CASE circle[r] = c /\ Cardinality(members[c]) < MaxMembers
    BY <1>2, <1>12, <2>1 DEF AddCount
  <2>2. CASE ~(circle[r] = c /\ Cardinality(members[c]) < MaxMembers)
    BY <1>12, <2>2 DEF AddCount
  <2> QED
    BY <2>1, <2>2
<1>13. ASSUME UNCHANGED vars PROVE Quiet
  BY <1>13 DEF vars
<1> HIDE DEF IInv, TypeOK, Steps, Begin, Goto, Finish, circleVars, Adding,
             Goal, Quiet, Move, Pass
<1>14. Goal
  BY <1>3, <1>4, <1>5, <1>6, <1>7, <1>8, <1>9, <1>10, <1>11, <1>12, <1>13
  DEF Next
<1> QED
  BY <1>14 DEF Goal

\* A circle has fewer members than the limit and the request slots together.
THEOREM MembersAreBounded == Spec => []MembersOvershootBounded
<1>1. Init => MembersBudget
  <2> SUFFICES ASSUME Init, NEW c \in Circles
               PROVE  Budget(members[c], Adding(c), MaxMembers)
    BY DEF MembersBudget
  <2>1. members[c] = {} /\ Adding(c) \subseteq Requests
    BY DEF Init, Adding
  <2> QED
    BY <2>1, BudgetPass, FS_EmptySet, LimitsAssumption
<1>2. MembersBudget => MembersOvershootBounded
  <2> SUFFICES ASSUME MembersBudget, NEW c \in Circles
               PROVE  Cardinality(members[c]) < MaxMembers + Cardinality(Requests)
    BY DEF MembersOvershootBounded
  <2>1. /\ Budget(members[c], Adding(c), MaxMembers)
        /\ Adding(c) \subseteq Requests
        /\ MaxMembers \in Nat
    BY LimitsAssumption DEF MembersBudget, Adding
  <2> QED
    BY <2>1, BudgetBound
<1> QED
  BY <1>1, <1>2, MembersStep, Invariance, PTL DEF Spec

-----------------------------------------------------------------------------
LEMMA CirclesStep == IInv /\ CirclesBudget /\ [Next]_vars => CirclesBudget'
<1> SUFFICES ASSUME IInv, CirclesBudget, [Next]_vars, NEW u \in Users
             PROVE  Budget(OwnedBy(u), Creating(u), MaxCircles)'
  BY DEF CirclesBudget
<1> DEFINE Goal == Budget(OwnedBy(u)', Creating(u)', MaxCircles)
           Quiet == OwnedBy(u)' \subseteq OwnedBy(u) /\ Creating(u)' \subseteq Creating(u)
           Move(r, c) == /\ r \in Creating(u)
                         /\ OwnedBy(u)' \subseteq OwnedBy(u) \cup {c}
                         /\ Creating(u)' \subseteq Creating(u) \ {r}
           Pass == /\ OwnedBy(u)' = OwnedBy(u)
                   /\ Cardinality(OwnedBy(u)) < MaxCircles
<1>1. /\ Budget(OwnedBy(u), Creating(u), MaxCircles)
      /\ Creating(u) \subseteq Requests /\ Creating(u)' \subseteq Requests
      /\ MaxCircles \in Nat
  BY LimitsAssumption DEF CirclesBudget, Creating
<1>2. IsFiniteSet(OwnedBy(u))
  BY <1>1 DEF Budget
<1>3. ASSUME Quiet PROVE Goal
  BY <1>1, <1>3, BudgetQuiet
<1>4. ASSUME NEW r \in Requests, NEW c \in Circles, Move(r, c) PROVE Goal
  BY <1>1, <1>4, BudgetMove
<1>5. ASSUME Pass PROVE Goal
  <2>1. Budget(OwnedBy(u), Creating(u)', MaxCircles)
    BY <1>1, <1>2, <1>5, BudgetPass
  <2> QED
    BY <1>5, <2>1
<1> USE DEF IInv, TypeOK, Steps, Begin, Goto, Finish, circleVars, Creating,
            OwnedBy, Created
<1>6. ASSUME NEW r \in Requests, NEW v \in Owners, CreateCount(r, v)
      PROVE  Quiet \/ Pass
  <2>1. CASE v = u
    BY <1>6, <2>1 DEF CreateCount
  <2>2. CASE v # u
    BY <1>6, <2>2 DEF CreateCount
  <2> QED
    BY <2>1, <2>2
<1>7. ASSUME NEW r \in Requests, NEW c \in Circles, CreateInsert(r, c)
      PROVE  Quiet \/ Move(r, c)
  <2>1. CASE user[r] = u
    BY <1>7, <2>1 DEF CreateInsert
  <2>2. CASE user[r] # u
    BY <1>7, <2>2 DEF CreateInsert
  <2> QED
    BY <2>1, <2>2
<1>8. ASSUME NEW r \in Requests, NEW c \in Circles, DeleteLoad(r, c)
      PROVE  Quiet
  BY <1>8 DEF DeleteLoad
<1>9. ASSUME NEW r \in Requests, NEW c \in Circles, NEW v \in Users,
             AddLoad(r, c, v) \/ RemoveLoad(r, c, v)
      PROVE  Quiet
  BY <1>9 DEF AddLoad, RemoveLoad
<1>10. ASSUME NEW r \in Requests, CreateOwner(r) \/ AddMember(r) \/ RemoveMember(r)
       PROVE  Quiet
  BY <1>10 DEF CreateOwner, AddMember, RemoveMember
<1>11. ASSUME NEW r \in Requests, DeleteMark(r) \/ AddCount(r) \/ Abandon(r)
       PROVE  Quiet
  BY <1>11 DEF DeleteMark, AddCount, Abandon
<1>12. ASSUME UNCHANGED vars PROVE Quiet
  BY <1>12 DEF vars
<1> HIDE DEF IInv, TypeOK, Steps, Begin, Goto, Finish, circleVars, Creating,
             OwnedBy, Created, Goal, Quiet, Move, Pass
<1>13. Goal
  BY <1>3, <1>4, <1>5, <1>6, <1>7, <1>8, <1>9, <1>10, <1>11, <1>12 DEF Next
<1> QED
  BY <1>13 DEF Goal

\* A user owns fewer circles than the limit and the request slots together.
THEOREM CirclesAreBounded == Spec => []CirclesOvershootBounded
<1>1. Init => CirclesBudget
  <2> SUFFICES ASSUME Init, NEW u \in Users
               PROVE  Budget(OwnedBy(u), Creating(u), MaxCircles)
    BY DEF CirclesBudget
  <2>1. OwnedBy(u) = {} /\ Creating(u) \subseteq Requests
    BY DEF Init, OwnedBy, Created, Creating
  <2> QED
    BY <2>1, BudgetPass, FS_EmptySet, LimitsAssumption
<1>2. CirclesBudget => CirclesOvershootBounded
  <2> SUFFICES ASSUME CirclesBudget, NEW u \in Users
               PROVE  Cardinality(OwnedBy(u)) < MaxCircles + Cardinality(Requests)
    BY DEF CirclesOvershootBounded
  <2>1. /\ Budget(OwnedBy(u), Creating(u), MaxCircles)
        /\ Creating(u) \subseteq Requests
        /\ MaxCircles \in Nat
    BY LimitsAssumption DEF CirclesBudget, Creating
  <2> QED
    BY <2>1, BudgetBound
<1> QED
  BY <1>1, <1>2, CirclesStep, Invariance, PTL DEF Spec

-----------------------------------------------------------------------------
\* The members of c that member_count has to count.
Guests(c) == members[c] \ {owner[c]}

\* CountCoversMembers for one circle, with what the arithmetic needs.
Covered(c) ==
    owner[c] # None =>
        /\ IsFiniteSet(Guests(c))
        /\ member_count[c] >= CountDefault + Cardinality(Guests(c))

LEMMA CoveredStep ==
    ASSUME IInv, NEW c \in Circles, Covered(c), [Next]_vars
    PROVE  Covered(c)'
<1> DEFINE Same == /\ owner'[c] = owner[c]
                   /\ members'[c] = members[c]
                   /\ member_count'[c] = member_count[c]
<1>1. ASSUME Same PROVE Covered(c)'
  BY <1>1 DEF Covered, Guests
<1> USE DEF IInv, TypeOK, circleVars
<1>2. ASSUME NEW r \in Requests, NEW u \in Owners, CreateCount(r, u)
      PROVE  Same
  BY <1>2 DEF CreateCount
<1>3. ASSUME NEW r \in Requests, NEW d \in Circles, CreateInsert(r, d)
      PROVE  Covered(c)'
  <2>1. CASE d # c
    BY <1>1, <1>3, <2>1 DEF CreateInsert
  <2>2. CASE d = c
    <3>1. Guests(c)' = {} /\ member_count'[c] = CountDefault
      BY <1>3, <2>2 DEF CreateInsert, Guests, RowsConsistent
    <3> HIDE DEF IInv, TypeOK, circleVars
    <3>2. IsFiniteSet(Guests(c)') /\ Cardinality(Guests(c)') = 0
      BY <3>1, FS_EmptySet
    <3> QED
      BY <3>1, <3>2, CountAssumption DEF Covered
  <2> QED
    BY <2>1, <2>2
<1>4. ASSUME NEW r \in Requests, NEW d \in Circles, NEW u \in Users,
             AddLoad(r, d, u) \/ RemoveLoad(r, d, u)
      PROVE  Same
  BY <1>4 DEF AddLoad, RemoveLoad
<1>5. ASSUME NEW r \in Requests, NEW d \in Circles, DeleteLoad(r, d)
      PROVE  Same
  BY <1>5 DEF DeleteLoad
<1>6. ASSUME NEW r \in Requests, DeleteMark(r) \/ AddCount(r) \/ Abandon(r)
      PROVE  Same
  BY <1>6 DEF DeleteMark, AddCount, Abandon
<1>7. ASSUME NEW r \in Requests, CreateOwner(r)
      PROVE  Covered(c)'
  <2>1. Guests(c)' = Guests(c)
    BY <1>7 DEF CreateOwner, Guests, RequestsKnow
  <2>2. owner'[c] = owner[c] /\ member_count'[c] = member_count[c]
    BY <1>7 DEF CreateOwner
  <2> QED
    BY <2>1, <2>2 DEF Covered
<1>8. ASSUME NEW r \in Requests, AddMember(r)
      PROVE  Covered(c)'
  <2>1. CASE circle[r] # c
    BY <1>1, <1>8, <2>1 DEF AddMember
  <2>2. CASE circle[r] = c /\ owner[c] # None
    <3>1. /\ Guests(c)' \subseteq Guests(c) \cup {user[r]}
          /\ member_count'[c] = member_count[c] + 1
          /\ owner'[c] = owner[c]
      BY <1>8, <2>2 DEF AddMember, Guests
    <3>2. member_count[c] \in Nat
      OBVIOUS
    <3> HIDE DEF IInv, TypeOK, circleVars
    <3>3. /\ IsFiniteSet(Guests(c))
          /\ member_count[c] >= CountDefault + Cardinality(Guests(c))
      BY <2>2 DEF Covered
    <3>4. Cardinality(Guests(c)) \in Nat
      BY <3>3, FS_CardinalityType
    <3>5. /\ IsFiniteSet(Guests(c) \cup {user[r]})
          /\ \/ Cardinality(Guests(c) \cup {user[r]}) = Cardinality(Guests(c))
             \/ Cardinality(Guests(c) \cup {user[r]}) = Cardinality(Guests(c)) + 1
      BY <3>3, FS_AddElement, Zenon
    <3>6. /\ IsFiniteSet(Guests(c)')
          /\ Cardinality(Guests(c)') <= Cardinality(Guests(c) \cup {user[r]})
      BY <3>1, <3>5, FS_Subset
    <3>7. Cardinality(Guests(c)') \in Nat
      BY <3>6, FS_CardinalityType
    <3>8. member_count'[c] >= CountDefault + Cardinality(Guests(c)')
      BY <3>1, <3>2, <3>3, <3>4, <3>5, <3>6, <3>7, CountAssumption
    <3> QED
      BY <3>6, <3>8 DEF Covered
  <2>3. CASE circle[r] = c /\ owner[c] = None
    BY <1>8, <2>3 DEF AddMember, Covered
  <2> QED
    BY <2>1, <2>2, <2>3
<1>9. ASSUME NEW r \in Requests, RemoveMember(r)
      PROVE  Covered(c)'
  <2>1. CASE circle[r] # c \/ user[r] \notin members[c]
    BY <1>1, <1>9, <2>1 DEF RemoveMember
  <2>2. CASE circle[r] = c /\ user[r] \in members[c]
    <3>1. /\ Guests(c)' = Guests(c) \ {user[r]}
          /\ user[r] \in Guests(c)
          /\ owner'[c] = owner[c] /\ owner[c] # None
      BY <1>9, <2>2 DEF RemoveMember, Guests, RequestsKnow, Created
    <3>2. /\ member_count[c] \in Nat
          /\ member_count'[c] = IF member_count[c] > 0
                                  THEN member_count[c] - 1 ELSE 0
      BY <1>9, <2>2 DEF RemoveMember
    <3> HIDE DEF IInv, TypeOK, circleVars
    <3>3. /\ IsFiniteSet(Guests(c))
          /\ member_count[c] >= CountDefault + Cardinality(Guests(c))
      BY <3>1 DEF Covered
    <3>4. Cardinality(Guests(c)) \in Nat
      BY <3>3, FS_CardinalityType
    <3>5. /\ IsFiniteSet(Guests(c)')
          /\ Cardinality(Guests(c)') = Cardinality(Guests(c)) - 1
          /\ Cardinality(Guests(c)') \in Nat
      <4>1. /\ IsFiniteSet(Guests(c) \ {user[r]})
            /\ Cardinality(Guests(c) \ {user[r]}) = Cardinality(Guests(c)) - 1
        BY <3>1, <3>3, FS_RemoveElement
      <4>2. Cardinality(Guests(c) \ {user[r]}) \in Nat
        BY <4>1, FS_CardinalityType
      <4> QED
        BY <3>1, <4>1, <4>2
    <3>6. member_count'[c] >= CountDefault + Cardinality(Guests(c)')
      BY <3>2, <3>3, <3>4, <3>5, CountAssumption
    <3> QED
      BY <3>5, <3>6 DEF Covered
  <2> QED
    BY <2>1, <2>2
<1>10. ASSUME UNCHANGED vars PROVE Same
  BY <1>10 DEF vars
<1> HIDE DEF IInv, TypeOK, circleVars, Same
<1> QED
  BY <1>1, <1>2, <1>3, <1>4, <1>5, <1>6, <1>7, <1>8, <1>9, <1>10 DEF Next

\* member_count counts at least the members besides the owner.
THEOREM CountCovers == Spec => []CountCoversMembers
<1> DEFINE Inv == \A c \in Circles : Covered(c)
<1>1. Init => Inv
  BY DEF Init, Covered
<1>2. IInv /\ Inv /\ [Next]_vars => Inv'
  BY CoveredStep
<1>3. Inv => CountCoversMembers
  BY DEF Covered, Guests, CountCoversMembers, Created
<1> QED
  BY <1>1, <1>2, <1>3, Invariance, PTL DEF Spec

-----------------------------------------------------------------------------
\* Requests that found c and may still write to it.
Writing(c) ==
    {r \in Requests :
        pc[r] \in {"owner", "count", "add", "remove"} /\ circle[r] = c}

\* Once c is deleted: the writes so far and the requests that may still write
\* are fewer than the slots, because the deletion itself took one.
LateBudget(c) ==
    c \in deleted => late[c] + Cardinality(Writing(c)) < Cardinality(Requests)

LEMMA WritingFinite ==
    ASSUME NEW c
    PROVE  /\ IsFiniteSet(Writing(c)) /\ Cardinality(Writing(c)) \in Nat
           /\ Cardinality(Requests) \in Nat
<1>1. Writing(c) \subseteq Requests
  BY DEF Writing
<1> QED
  BY <1>1, RequestsAssumption, FS_Subset, FS_CardinalityType

LEMMA LateStep ==
    ASSUME IInv, NEW c \in Circles, LateBudget(c), [Next]_vars
    PROVE  LateBudget(c)'
<1> DEFINE Quiet == /\ (c \in deleted)' => c \in deleted
                    /\ late'[c] = late[c]
                    /\ c \in deleted => Writing(c)' \subseteq Writing(c)
           Write(r) == /\ (c \in deleted)' => c \in deleted
                       /\ late'[c] = IF c \in deleted THEN late[c] + 1 ELSE late[c]
                       /\ r \in Writing(c)
                       /\ Writing(c)' \subseteq Writing(c) \ {r}
<1>1. late[c] \in Nat
  BY DEF IInv, TypeOK
<1>2. ASSUME Quiet PROVE LateBudget(c)'
  <2> SUFFICES ASSUME c \in deleted
               PROVE  late'[c] + Cardinality(Writing(c)') < Cardinality(Requests)
    BY <1>2 DEF LateBudget
  <2>1. IsFiniteSet(Writing(c)') /\ Cardinality(Writing(c)') <= Cardinality(Writing(c))
    BY <1>2, WritingFinite, FS_Subset
  <2>2. Cardinality(Writing(c)') \in Nat
    BY <2>1, FS_CardinalityType
  <2> QED
    BY <1>1, <1>2, <2>1, <2>2, WritingFinite DEF LateBudget
<1>3. ASSUME NEW r \in Requests, Write(r) PROVE LateBudget(c)'
  <2> SUFFICES ASSUME c \in deleted
               PROVE  late'[c] + Cardinality(Writing(c)') < Cardinality(Requests)
    BY <1>3 DEF LateBudget
  <2>1. /\ IsFiniteSet(Writing(c) \ {r})
        /\ Cardinality(Writing(c) \ {r}) = Cardinality(Writing(c)) - 1
    BY <1>3, WritingFinite, FS_RemoveElement
  <2>2. /\ IsFiniteSet(Writing(c)')
        /\ Cardinality(Writing(c)') <= Cardinality(Writing(c) \ {r})
    BY <1>3, <2>1, FS_Subset
  <2>3. Cardinality(Writing(c)') \in Nat
    BY <2>2, FS_CardinalityType
  <2>4. late'[c] = late[c] + 1
    BY <1>3
  <2> HIDE DEF Write
  <2> QED
    BY <1>1, <2>1, <2>2, <2>3, <2>4, WritingFinite DEF LateBudget
<1> USE DEF IInv, TypeOK, Steps, Begin, Goto, Finish, Wrote, circleVars, Writing
<1>4. ASSUME NEW r \in Requests, NEW u \in Owners, CreateCount(r, u)
      PROVE  Quiet
  BY <1>4 DEF CreateCount
<1>5. ASSUME NEW r \in Requests, NEW d \in Circles, CreateInsert(r, d)
      PROVE  Quiet
  BY <1>5 DEF CreateInsert, RowsConsistent, Created
<1>6. ASSUME NEW r \in Requests, NEW d \in Circles, DeleteLoad(r, d)
      PROVE  Quiet
  BY <1>6 DEF DeleteLoad
<1>7. ASSUME NEW r \in Requests, NEW d \in Circles, NEW u \in Users,
             AddLoad(r, d, u) \/ RemoveLoad(r, d, u)
      PROVE  Quiet
  BY <1>7 DEF AddLoad, RemoveLoad, Exists
<1>8. ASSUME NEW r \in Requests, DeleteMark(r)
      PROVE  LateBudget(c)'
  <2>1. CASE c \in deleted
    <3>1. Quiet
      BY <1>8, <2>1 DEF DeleteMark
    <3> QED
      BY <1>2, <3>1
  <2>2. CASE c \notin deleted
    <3>1. late'[c] = 0 /\ Writing(c)' \subseteq Requests \ {r}
      BY <1>8, <2>2 DEF DeleteMark, RowsConsistent
    <3> HIDE DEF IInv, TypeOK, Steps, Begin, Goto, Finish, Wrote, circleVars, Writing
    <3>2. /\ IsFiniteSet(Requests \ {r})
          /\ Cardinality(Requests \ {r}) = Cardinality(Requests) - 1
      BY RequestsAssumption, FS_RemoveElement
    <3>3. /\ IsFiniteSet(Writing(c)')
          /\ Cardinality(Writing(c)') <= Cardinality(Requests \ {r})
      BY <3>1, <3>2, FS_Subset
    <3>4. Cardinality(Writing(c)') \in Nat /\ Cardinality(Requests) \in Nat
      BY <3>3, RequestsAssumption, FS_CardinalityType
    <3>5. late'[c] + Cardinality(Writing(c)') < Cardinality(Requests)
      BY <3>1, <3>2, <3>3, <3>4
    <3> QED
      BY <3>5 DEF LateBudget
  <2> QED
    BY <2>1, <2>2
<1>9. ASSUME NEW r \in Requests, CreateOwner(r) \/ AddMember(r) \/ RemoveMember(r)
      PROVE  Quiet \/ Write(r)
  <2>1. CASE circle[r] = c
    BY <1>9, <2>1 DEF CreateOwner, AddMember, RemoveMember
  <2>2. CASE circle[r] # c
    BY <1>9, <2>2 DEF CreateOwner, AddMember, RemoveMember
  <2> QED
    BY <2>1, <2>2
<1>10. ASSUME NEW r \in Requests, AddCount(r) \/ Abandon(r)
       PROVE  Quiet
  BY <1>10 DEF AddCount, Abandon
<1>11. ASSUME UNCHANGED vars PROVE Quiet
  BY <1>11 DEF vars
<1> HIDE DEF IInv, TypeOK, Steps, Begin, Goto, Finish, Wrote, circleVars, Writing,
             Quiet, Write
<1> QED
  BY <1>2, <1>3, <1>4, <1>5, <1>6, <1>7, <1>8, <1>9, <1>10, <1>11 DEF Next

\* A deleted circle is written to fewer times than there are request slots.
THEOREM StragglersAreBounded == Spec => []StragglersBounded
<1> DEFINE Inv == \A c \in Circles : LateBudget(c)
<1>1. Init => Inv
  BY DEF Init, LateBudget
<1>2. IInv /\ Inv /\ [Next]_vars => Inv'
  BY LateStep
<1>3. IInv /\ Inv => StragglersBounded
  <2> SUFFICES ASSUME IInv, Inv, NEW c \in Circles
               PROVE  late[c] < Cardinality(Requests)
    BY DEF StragglersBounded
  <2>1. late[c] \in Nat
    BY DEF IInv, TypeOK
  <2>2. CASE c \in deleted
    BY <2>1, <2>2, WritingFinite DEF LateBudget
  <2>3. CASE c \notin deleted
    <3>1. late[c] = 0
      BY <2>3 DEF IInv, RowsConsistent
    <3>2. Cardinality(Requests) # 0
      BY RequestsAssumption, FS_EmptySet
    <3> QED
      BY <3>1, <3>2, WritingFinite
  <2> QED
    BY <2>2, <2>3
<1> QED
  BY <1>1, <1>2, <1>3, Invariance, PTL DEF Spec

-----------------------------------------------------------------------------
\* The lists say what the last request about a seat asked for.
LastWordHolds == open \subseteq Filled /\ Filled \cap shut = {}

\* What the permissions rest on: the lists follow the last requests about a
\* seat, and a request under way has put its own seat in doubt.
SeatsAgree ==
    /\ SharingTypeOK
    /\ LastWordHolds
    /\ Asking \cap shut = {}
    /\ Leaving \cap open = {}
    /\ \A s \in Shares : step[s] # "idle" => entry[s] \in Circles \cup Users

\* A step fills only seats that a request was asking for, empties only seats
\* that one was leaving, and what it reports is what it did.
Orderly(given, taken) ==
    /\ Filled' \subseteq Filled \cup Asking
    /\ Filled \ Leaving \subseteq Filled'
    /\ given \subseteq Filled'
    /\ taken \cap Filled' = {}
    /\ given \cup taken \subseteq Seats

\* What SharingTypeOK says of the requests and the table.
RowsTyped ==
    /\ grants \subseteq Circles \cup Users
    /\ step \in [Shares -> {"idle", "grant", "revoke"}]
    /\ entry \in [Shares -> Circles \cup Users \cup {None}]
    /\ \A s \in Shares : step[s] # "idle" => entry[s] \in Circles \cup Users

LEMMA RecallAgrees ==
    ASSUME SeatsAgree, RowsTyped',
           NEW given, NEW taken, Orderly(given, taken), Recall(given, taken)
    PROVE  SeatsAgree'
<1>1. Asking' \cap shut' = {} /\ Leaving' \cap open' = {}
  BY DEF Recall
<1>2. open' \subseteq Filled' /\ Filled' \cap shut' = {}
  BY DEF Recall, Orderly, SeatsAgree, LastWordHolds
<1>3. open' \subseteq Seats /\ shut' \subseteq Seats
  BY DEF Recall, Orderly, SeatsAgree, SharingTypeOK
<1>4. SharingTypeOK'
  BY <1>3 DEF RowsTyped, SharingTypeOK
<1> QED
  BY <1>1, <1>2, <1>4 DEF SeatsAgree, LastWordHolds, RowsTyped

\* The composition does to the circles what Circles does.
LEMMA SharingSteps == [SharingNext]_sharingVars => [Next]_vars
  BY DEF SharingNext, sharingVars, Next, HandleCreate, HandleDelete,
         HandleAddMember, HandleRemoveMember, InsertCircle, EnrolOwner,
         MarkDeleted, CountMembers, Enrol, Expel, AbandonCircle,
         HandleGrantCircle, HandleGrantUser, HandleRevoke, GrantCircleAccess,
         GrantUserAccess, RevokeAccess, StartShare,
         InsertGrant, DeleteGrant, AbandonShare, EndShare

\* Permissions leave the circles to their own module: every theorem above
\* holds of the two together.
THEOREM SharingKeepsCircles == SharingSpec => Spec
<1>1. SharingInit => Init
  BY DEF SharingInit
<1> QED
  BY <1>1, SharingSteps, PTL DEF SharingSpec, Spec

LEMMA SeatsInit == SharingInit => SeatsAgree
<1> SUFFICES ASSUME SharingInit PROVE SeatsAgree
  OBVIOUS
<1>1. Filled = {}
  BY DEF SharingInit, Init, Filled
<1>2. Asking = {} /\ Leaving = {}
  BY DEF SharingInit, Init, Asking, Leaving
<1>3. SharingTypeOK
  BY DEF SharingInit, SharingTypeOK
<1> QED
  BY <1>1, <1>2, <1>3 DEF SharingInit, SeatsAgree, LastWordHolds

\* A step that touches neither list.
LEMMA SeatsSame ==
    ASSUME SeatsAgree, RowsTyped', members' = members, grants' = grants,
           Recall({}, {})
    PROVE  SeatsAgree'
<1>1. Filled' = Filled
  BY DEF Filled
<1>2. Orderly({}, {})
  BY <1>1 DEF Orderly
<1> QED
  BY <1>2, RecallAgrees

LEMMA SeatsNext == IInv /\ SeatsAgree /\ [SharingNext]_sharingVars => SeatsAgree'
<1> SUFFICES ASSUME IInv, SeatsAgree, [SharingNext]_sharingVars
             PROVE  SeatsAgree'
  OBVIOUS
<1> DEFINE Same == /\ members' = members /\ grants' = grants
                   /\ RowsTyped' /\ Recall({}, {})
           Goal == SeatsAgree'
<1>1. ASSUME Same PROVE Goal
  BY <1>1, SeatsSame
<1>2. /\ RowsTyped
      /\ members \in [Circles -> SUBSET Users]
  BY DEF SeatsAgree, SharingTypeOK, RowsTyped, IInv, TypeOK
<1>3. ASSUME NEW given, NEW taken, OfCircles(given, taken)
      PROVE  RowsTyped' /\ grants' = grants /\ Recall(given, taken)
  BY <1>2, <1>3 DEF OfCircles, permVars, RowsTyped
<1>4. ASSUME NEW r \in Requests, NEW u \in Owners, HandleCreate(r, u)
      PROVE  Same
  BY <1>3, <1>4 DEF HandleCreate, CreateCount, circleVars
<1>5. ASSUME NEW r \in Requests, NEW c \in Circles,
             InsertCircle(r, c) \/ HandleDelete(r, c)
      PROVE  Same
  BY <1>3, <1>5 DEF InsertCircle, HandleDelete, CreateInsert, DeleteLoad, circleVars
<1>6. ASSUME NEW r \in Requests, NEW c \in Circles, NEW u \in Users,
             HandleAddMember(r, c, u) \/ HandleRemoveMember(r, c, u)
      PROVE  Same
  BY <1>3, <1>6 DEF HandleAddMember, HandleRemoveMember, AddLoad, RemoveLoad, circleVars
<1>7. ASSUME NEW r \in Requests,
             MarkDeleted(r) \/ CountMembers(r) \/ AbandonCircle(r)
      PROVE  Same
  BY <1>3, <1>7
  DEF MarkDeleted, CountMembers, AbandonCircle, DeleteMark, AddCount, Abandon, circleVars
<1>8. ASSUME NEW r \in Requests, EnrolOwner(r) \/ Enrol(r)
      PROVE  Goal
  <2> DEFINE seat == <<circle[r], user[r]>>
  <2>1. /\ circle[r] \in Circles /\ user[r] \in Users
        /\ members' = [members EXCEPT ![circle[r]] = @ \cup {user[r]}]
        /\ seat \in Asking
        /\ OfCircles({seat}, {})
    BY <1>8 DEF EnrolOwner, Enrol, CreateOwner, AddMember, Asking, IInv,
                TypeOK, RequestsKnow, Created
  <2>2. RowsTyped' /\ grants' = grants /\ Recall({seat}, {})
    BY <1>3, <2>1
  <2>3. Filled' = Filled \cup {seat}
    BY <1>2, <2>1, <2>2 DEF Filled
  <2>4. Orderly({seat}, {})
    BY <2>1, <2>3 DEF Orderly, Seats
  <2> QED
    BY <2>2, <2>4, RecallAgrees
<1>9. ASSUME NEW r \in Requests, Expel(r)
      PROVE  Goal
  <2> DEFINE seat == <<circle[r], user[r]>>
  <2>1. /\ circle[r] \in Circles /\ user[r] \in Users
        /\ members' = [members EXCEPT ![circle[r]] = @ \ {user[r]}]
        /\ seat \in Leaving
        /\ OfCircles({}, {seat})
    BY <1>2, <1>9 DEF Expel, RemoveMember, Leaving, IInv, TypeOK, RequestsKnow,
                      Created
  <2>2. RowsTyped' /\ grants' = grants /\ Recall({}, {seat})
    BY <1>3, <2>1
  <2>3. Filled' = Filled \ {seat}
    BY <1>2, <2>1, <2>2, MemoryAssumption DEF Filled
  <2>4. Orderly({}, {seat})
    BY <2>1, <2>3 DEF Orderly, Seats
  <2> QED
    BY <2>2, <2>4, RecallAgrees
<1>10. ASSUME NEW s \in Shares, NEW next \in {"grant", "revoke"},
              NEW e \in Circles \cup Users, StartShare(s, next, e)
       PROVE  Same
  BY <1>2, <1>10 DEF StartShare, vars, RowsTyped
<1>11. ASSUME NEW s \in Shares, NEW c \in Circles, HandleGrantCircle(s, c)
       PROVE  Same
  BY <1>10, <1>11 DEF HandleGrantCircle, GrantCircleAccess
<1>12. ASSUME NEW s \in Shares, NEW u \in Users, HandleGrantUser(s, u)
       PROVE  Same
  BY <1>10, <1>12 DEF HandleGrantUser, GrantUserAccess
<1>13. ASSUME NEW s \in Shares, NEW e \in Circles \cup Users, HandleRevoke(s, e)
       PROVE  Same
  BY <1>10, <1>13 DEF HandleRevoke, RevokeAccess
<1>14. ASSUME NEW s \in Shares, EndShare(s), grants' \subseteq Circles \cup Users
       PROVE  RowsTyped' /\ members' = members
  BY <1>2, <1>14 DEF EndShare, vars, RowsTyped
<1>15. ASSUME NEW s \in Shares, InsertGrant(s) \/ DeleteGrant(s)
       PROVE  entry[s] \in Circles \cup Users /\ EndShare(s)
  BY <1>15 DEF InsertGrant, DeleteGrant, SeatsAgree
<1>16. ASSUME NEW s \in Shares, InsertGrant(s)
       PROVE  Goal
  <2> DEFINE seat == <<Memory, entry[s]>>
  <2>1. /\ grants' = grants \cup {entry[s]} /\ Recall({seat}, {})
        /\ seat \in Asking
    BY <1>16 DEF InsertGrant, Asking
  <2>2. RowsTyped' /\ members' = members
    BY <1>2, <1>14, <1>15, <1>16, <2>1 DEF RowsTyped
  <2>3. Filled' = Filled \cup {seat}
    BY <2>1, <2>2 DEF Filled
  <2>4. Orderly({seat}, {})
    BY <1>15, <1>16, <2>1, <2>3 DEF Orderly, Seats
  <2> QED
    BY <2>1, <2>2, <2>4, RecallAgrees
<1>17. ASSUME NEW s \in Shares, DeleteGrant(s)
       PROVE  Goal
  <2> DEFINE seat == <<Memory, entry[s]>>
  <2>1. /\ grants' = grants \ {entry[s]} /\ Recall({}, {seat})
        /\ seat \in Leaving
    BY <1>17 DEF DeleteGrant, Leaving
  <2>2. RowsTyped' /\ members' = members
    BY <1>2, <1>14, <1>15, <1>17, <2>1 DEF RowsTyped
  <2>3. Filled' = Filled \ {seat}
    BY <2>1, <2>2, MemoryAssumption DEF Filled
  <2>4. Orderly({}, {seat})
    BY <1>15, <1>17, <2>1, <2>3 DEF Orderly, Seats
  <2> QED
    BY <2>1, <2>2, <2>4, RecallAgrees
<1>18. ASSUME NEW s \in Shares, AbandonShare(s)
       PROVE  Same
  BY <1>2, <1>14, <1>18 DEF AbandonShare, RowsTyped
<1>19. CASE UNCHANGED sharingVars
  <2>1. /\ open' = open /\ shut' = shut /\ Asking' = Asking /\ Leaving' = Leaving
        /\ Filled' = Filled
    BY <1>19 DEF sharingVars, vars, permVars, Asking, Leaving, Filled
  <2> QED
    BY <1>19, <2>1
    DEF SeatsAgree, SharingTypeOK, LastWordHolds, sharingVars, permVars
<1> HIDE DEF Same, Goal
<1>20. ASSUME SharingNext PROVE Goal
  BY <1>20, <1>1, <1>4, <1>5, <1>6, <1>7, <1>8, <1>9, <1>11, <1>12, <1>13,
     <1>16, <1>17, <1>18
  DEF SharingNext
<1> QED
  BY <1>19, <1>20 DEF Goal

LEMMA SeatsInvariance == SharingSpec => [](IInv /\ SeatsAgree)
<1>1. SharingSpec => []IInv
  BY SharingKeepsCircles, Invariance, PTL
<1>2. SharingInit => SeatsAgree
  BY SeatsInit
<1>3. IInv /\ SeatsAgree /\ [SharingNext]_sharingVars => SeatsAgree'
  BY SeatsNext
<1> QED
  BY <1>1, <1>2, <1>3, PTL DEF SharingSpec

\* The variables of the permissions keep their types.
THEOREM SharingTypeCorrect == SharingSpec => []SharingTypeOK
<1>1. SeatsAgree => SharingTypeOK
  BY DEF SeatsAgree
<1> QED
  BY <1>1, SeatsInvariance, PTL

\* Whom CanAccess lets in has a row in one of the lists, and rows are not shut.
THEOREM TakenBackStaysOut == SharingSpec => []ShutOutStayOut
<1>1. SeatsAgree => ShutOutStayOut
  <2> SUFFICES ASSUME SeatsAgree, NEW u \in Users \ {Author}, CanAccess(u, FALSE)
               PROVE  \/ <<Memory, u>> \notin shut
                      \/ \E c \in Circles :
                            <<c, u>> \notin shut /\ <<Memory, c>> \notin shut
    BY DEF ShutOutStayOut
  <2>1. Filled \cap shut = {}
    BY DEF SeatsAgree, LastWordHolds
  <2>2. CASE u \in grants
    <3>1. <<Memory, u>> \in Filled
      BY <2>2 DEF Filled
    <3> QED
      BY <2>1, <3>1
  <2>3. ASSUME NEW c \in Circles, c \in grants, u \in members[c]
        PROVE  <<c, u>> \notin shut /\ <<Memory, c>> \notin shut
    <3>1. <<c, u>> \in Filled /\ <<Memory, c>> \in Filled
      BY <2>3 DEF Filled
    <3> QED
      BY <2>1, <3>1
  <2> QED
    BY <2>2, <2>3 DEF CanAccess, GrantedCircles, GrantedUsers
<1> QED
  BY <1>1, SeatsInvariance, PTL

\* What is written stays until somebody asks for the opposite: an open seat is
\* a row, however circles are deleted and the other seats given and taken.
THEOREM GivenSeatsAreKept == SharingSpec => []GivenSeatsStay
<1>1. SeatsAgree => GivenSeatsStay
  BY DEF SeatsAgree, LastWordHolds, GivenSeatsStay
<1> QED
  BY <1>1, SeatsInvariance, PTL
=============================================================================
