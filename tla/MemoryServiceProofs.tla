------------------------ MODULE MemoryServiceProofs ------------------------
(***************************************************************************)
(* Theorems about MemoryService, for any memories, neighbourhoods and      *)
(* requests.                                                               *)
(***************************************************************************)
EXTENDS MemoryService, TLAPS

USE NoneAssumption, VisibilitiesAssumption

\* The memory a write request is about has a row, and so has every memory that
\* reached the GEO set, a request's list of members, or a history.
RowsExist ==
    /\ \A r \in Requests :
        /\ pc[r] \in {"cache", "write", "scan", "uncache"} =>
             subject[r] \in Memories /\ Exists(subject[r])
        /\ pc[r] \in {"fetch", "fill", "evict"} => \A m \in todo[r] : Exists(m)
    /\ \A m \in index \cup bornPublic \cup withdrawn \cup leaked : Exists(m)

\* ReviewBeforeExposure together with the request that is about to cache what
\* it created.
Unexposed ==
    \A m \in bornPublic \ reviewed :
        /\ status[m] # "active"
        /\ m \notin index \cup leaked
        /\ \A r \in Requests :
            /\ pc[r] \in {"fetch", "fill"} => m \notin todo[r]
            /\ pc[r] = "cache" => subject[r] # m

IInv ==
    /\ TypeOK
    /\ RowsExist
    /\ Unexposed
    /\ KeptUnlessOvertaken

LEMMA InitInv == Init => IInv
  BY DEF Init, IInv, TypeOK, Statuses, Steps, RowsExist, Unexposed, Exists, KeptUnlessOvertaken

LEMMA NextInv == IInv /\ [Next]_vars => IInv'
<1> SUFFICES ASSUME IInv, [Next]_vars PROVE IInv'
  OBVIOUS
<1> USE DEF IInv, TypeOK, Statuses, Steps, Continue, Finish, Exists, Miss,
            AddMemory, RemoveMembers, Return, rowVars, reqVars, history,
            indexVars
<1>1. ASSUME NEW r \in Requests, NEW m \in Memories, NEW v \in Visibilities,
             CreateInsert(r, m, v)
      PROVE  IInv'
  <2>1. TypeOK'
    BY <1>1 DEF CreateInsert
  <2>2. RowsExist'
    BY <1>1, <2>1 DEF CreateInsert, RowsExist
  <2>3. Unexposed'
    BY <1>1, <2>1 DEF CreateInsert, RowsExist, Unexposed
  <2>4. KeptUnlessOvertaken'
    BY <1>1, <2>1 DEF CreateInsert, RowsExist, KeptUnlessOvertaken
  <2> QED
    BY <2>1, <2>2, <2>3, <2>4
<1>2. ASSUME NEW r \in Requests, NEW m \in Memories,
             NEW v \in Visibilities \cup {None}, UpdateLoad(r, m, v)
      PROVE  IInv'
  <2>1. TypeOK'
    BY <1>2 DEF UpdateLoad
  <2>2. RowsExist'
    BY <1>2, <2>1 DEF UpdateLoad, RowsExist
  <2>3. Unexposed'
    BY <1>2, <2>1 DEF UpdateLoad, Unexposed
  <2>4. KeptUnlessOvertaken'
    BY <1>2, <2>1 DEF UpdateLoad, KeptUnlessOvertaken
  <2> QED
    BY <2>1, <2>2, <2>3, <2>4
<1>3. ASSUME NEW r \in Requests, NEW m \in Memories, DeleteRow(r, m)
      PROVE  IInv'
  <2>1. TypeOK'
    BY <1>3 DEF DeleteRow
  <2>2. RowsExist'
    BY <1>3, <2>1 DEF DeleteRow, RowsExist
  <2>3. Unexposed'
    BY <1>3, <2>1 DEF DeleteRow, Unexposed
  <2>4. KeptUnlessOvertaken'
    BY <1>3, <2>1 DEF DeleteRow, KeptUnlessOvertaken
  <2> QED
    BY <2>1, <2>2, <2>3, <2>4
<1>4. ASSUME NEW r \in Requests, NEW m \in Memories, NearbyFetch(r, m)
      PROVE  IInv'
  <2>1. TypeOK'
    BY <1>4 DEF NearbyFetch
  <2>2. RowsExist'
    BY <1>4, <2>1 DEF NearbyFetch, RowsExist
  <2>3. Unexposed'
    BY <1>4, <2>1 DEF NearbyFetch, Unexposed
  <2>4. KeptUnlessOvertaken'
    BY <1>4, <2>1 DEF NearbyFetch, KeptUnlessOvertaken
  <2> QED
    BY <2>1, <2>2, <2>3, <2>4
<1>5. ASSUME NEW r \in Requests, NEW m \in Memories, NearbyFill(r, m)
      PROVE  IInv'
  <2>1. TypeOK'
    BY <1>5 DEF NearbyFill
  <2>2. RowsExist'
    BY <1>5, <2>1 DEF NearbyFill, RowsExist
  <2>3. Unexposed'
    BY <1>5, <2>1 DEF NearbyFill, Unexposed
  <2>4. KeptUnlessOvertaken'
    BY <1>5, <2>1 DEF NearbyFill, KeptUnlessOvertaken
  <2> QED
    BY <2>1, <2>2, <2>3, <2>4
<1>6. ASSUME NEW r \in Requests, NEW A \in Areas, NearbySearch(r, A)
      PROVE  IInv'
  <2>1. TypeOK'
    BY <1>6, AreasAssumption DEF NearbySearch
  <2>2. RowsExist'
    BY <1>6, <2>1 DEF NearbySearch, RowsExist
  <2>3. Unexposed'
    BY <1>6, <2>1 DEF NearbySearch, Unexposed
  <2>4. KeptUnlessOvertaken'
    BY <1>6, <2>1 DEF NearbySearch, KeptUnlessOvertaken
  <2> QED
    BY <2>1, <2>2, <2>3, <2>4
<1>7. ASSUME NEW r \in Requests, CreateCache(r)
      PROVE  IInv'
  <2>1. TypeOK'
    BY <1>7 DEF CreateCache, RowsExist
  <2>2. RowsExist'
    BY <1>7, <2>1 DEF CreateCache, RowsExist
  <2>3. Unexposed'
    BY <1>7, <2>1 DEF CreateCache, Unexposed
  <2>4. KeptUnlessOvertaken'
    BY <1>7, <2>1 DEF CreateCache, KeptUnlessOvertaken
  <2> QED
    BY <2>1, <2>2, <2>3, <2>4
<1>8. ASSUME NEW r \in Requests, UpdateWrite(r)
      PROVE  IInv'
  <2>1. TypeOK'
    BY <1>8 DEF UpdateWrite, RowsExist, Overtake
  <2>2. RowsExist'
    BY <1>8, <2>1 DEF UpdateWrite, RowsExist
  <2>3. Unexposed'
    BY <1>8, <2>1 DEF UpdateWrite, Unexposed
  <2>4. KeptUnlessOvertaken'
    BY <1>8, <2>1 DEF UpdateWrite, RowsExist, Overtake, KeptUnlessOvertaken
  <2> QED
    BY <2>1, <2>2, <2>3, <2>4
<1>9. ASSUME NEW r \in Requests, InvalidateScan(r)
      PROVE  IInv'
  <2>1. TypeOK'
    BY <1>9 DEF InvalidateScan, RowsExist
  <2>2. RowsExist'
    BY <1>9, <2>1 DEF InvalidateScan, RowsExist
  <2>3. Unexposed'
    BY <1>9, <2>1 DEF InvalidateScan, Unexposed
  <2>4. KeptUnlessOvertaken'
    BY <1>9, <2>1 DEF InvalidateScan, KeptUnlessOvertaken
  <2> QED
    BY <2>1, <2>2, <2>3, <2>4
<1>10. ASSUME NEW r \in Requests, InvalidateEvict(r) \/ DeleteUncache(r)
       PROVE  IInv'
  <2>1. TypeOK'
    BY <1>10 DEF InvalidateEvict, DeleteUncache, RowsExist
  <2>2. RowsExist'
    BY <1>10, <2>1 DEF InvalidateEvict, DeleteUncache, RowsExist
  <2>3. Unexposed'
    BY <1>10, <2>1 DEF InvalidateEvict, DeleteUncache, Unexposed
  <2>4. KeptUnlessOvertaken'
    BY <1>10, <2>1 DEF InvalidateEvict, DeleteUncache, KeptUnlessOvertaken
  <2> QED
    BY <2>1, <2>2, <2>3, <2>4
<1>11. ASSUME NEW r \in Requests, NearbyQuery(r)
       PROVE  IInv'
  <2>1. PICK page \in SUBSET (todo[r] \cap Listed) :
          /\ Return(page)
          /\ IF page = {} THEN Finish(r) ELSE Continue(r, "fill", page)
    BY <1>11 DEF NearbyQuery
  <2>2. \A m \in page : status[m] = "active" /\ m \in Memories
    BY <2>1 DEF Listed
  <2>3. leaked' = leaked
    BY <2>1
  <2>4. TypeOK'
    BY <2>1, <2>2, <2>3
  <2>5. RowsExist'
    BY <2>1, <2>2, <2>3, <2>4 DEF RowsExist
  <2>6. Unexposed'
    BY <2>1, <2>2, <2>3, <2>4 DEF Unexposed
  <2>7. KeptUnlessOvertaken'
    <3>1. pc[r] = "query"
      BY <1>11 DEF NearbyQuery
    <3> QED
      BY <2>1, <2>2, <2>3, <2>4, <3>1 DEF KeptUnlessOvertaken
  <2> QED
    BY <2>4, <2>5, <2>6, <2>7
<1>12. ASSUME NEW r \in Requests, Abandon(r)
       PROVE  IInv'
  <2>1. TypeOK'
    BY <1>12 DEF Abandon
  <2>2. RowsExist'
    BY <1>12, <2>1 DEF Abandon, RowsExist
  <2>3. Unexposed'
    BY <1>12, <2>1 DEF Abandon, Unexposed
  <2>4. KeptUnlessOvertaken'
    BY <1>12, <2>1 DEF Abandon, KeptUnlessOvertaken
  <2> QED
    BY <2>1, <2>2, <2>3, <2>4
<1>13. ASSUME NEW m \in Memories, NEW s \in Verdicts, ModerationVerdict(m, s)
       PROVE  IInv'
  <2>1. TypeOK'
    BY <1>13 DEF ModerationVerdict, Verdicts
  <2>2. RowsExist'
    BY <1>13, <2>1 DEF ModerationVerdict, RowsExist, Verdicts
  <2>3. Unexposed'
    BY <1>13, <2>1 DEF ModerationVerdict, Unexposed
  <2>4. KeptUnlessOvertaken'
    BY <1>13, <2>1 DEF ModerationVerdict, KeptUnlessOvertaken
  <2> QED
    BY <2>1, <2>2, <2>3, <2>4
<1>14. CASE ExpireIndex
  BY <1>14 DEF ExpireIndex, RowsExist, Unexposed, KeptUnlessOvertaken
<1>15. CASE UNCHANGED vars
  BY <1>15 DEF vars, RowsExist, Unexposed, KeptUnlessOvertaken
<1> HIDE DEF IInv, TypeOK, Statuses, Steps, Continue, Finish, Exists, Miss,
             AddMemory, RemoveMembers, Return, rowVars, reqVars, history,
             indexVars
<1> QED
  BY <1>1, <1>2, <1>3, <1>4, <1>5, <1>6, <1>7, <1>8, <1>9, <1>10, <1>11, <1>12,
     <1>13, <1>14, <1>15
  DEF Next

LEMMA Invariance == Spec => []IInv
  BY InitInv, NextInv, PTL DEF Spec

\* Every variable keeps its type.
THEOREM TypeCorrect == Spec => []TypeOK
<1>1. IInv => TypeOK
  BY DEF IInv
<1> QED
  BY <1>1, Invariance, PTL

\* What was created public is shown to nobody before a verdict was given.
THEOREM ReviewedFirst == Spec => []ReviewBeforeExposure
<1>1. IInv => ReviewBeforeExposure
  BY DEF IInv, Unexposed, ReviewBeforeExposure, canAccess
<1> QED
  BY <1>1, Invariance, PTL

\* An edit that leaves the visibility out changes it only when overtaken.
THEOREM VisibilityKept == Spec => []KeptUnlessOvertaken
<1>1. IInv => KeptUnlessOvertaken
  BY DEF IInv
<1> QED
  BY <1>1, Invariance, PTL

-----------------------------------------------------------------------------
\* The status of a deleted memory is written by verdicts alone.
THEOREM VerdictsRevive == Spec => OnlyVerdictsRevive
<1> DEFINE Revived(m) == status[m] = "deleted" /\ status'[m] # "deleted"
           Justified == \A m \in Memories :
                            Revived(m) => \E s \in Verdicts : ModerationVerdict(m, s)
<1>1. IInv /\ [Next]_vars => [Justified]_vars
  <2> SUFFICES ASSUME IInv, Next, NEW m \in Memories, Revived(m)
               PROVE  \E s \in Verdicts : ModerationVerdict(m, s)
    OBVIOUS
  <2> USE DEF IInv, TypeOK, rowVars
  <2>1. ASSUME NEW r \in Requests, NEW d \in Memories, NEW v \in Visibilities,
               CreateInsert(r, d, v)
        PROVE  FALSE
    BY <2>1 DEF CreateInsert
  <2>2. ASSUME NEW r \in Requests, NEW d \in Memories,
               NEW v \in Visibilities \cup {None}, UpdateLoad(r, d, v)
        PROVE  FALSE
    BY <2>2 DEF UpdateLoad
  <2>3. ASSUME NEW r \in Requests, NEW d \in Memories,
               DeleteRow(r, d) \/ NearbyFetch(r, d) \/ NearbyFill(r, d)
        PROVE  FALSE
    BY <2>3 DEF DeleteRow, NearbyFetch, NearbyFill, Return
  <2>4. ASSUME NEW r \in Requests, NEW A \in Areas, NearbySearch(r, A)
        PROVE  FALSE
    BY <2>4 DEF NearbySearch
  <2>5. ASSUME NEW r \in Requests,
               \/ CreateCache(r) \/ UpdateWrite(r) \/ InvalidateScan(r)
               \/ InvalidateEvict(r) \/ DeleteUncache(r) \/ NearbyQuery(r)
               \/ Abandon(r)
        PROVE  FALSE
    BY <2>5 DEF CreateCache, UpdateWrite, InvalidateScan, InvalidateEvict,
                DeleteUncache, NearbyQuery, Abandon, Return
  <2>6. ASSUME NEW d \in Memories, NEW s \in Verdicts, ModerationVerdict(d, s)
        PROVE  d = m
    BY <2>6 DEF ModerationVerdict
  <2>7. CASE ExpireIndex
    BY <2>7 DEF ExpireIndex
  <2> HIDE DEF IInv, TypeOK, rowVars
  <2> QED
    BY <2>1, <2>2, <2>3, <2>4, <2>5, <2>6, <2>7 DEF Next
<1> QED
  BY <1>1, Invariance, PTL DEF Spec, OnlyVerdictsRevive

-----------------------------------------------------------------------------
\* Members some request has still to remove.
Owed == UNION {Owes(r) : r \in Requests}

\* Both invariants of the GEO set at once: a member that should not be there is
\* a stray one or is about to be removed.
Accounted == \A m \in index \cap Unwanted : m \in stray \cup Owed

LEMMA AccountedStep == IInv /\ Accounted /\ [Next]_vars => Accounted'
<1> SUFFICES ASSUME IInv, Accounted, [Next]_vars PROVE Accounted'
  OBVIOUS
<1> USE DEF IInv, TypeOK, Statuses, Steps, Continue, Finish, Exists, Miss,
            Return, rowVars, reqVars, history, indexVars, Accounted, Owed,
            Owes, Unwanted
<1>1. ASSUME NEW r \in Requests, NEW m \in Memories, NEW v \in Visibilities,
             CreateInsert(r, m, v)
      PROVE  Accounted'
  BY <1>1 DEF CreateInsert
<1>2. ASSUME NEW r \in Requests, NEW m \in Memories,
             NEW v \in Visibilities \cup {None}, UpdateLoad(r, m, v)
      PROVE  Accounted'
  BY <1>2 DEF UpdateLoad
<1>3. ASSUME NEW r \in Requests, NEW m \in Memories, DeleteRow(r, m)
      PROVE  Accounted'
  BY <1>3 DEF DeleteRow
<1>4. ASSUME NEW r \in Requests, NEW m \in Memories, NearbyFetch(r, m)
      PROVE  Accounted'
  BY <1>4 DEF NearbyFetch
<1>5. ASSUME NEW r \in Requests, NEW m \in Memories, NearbyFill(r, m)
      PROVE  Accounted'
  BY <1>5 DEF NearbyFill, AddMemory
<1>6. ASSUME NEW r \in Requests, NEW A \in Areas, NearbySearch(r, A)
      PROVE  Accounted'
  BY <1>6 DEF NearbySearch
<1>7. ASSUME NEW r \in Requests, CreateCache(r)
      PROVE  Accounted'
  BY <1>7 DEF CreateCache, AddMemory
<1>8. ASSUME NEW r \in Requests, UpdateWrite(r)
      PROVE  Accounted'
  BY <1>8 DEF UpdateWrite
<1>9. ASSUME NEW r \in Requests, InvalidateScan(r)
      PROVE  Accounted'
  BY <1>9, AroundAssumption DEF InvalidateScan, RowsExist
<1>10. ASSUME NEW r \in Requests, InvalidateEvict(r) \/ DeleteUncache(r)
       PROVE  Accounted'
  BY <1>10 DEF InvalidateEvict, DeleteUncache, RemoveMembers
<1>11. ASSUME NEW r \in Requests, NearbyQuery(r)
       PROVE  Accounted'
  BY <1>11 DEF NearbyQuery
<1>12. ASSUME NEW r \in Requests, Abandon(r)
       PROVE  Accounted'
  BY <1>12 DEF Abandon
<1>13. ASSUME NEW m \in Memories, NEW s \in Verdicts, ModerationVerdict(m, s)
       PROVE  Accounted'
  BY <1>13 DEF ModerationVerdict, Verdicts
<1>14. CASE ExpireIndex
  BY <1>14 DEF ExpireIndex
<1>15. CASE UNCHANGED vars
  BY <1>15 DEF vars
<1> HIDE DEF IInv, TypeOK, Statuses, Steps, Continue, Finish, Exists, Miss,
             Return, rowVars, reqVars, history, indexVars, Accounted, Owed,
             Owes, Unwanted
<1> QED
  BY <1>1, <1>2, <1>3, <1>4, <1>5, <1>6, <1>7, <1>8, <1>9, <1>10, <1>11, <1>12,
     <1>13, <1>14, <1>15
  DEF Next

LEMMA AccountedAlways == Spec => []Accounted
<1>1. Init => Accounted
  BY DEF Init, Accounted
<1> QED
  BY <1>1, AccountedStep, Invariance, PTL DEF Spec

\* Memories that were deleted or taken back from the public leave the GEO set,
\* but for removals that failed and additions that came late.
THEOREM UnwantedLeave == Spec => []UnwantedLeaveIndex
<1>1. Accounted => UnwantedLeaveIndex
  BY DEF Accounted, Owed, UnwantedLeaveIndex
<1> QED
  BY <1>1, AccountedAlways, PTL
=============================================================================
