---------------------------- MODULE UploadsProofs ----------------------------
(***************************************************************************)
(* Theorems about Uploads, for any users, memories, keys and contents and  *)
(* any finite set of concurrent requests.                                  *)
(***************************************************************************)
EXTENDS Uploads, FiniteSetTheorems, TLAPS

USE NoneAssumption, CarefulAssumption

\* What the statements of a request know about their arguments.
RequestsKnow ==
    \A r \in Requests :
        /\ pc[r] # "idle" => who[r] \in Users /\ claim[r] \in Contents
        /\ pc[r] = "hash" => about[r] \in Memories /\ owner[about[r]] = who[r]
        /\ pc[r] \in {"find", "insert"} =>
             about[r] \in Keys /\ object[about[r]] # None
        /\ pc[r] = "insert" => keyUser[about[r]] = who[r]

\* A key exists before its object, the object before the first row, the row
\* before its hash, its author and its confirmation.
KeysGrow ==
    \A k \in Keys :
        /\ keyUser[k] # None =>
             keyMemory[k] \in Memories /\ owner[keyMemory[k]] = keyUser[k]
        /\ k \in open \/ object[k] # None => keyUser[k] # None
        /\ rows[k] > 0 => object[k] # None
        /\ hashes[k] # {} => rows[k] > 0
        /\ \A u \in adders[k] : u = keyUser[k]
        /\ k \in acked => rows[k] > 0
        /\ \A h \in Contents : <<h, k>> \in reused => h \in hashes[k]

\* The key of a careful user has one content all along.
CarefulKeys ==
    \A k \in Keys : keyUser[k] \in Careful =>
        /\ object[k] \in {None, asked[k]}
        /\ hashes[k] \subseteq {asked[k]}
        /\ \A r \in Requests :
             pc[r] \in {"find", "insert"} /\ about[r] = k /\ who[r] = keyUser[k]
                 => claim[r] = asked[k]

IInv ==
    /\ TypeOK
    /\ RequestsKnow
    /\ KeysGrow
    /\ CarefulKeys

LEMMA InitInv == Init => IInv
  BY DEF Init, IInv, TypeOK, Steps, RequestsKnow, KeysGrow, CarefulKeys

LEMMA NextInv == IInv /\ [Next]_vars => IInv'
<1> SUFFICES ASSUME IInv, [Next]_vars PROVE IInv'
  OBVIOUS
<1> USE DEF IInv, TypeOK, Steps, Begin, Goto, Finish, store, keys, reqVars,
            history, FindByHash, FindByStorageKey, GenerateStorageKey,
            GeneratePresignedUploadURL
<1>1. ASSUME NEW r \in Requests, NEW u \in Users, NEW m \in Memories,
             NEW h \in Contents, RequestLoad(r, u, m, h)
      PROVE  IInv'
  <2>1. TypeOK'
    BY <1>1 DEF RequestLoad, RequestsKnow
  <2>2. RequestsKnow'
    BY <1>1, <2>1 DEF RequestLoad, RequestsKnow
  <2>3. KeysGrow'
    BY <1>1, <2>1 DEF RequestLoad, RequestsKnow, KeysGrow
  <2>4. CarefulKeys'
    BY <1>1, <2>1 DEF RequestLoad, RequestsKnow, KeysGrow, CarefulKeys
  <2> QED
    BY <2>1, <2>2, <2>3, <2>4
<1>2. ASSUME NEW r \in Requests, NEW k \in Keys, OfferExisting(r, k)
      PROVE  IInv'
  <2>1. TypeOK'
    BY <1>2 DEF OfferExisting, RequestsKnow
  <2>2. RequestsKnow'
    BY <1>2, <2>1 DEF OfferExisting, RequestsKnow
  <2>3. KeysGrow'
    BY <1>2, <2>1 DEF OfferExisting, RequestsKnow, KeysGrow
  <2>4. CarefulKeys'
    BY <1>2, <2>1 DEF OfferExisting, RequestsKnow, KeysGrow, CarefulKeys
  <2> QED
    BY <2>1, <2>2, <2>3, <2>4
<1>3. ASSUME NEW r \in Requests, NEW k \in Keys, SignURL(r, k)
      PROVE  IInv'
  <2>1. TypeOK'
    BY <1>3 DEF SignURL, RequestsKnow
  <2>2. RequestsKnow'
    BY <1>3, <2>1 DEF SignURL, RequestsKnow
  <2>3. KeysGrow'
    BY <1>3, <2>1 DEF SignURL, RequestsKnow, KeysGrow
  <2>4. CarefulKeys'
    BY <1>3, <2>1 DEF SignURL, RequestsKnow, KeysGrow, CarefulKeys
  <2> QED
    BY <2>1, <2>2, <2>3, <2>4
<1>4. ASSUME NEW k \in Keys, NEW h \in Contents, PutObject(k, h)
      PROVE  IInv'
  <2>1. TypeOK'
    BY <1>4 DEF PutObject, RequestsKnow
  <2>2. RequestsKnow'
    BY <1>4, <2>1 DEF PutObject, RequestsKnow
  <2>3. KeysGrow'
    BY <1>4, <2>1 DEF PutObject, RequestsKnow, KeysGrow
  <2>4. CarefulKeys'
    BY <1>4, <2>1 DEF PutObject, RequestsKnow, KeysGrow, CarefulKeys
  <2> QED
    BY <2>1, <2>2, <2>3, <2>4
<1>5. ASSUME NEW k \in Keys, ExpireURL(k)
      PROVE  IInv'
  <2>1. TypeOK'
    BY <1>5 DEF ExpireURL, RequestsKnow
  <2>2. RequestsKnow'
    BY <1>5, <2>1 DEF ExpireURL, RequestsKnow
  <2>3. KeysGrow'
    BY <1>5, <2>1 DEF ExpireURL, RequestsKnow, KeysGrow
  <2>4. CarefulKeys'
    BY <1>5, <2>1 DEF ExpireURL, RequestsKnow, KeysGrow, CarefulKeys
  <2> QED
    BY <2>1, <2>2, <2>3, <2>4
<1>6. ASSUME NEW r \in Requests, NEW u \in Users, NEW k \in Keys,
             NEW h \in Contents, ConfirmHead(r, u, k, h)
      PROVE  IInv'
  <2>1. TypeOK'
    BY <1>6 DEF ConfirmHead, RequestsKnow
  <2>2. RequestsKnow'
    BY <1>6, <2>1 DEF ConfirmHead, RequestsKnow
  <2>3. KeysGrow'
    BY <1>6, <2>1 DEF ConfirmHead, RequestsKnow, KeysGrow
  <2>4. CarefulKeys'
    BY <1>6, <2>1 DEF ConfirmHead, RequestsKnow, KeysGrow, CarefulKeys
  <2> QED
    BY <2>1, <2>2, <2>3, <2>4
<1>7. ASSUME NEW r \in Requests, ConfirmFind(r)
      PROVE  IInv'
  <2>1. TypeOK'
    BY <1>7 DEF ConfirmFind, RequestsKnow
  <2>2. RequestsKnow'
    BY <1>7, <2>1 DEF ConfirmFind, RequestsKnow
  <2>3. KeysGrow'
    BY <1>7, <2>1 DEF ConfirmFind, RequestsKnow, KeysGrow
  <2>4. CarefulKeys'
    BY <1>7, <2>1 DEF ConfirmFind, RequestsKnow, KeysGrow, CarefulKeys
  <2> QED
    BY <2>1, <2>2, <2>3, <2>4
<1>8. ASSUME NEW r \in Requests, ConfirmInsert(r)
      PROVE  IInv'
  <2>1. TypeOK'
    BY <1>8 DEF ConfirmInsert, RequestsKnow
  <2>2. RequestsKnow'
    BY <1>8, <2>1 DEF ConfirmInsert, RequestsKnow
  <2>3. KeysGrow'
    BY <1>8, <2>1 DEF ConfirmInsert, RequestsKnow, KeysGrow
  <2>4. CarefulKeys'
    BY <1>8, <2>1 DEF ConfirmInsert, RequestsKnow, KeysGrow, CarefulKeys
  <2> QED
    BY <2>1, <2>2, <2>3, <2>4
<1>9. ASSUME NEW r \in Requests, Abandon(r)
      PROVE  IInv'
  <2>1. TypeOK'
    BY <1>9 DEF Abandon, RequestsKnow
  <2>2. RequestsKnow'
    BY <1>9, <2>1 DEF Abandon, RequestsKnow
  <2>3. KeysGrow'
    BY <1>9, <2>1 DEF Abandon, RequestsKnow, KeysGrow
  <2>4. CarefulKeys'
    BY <1>9, <2>1 DEF Abandon, RequestsKnow, KeysGrow, CarefulKeys
  <2> QED
    BY <2>1, <2>2, <2>3, <2>4
<1>10. CASE UNCHANGED vars
  BY <1>10 DEF vars, RequestsKnow, KeysGrow, CarefulKeys
<1> HIDE DEF IInv, TypeOK, Steps, Begin, Goto, Finish, store, keys, reqVars,
             history, FindByHash, FindByStorageKey, GenerateStorageKey,
             GeneratePresignedUploadURL
<1> QED
  BY <1>1, <1>2, <1>3, <1>4, <1>5, <1>6, <1>7, <1>8, <1>9, <1>10 DEF Next

LEMMA Invariance == Spec => []IInv
  BY InitInv, NextInv, PTL DEF Spec

\* Every variable keeps its type.
THEOREM TypeCorrect == Spec => []TypeOK
<1>1. IInv => TypeOK
  BY DEF IInv
<1> QED
  BY <1>1, Invariance, PTL

\* A confirmed upload has its row and its object.
THEOREM AcksAreRecorded == Spec => []AckedIsRecorded
<1>1. IInv => AckedIsRecorded
  BY DEF IInv, TypeOK, KeysGrow, AckedIsRecorded
<1> QED
  BY <1>1, Invariance, PTL

\* Only the owner of a memory attaches media to it.
THEOREM OwnersAttach == Spec => []OnlyOwnersAttach
<1>1. IInv => OnlyOwnersAttach
  BY DEF IInv, TypeOK, KeysGrow, OnlyOwnersAttach
<1> QED
  BY <1>1, Invariance, PTL

\* A reused key of a careful user holds the content it is offered for.
THEOREM ReuseServes == Spec => []ReuseServesContent
<1>1. IInv => ReuseServesContent
  BY DEF IInv, TypeOK, KeysGrow, CarefulKeys, ReuseServesContent
<1> QED
  BY <1>1, Invariance, PTL

-----------------------------------------------------------------------------
(***************************************************************************)
(* Counting: the rows of a key together with the requests that may still   *)
(* insert one.                                                             *)
(***************************************************************************)
Inserting(k) == {r \in Requests : pc[r] = "insert" /\ about[r] = k}

RowBudget ==
    \A k \in Keys : rows[k] + Cardinality(Inserting(k)) <= Cardinality(Requests)

LEMMA Counted ==
    ASSUME NEW S \in SUBSET Requests, NEW T \in SUBSET S
    PROVE  /\ Cardinality(T) \in Nat /\ Cardinality(S) \in Nat
           /\ Cardinality(Requests) \in Nat
           /\ Cardinality(T) <= Cardinality(S)
           /\ Cardinality(S) <= Cardinality(Requests)
           /\ \A r \in S : r \notin T => Cardinality(T) + 1 <= Cardinality(S)
<1>1. IsFiniteSet(S) /\ IsFiniteSet(T)
  BY RequestsAssumption, FS_Subset
<1>2. /\ Cardinality(T) \in Nat /\ Cardinality(S) \in Nat
      /\ Cardinality(Requests) \in Nat
  BY <1>1, RequestsAssumption, FS_CardinalityType
<1>3. Cardinality(T) <= Cardinality(S) /\ Cardinality(S) <= Cardinality(Requests)
  BY <1>1, RequestsAssumption, FS_Subset
<1>4. ASSUME NEW r \in S, r \notin T
      PROVE  Cardinality(T) + 1 <= Cardinality(S)
  <2>1. Cardinality(S \ {r}) = Cardinality(S) - 1
    BY <1>1, FS_RemoveElement
  <2>2. IsFiniteSet(S \ {r}) /\ T \subseteq S \ {r}
    BY <1>1, <1>4, FS_Subset
  <2>3. Cardinality(T) <= Cardinality(S \ {r})
    BY <2>2, FS_Subset
  <2> QED
    BY <1>2, <2>1, <2>3
<1> QED
  BY <1>2, <1>3, <1>4

LEMMA RowBudgetStep == IInv /\ RowBudget /\ [Next]_vars => RowBudget'
<1> SUFFICES ASSUME IInv, RowBudget, [Next]_vars, NEW k \in Keys
             PROVE  rows'[k] + Cardinality(Inserting(k)') <= Cardinality(Requests)
  BY DEF RowBudget
<1> DEFINE now == Inserting(k)
           next == Inserting(k)'
           Goal == rows'[k] + Cardinality(next) <= Cardinality(Requests)
<1>1. now \in SUBSET Requests /\ next \in SUBSET Requests
  BY DEF Inserting
<1>2. /\ Cardinality(now) \in Nat /\ Cardinality(next) \in Nat
      /\ Cardinality(Requests) \in Nat
      /\ Cardinality(next) <= Cardinality(Requests)
  BY <1>1, Counted
<1>3. rows \in [Keys -> Nat] /\ rows[k] \in Nat
  BY DEF IInv, TypeOK
<1>4. rows[k] + Cardinality(now) <= Cardinality(Requests)
  BY DEF RowBudget
\* A step that inserts no row and lets no request come near.
<1>5. ASSUME rows' = rows, next \subseteq now
      PROVE  Goal
  <2>1. Cardinality(next) <= Cardinality(now)
    BY <1>1, <1>5, Counted
  <2> HIDE DEF now, next
  <2> QED
    BY <1>2, <1>3, <1>4, <1>5, <2>1
<1>6. ASSUME NEW r \in Requests, Finish(r)
      PROVE  next \subseteq now
  BY <1>6 DEF Finish, Inserting, IInv, TypeOK
<1>7. ASSUME NEW r \in Requests, NEW step \in {"hash", "find"}, NEW u, NEW x, NEW h,
             Begin(r, step, u, x, h)
      PROVE  next \subseteq now
  BY <1>7 DEF Begin, Inserting, IInv, TypeOK
<1>8. ASSUME NEW r \in Requests, ConfirmFind(r)
      PROVE  Goal
  <2>1. rows' = rows
    BY <1>8 DEF ConfirmFind, store
  <2>2. CASE Finish(r)
    BY <1>5, <1>6, <2>1, <2>2
  <2>3. CASE rows[about[r]] = 0 /\ Goto(r, "insert")
    <3>1. CASE about[r] = k
      <4>1. rows'[k] = 0
        BY <2>1, <2>3, <3>1
      <4> HIDE DEF next
      <4> QED
        BY <1>2, <4>1
    <3>2. CASE about[r] # k
      <4>1. next \subseteq now
        BY <2>3, <3>2 DEF Goto, Inserting, IInv, TypeOK
      <4> QED
        BY <1>5, <2>1, <4>1
    <3> QED
      BY <3>1, <3>2
  <2>4. rows[about[r]] = 0 \/ Finish(r)
    BY <1>8 DEF ConfirmFind, FindByStorageKey, RequestsKnow, IInv, TypeOK
  <2> QED
    BY <1>8, <2>2, <2>3, <2>4 DEF ConfirmFind
<1>9. ASSUME NEW r \in Requests, ConfirmInsert(r)
      PROVE  Goal
  <2>1. about[r] \in Keys
    BY <1>9 DEF ConfirmInsert, IInv, RequestsKnow
  <2>2. next \subseteq now /\ r \notin next
    BY <1>6, <1>9 DEF ConfirmInsert, Finish, Inserting, IInv, TypeOK
  <2>3. CASE about[r] = k
    <3>1. r \in now
      BY <1>9, <2>3 DEF ConfirmInsert, Inserting
    <3>2. Cardinality(next) + 1 <= Cardinality(now)
      BY <1>1, <2>2, <3>1, Counted
    <3>3. rows'[k] = rows[k] + 1
      BY <1>3, <1>9, <2>3 DEF ConfirmInsert
    <3> HIDE DEF now, next
    <3> QED
      BY <1>2, <1>3, <1>4, <3>2, <3>3
  <2>4. CASE about[r] # k
    <3>1. Cardinality(next) <= Cardinality(now)
      BY <1>1, <2>2, Counted
    <3>2. rows'[k] = rows[k]
      BY <1>3, <1>9, <2>1, <2>4 DEF ConfirmInsert
    <3> HIDE DEF now, next
    <3> QED
      BY <1>2, <1>3, <1>4, <3>1, <3>2
  <2> QED
    BY <2>3, <2>4
<1>10. ASSUME NEW r \in Requests, NEW u \in Users, NEW m \in Memories,
              NEW h \in Contents, RequestLoad(r, u, m, h)
       PROVE  Goal
  BY <1>5, <1>7, <1>10 DEF RequestLoad, store
<1>11. ASSUME NEW r \in Requests, NEW j \in Keys,
              OfferExisting(r, j) \/ SignURL(r, j)
       PROVE  Goal
  <2>1. rows' = rows /\ Finish(r)
    BY <1>11 DEF OfferExisting, SignURL, store
  <2> QED
    BY <1>5, <1>6, <2>1
<1>12. ASSUME NEW j \in Keys, NEW h \in Contents, PutObject(j, h)
       PROVE  Goal
  <2>1. rows' = rows /\ next = now
    BY <1>12 DEF PutObject, store, reqVars, Inserting
  <2> QED
    BY <1>5, <2>1
<1>13. ASSUME NEW j \in Keys, ExpireURL(j)
       PROVE  Goal
  <2>1. rows' = rows /\ next = now
    BY <1>13 DEF ExpireURL, store, reqVars, Inserting
  <2> QED
    BY <1>5, <2>1
<1>14. ASSUME NEW r \in Requests, NEW u \in Users, NEW j \in Keys,
              NEW h \in Contents, ConfirmHead(r, u, j, h)
       PROVE  Goal
  BY <1>5, <1>7, <1>14 DEF ConfirmHead, store
<1>15. ASSUME NEW r \in Requests, Abandon(r)
       PROVE  Goal
  BY <1>5, <1>6, <1>15 DEF Abandon, store
<1>16. ASSUME UNCHANGED vars
       PROVE  Goal
  <2>1. rows' = rows /\ next = now
    BY <1>16 DEF vars, Inserting
  <2> QED
    BY <1>5, <2>1
<1>17. Goal
  <2> HIDE DEF Goal
  <2> QED
    BY <1>8, <1>9, <1>10, <1>11, <1>12, <1>13, <1>14, <1>15, <1>16 DEF Next
<1> QED
  BY <1>17

\* A file has at most one row for each request that can run at once.
THEOREM RowsAreBounded == Spec => []RowsPerKeyBounded
<1>1. Init => RowBudget
  <2> SUFFICES ASSUME Init, NEW k \in Keys
               PROVE  rows[k] + Cardinality(Inserting(k)) <= Cardinality(Requests)
    BY DEF RowBudget
  <2>1. rows[k] = 0 /\ Inserting(k) \in SUBSET Requests
    BY DEF Init, Inserting
  <2>2. /\ Cardinality(Inserting(k)) \in Nat
        /\ Cardinality(Inserting(k)) <= Cardinality(Requests)
        /\ Cardinality(Requests) \in Nat
    BY <2>1, Counted
  <2> QED
    BY <2>1, <2>2
<1>2. IInv /\ RowBudget => RowsPerKeyBounded
  <2> SUFFICES ASSUME IInv, RowBudget, NEW k \in Keys
               PROVE  rows[k] <= Cardinality(Requests)
    BY DEF RowsPerKeyBounded
  <2>1. rows[k] \in Nat /\ Inserting(k) \in SUBSET Requests
    BY DEF IInv, TypeOK, Inserting
  <2>2. Cardinality(Inserting(k)) \in Nat /\ Cardinality(Requests) \in Nat
    BY <2>1, Counted
  <2> QED
    BY <2>1, <2>2 DEF RowBudget
<1> QED
  BY <1>1, <1>2, RowBudgetStep, Invariance, PTL DEF Spec
=============================================================================
