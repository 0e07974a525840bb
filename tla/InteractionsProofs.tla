------------------------- MODULE InteractionsProofs -------------------------
(***************************************************************************)
(* Theorems about Interactions, for any finite sets of users and request   *)
(* slots and any bounds on the calls.                                      *)
(***************************************************************************)
EXTENDS Interactions, FiniteSetTheorems, TLAPS

USE NoneAssumption, BoundsAssumption

\* A request that is under way has a caller.
CallersKnown == \A r \in Requests : pc[r] # "idle" => user[r] \in Users

\* A request that has inserted its row finds it.
UnlikeIsDead ==
    /\ \A r \in At("likeCheck") \cup At("likeAdd") : user[r] \in liked
    /\ At("unlike") = {}

IInv ==
    /\ TypeOK
    /\ CallersKnown
    /\ UnlikeIsDead

LEMMA InitInv == Init => IInv
  BY DEF Init, IInv, TypeOK, Steps, CallersKnown, UnlikeIsDead, At

LEMMA NextInv == IInv /\ [Next]_vars => IInv'
<1> SUFFICES ASSUME IInv, [Next]_vars PROVE IInv'
  OBVIOUS
<1> USE DEF IInv, TypeOK, Steps, CallersKnown, UnlikeIsDead, At, Begin, Finish,
            likeVars, bookmarkVars
<1>1. ASSUME NEW r \in Requests, NEW u \in Users, LikeInsert(r, u)
      PROVE  IInv'
  BY <1>1 DEF LikeInsert
<1>2. ASSUME NEW r \in Requests, NEW u \in Users, BookmarkInsert(r, u)
      PROVE  IInv'
  BY <1>2 DEF BookmarkInsert
<1>3. ASSUME NEW r \in Requests, NEW u \in Users, BookmarkDelete(r, u)
      PROVE  IInv'
  BY <1>3 DEF BookmarkDelete
<1>4. ASSUME NEW r \in Requests, LikeCheck(r)
      PROVE  IInv'
  BY <1>4 DEF LikeCheck
<1>5. ASSUME NEW r \in Requests, LikeAdd(r)
      PROVE  IInv'
  BY <1>5 DEF LikeAdd
<1>6. ASSUME NEW r \in Requests, BookmarkAdd(r)
      PROVE  IInv'
  BY <1>6 DEF BookmarkAdd
<1>7. ASSUME NEW r \in Requests, BookmarkSub(r)
      PROVE  IInv'
  BY <1>7 DEF BookmarkSub
<1>8. ASSUME NEW r \in Requests, Abandon(r)
      PROVE  IInv'
  BY <1>8 DEF Abandon
<1>9. CASE UNCHANGED vars
  BY <1>9 DEF vars
<1> HIDE DEF IInv, TypeOK, Steps, CallersKnown, UnlikeIsDead, At, Begin, Finish,
             likeVars, bookmarkVars
<1> QED
  BY <1>1, <1>2, <1>3, <1>4, <1>5, <1>6, <1>7, <1>8, <1>9 DEF Next

LEMMA Invariance == Spec => []IInv
  BY InitInv, NextInv, PTL DEF Spec

\* Every variable keeps its type.
THEOREM TypeCorrect == Spec => []TypeOK
<1>1. IInv => TypeOK
  BY DEF IInv
<1> QED
  BY <1>1, Invariance, PTL

\* Why a second call does not take the like back: the row is inserted before
\* it is looked for and nobody deletes one, so the branch of ToggleLike with
\* the DELETE is never reached, whatever the interleaving.
THEOREM UnlikeIsUnreachable == Spec => []UnlikeIsDead
<1>1. IInv => UnlikeIsDead
  BY DEF IInv
<1> QED
  BY <1>1, Invariance, PTL

-----------------------------------------------------------------------------
\* Sets of requests and of users are finite, and change by one.
LEMMA FiniteSubset ==
    ASSUME NEW S, S \subseteq Requests \/ S \subseteq Users
    PROVE  IsFiniteSet(S) /\ Cardinality(S) \in Nat
  BY RequestsAssumption, FS_Subset, FS_CardinalityType

LEMMA OneMore ==
    ASSUME NEW S, NEW T, NEW x, S \subseteq Requests \/ S \subseteq Users,
           x \notin S, T = S \cup {x}
    PROVE  Cardinality(T) = Cardinality(S) + 1
  BY FiniteSubset, FS_AddElement

LEMMA OneLess ==
    ASSUME NEW S, NEW T, NEW x \in S, S \subseteq Requests \/ S \subseteq Users,
           T = S \ {x}
    PROVE  Cardinality(T) = Cardinality(S) - 1
  BY FiniteSubset, FS_RemoveElement

\* Requests that still have to count their like.
Liking == At("likeCheck") \cup At("likeAdd")
LikesLost == lost["likeCheck"] + lost["likeAdd"]

LEMMA LikeStep == IInv /\ LikeCountCoversLikers /\ [Next]_vars => LikeCountCoversLikers'
<1> SUFFICES ASSUME IInv, LikeCountCoversLikers, [Next]_vars
             PROVE  LikeCountCoversLikers'
  OBVIOUS
<1>1. /\ liked \subseteq Users /\ liked' \subseteq Users
      /\ Liking \subseteq Requests /\ Liking' \subseteq Requests
  BY NextInv DEF IInv, TypeOK, Liking, At
<1>2. /\ like_count \in Nat /\ LikesLost \in Nat
      /\ like_count' \in Nat /\ LikesLost' \in Nat
  BY NextInv DEF IInv, TypeOK, LikesLost, Steps
<1>3. /\ Cardinality(liked) \in Nat /\ Cardinality(liked') \in Nat
      /\ Cardinality(Liking) \in Nat /\ Cardinality(Liking') \in Nat
  BY <1>1, FiniteSubset
<1>4. Cardinality(liked) <= like_count + Cardinality(Liking) + LikesLost
  BY <1>2, <1>3 DEF IInv, TypeOK, Steps, LikeCountCoversLikers, LikesLost, Liking
<1>5. ASSUME Cardinality(liked') <= like_count' + Cardinality(Liking') + LikesLost'
      PROVE  LikeCountCoversLikers'
  <2>1. lost' \in [Steps -> Nat]
    BY NextInv DEF IInv, TypeOK
  <2> QED
    BY <1>2, <1>3, <1>5, <2>1 DEF Steps, LikeCountCoversLikers, LikesLost, Liking
<1> DEFINE Quiet == /\ liked' = liked /\ Liking' = Liking
                    /\ like_count' = like_count /\ LikesLost' = LikesLost
<1>6. ASSUME Quiet PROVE LikeCountCoversLikers'
  BY <1>4, <1>5, <1>6
<1> USE DEF IInv, TypeOK, Steps, At, Begin, Finish, likeVars, bookmarkVars
<1>7. ASSUME NEW r \in Requests, NEW u \in Users, LikeInsert(r, u)
      PROVE  LikeCountCoversLikers'
  <2>1. /\ Liking' = Liking \cup {r} /\ r \notin Liking
        /\ like_count' = like_count /\ LikesLost' = LikesLost
        /\ liked' = liked \cup {u}
    BY <1>7 DEF LikeInsert, Liking, LikesLost
  <2> HIDE DEF IInv, TypeOK, Steps, At, Begin, Finish, likeVars, bookmarkVars
  <2>2. Cardinality(Liking') = Cardinality(Liking) + 1
    BY <1>1, <2>1, OneMore
  <2>3. \/ Cardinality(liked') = Cardinality(liked)
        \/ Cardinality(liked') = Cardinality(liked) + 1
    <3>1. CASE u \in liked
      <4>1. liked' = liked
        BY <2>1, <3>1
      <4> QED
        BY <4>1
    <3>2. CASE u \notin liked
      BY <1>1, <2>1, <3>2, OneMore
    <3> QED
      BY <3>1, <3>2
  <2> QED
    BY <1>2, <1>3, <1>4, <1>5, <2>1, <2>2, <2>3
<1>8. ASSUME NEW r \in Requests, LikeAdd(r)
      PROVE  LikeCountCoversLikers'
  <2>1. /\ Liking' = Liking \ {r} /\ r \in Liking
        /\ like_count' = like_count + 1 /\ LikesLost' = LikesLost
        /\ liked' = liked
    BY <1>8 DEF LikeAdd, Liking, LikesLost
  <2> HIDE DEF IInv, TypeOK, Steps, At, Begin, Finish, likeVars, bookmarkVars
  <2>2. Cardinality(Liking') = Cardinality(Liking) - 1
    BY <1>1, <2>1, OneLess
  <2> QED
    BY <1>2, <1>3, <1>4, <1>5, <2>1, <2>2
<1>9. ASSUME NEW r \in Requests, Abandon(r)
      PROVE  LikeCountCoversLikers'
  <2>1. CASE r \in Liking
    <3>1. /\ Liking' = Liking \ {r}
          /\ like_count' = like_count /\ liked' = liked
      BY <1>9, <2>1 DEF Abandon, Liking
    <3>2. LikesLost' = LikesLost + 1
      BY <1>9, <2>1 DEF Abandon, Liking, LikesLost
    <3> HIDE DEF IInv, TypeOK, Steps, At, Begin, Finish, likeVars, bookmarkVars
    <3>3. Cardinality(Liking') = Cardinality(Liking) - 1
      BY <1>1, <2>1, <3>1, OneLess
    <3> QED
      BY <1>2, <1>3, <1>4, <1>5, <2>1, <3>1, <3>2, <3>3
  <2>2. CASE r \notin Liking
    BY <1>6, <1>9, <2>2 DEF Abandon, Liking, LikesLost
  <2> QED
    BY <2>1, <2>2
<1>10. ASSUME NEW r \in Requests, NEW u \in Users,
              BookmarkInsert(r, u) \/ BookmarkDelete(r, u)
       PROVE  Quiet
  BY <1>10 DEF BookmarkInsert, BookmarkDelete, Liking, LikesLost
<1>11. ASSUME NEW r \in Requests, LikeCheck(r)
       PROVE  Quiet
  BY <1>11 DEF LikeCheck, UnlikeIsDead, Liking, LikesLost
<1>12. ASSUME NEW r \in Requests, BookmarkAdd(r) \/ BookmarkSub(r)
       PROVE  Quiet
  BY <1>12 DEF BookmarkAdd, BookmarkSub, Liking, LikesLost
<1>13. ASSUME UNCHANGED vars PROVE Quiet
  BY <1>13 DEF vars, Liking, LikesLost
<1> HIDE DEF IInv, TypeOK, Steps, At, Begin, Finish, likeVars, bookmarkVars, Quiet
<1> QED
  BY <1>6, <1>7, <1>8, <1>9, <1>10, <1>11, <1>12, <1>13 DEF Next

\* Everybody who likes the memory has been counted, is about to be, or belongs
\* to a lost update.
THEOREM LikersAreCounted == Spec => []LikeCountCoversLikers
<1>1. Init => LikeCountCoversLikers
  <2> SUFFICES ASSUME Init PROVE LikeCountCoversLikers
    OBVIOUS
  <2>1. /\ liked = {} /\ like_count = 0 /\ At("likeCheck") \cup At("likeAdd") = {}
        /\ lost["likeCheck"] = 0 /\ lost["likeAdd"] = 0
    BY DEF Init, At, Steps
  <2>2. /\ Cardinality(liked) = 0
        /\ Cardinality(At("likeCheck") \cup At("likeAdd")) = 0
    BY <2>1, FS_EmptySet, Zenon
  <2> QED
    BY <2>1, <2>2 DEF LikeCountCoversLikers
<1> QED
  BY <1>1, LikeStep, Invariance, PTL DEF Spec

-----------------------------------------------------------------------------
\* Requests about a bookmark.
Marking == At("bookmarkAdd") \cup At("bookmarkSub")

\* Careful users have one request about their bookmark at a time, and while it
\* still has to count, the row says what it did.
OneMarkEach ==
    /\ \A q, r \in Marking : user[q] = user[r] => q = r
    /\ \A r \in At("bookmarkAdd") : user[r] \in bookmarked
    /\ \A r \in At("bookmarkSub") : user[r] \notin bookmarked

LEMMA OneMarkStep ==
    ASSUME Careful, IInv, OneMarkEach, [Next]_vars
    PROVE  OneMarkEach'
<1> USE DEF IInv, TypeOK, Steps, CallersKnown, At, Begin, Finish, likeVars,
            bookmarkVars, OneMarkEach, Marking, MayMark
<1>1. ASSUME NEW r \in Requests, NEW u \in Users, LikeInsert(r, u)
      PROVE  OneMarkEach'
  BY <1>1 DEF LikeInsert
<1>2. ASSUME NEW r \in Requests, NEW u \in Users, BookmarkInsert(r, u)
      PROVE  OneMarkEach'
  BY <1>2 DEF BookmarkInsert
<1>3. ASSUME NEW r \in Requests, NEW u \in Users, BookmarkDelete(r, u)
      PROVE  OneMarkEach'
  BY <1>3 DEF BookmarkDelete
<1>4. ASSUME NEW r \in Requests, LikeCheck(r) \/ LikeAdd(r)
      PROVE  OneMarkEach'
  BY <1>4 DEF LikeCheck, LikeAdd
<1>5. ASSUME NEW r \in Requests, BookmarkAdd(r) \/ BookmarkSub(r)
      PROVE  OneMarkEach'
  BY <1>5 DEF BookmarkAdd, BookmarkSub
<1>6. ASSUME NEW r \in Requests, Abandon(r)
      PROVE  OneMarkEach'
  BY <1>6 DEF Abandon
<1>7. CASE UNCHANGED vars
  BY <1>7 DEF vars
<1> HIDE DEF IInv, TypeOK, Steps, CallersKnown, At, Begin, Finish, likeVars,
             bookmarkVars, OneMarkEach, Marking, MayMark
<1> QED
  BY <1>1, <1>2, <1>3, <1>4, <1>5, <1>6, <1>7 DEF Next

\* Hence there are at least as many bookmarks as increments to come.
LEMMA AddsHaveRows ==
    ASSUME IInv, OneMarkEach
    PROVE  Cardinality(At("bookmarkAdd")) <= Cardinality(bookmarked)
<1> DEFINE A == At("bookmarkAdd")
           f == [r \in A |-> user[r]]
<1>1. IsFiniteSet(bookmarked)
  BY FiniteSubset DEF IInv, TypeOK
<1>2. f \in [A -> bookmarked] /\ \A q, r \in A : f[q] = f[r] => q = r
  BY DEF OneMarkEach, Marking
<1>3. f \in Injection(A, bookmarked)
  BY <1>2 DEF Injection, IsInjective
<1> HIDE DEF f
<1>4. Cardinality(A) <= Cardinality(bookmarked)
  BY <1>1, <1>3, FS_Injection
<1> QED
  BY <1>4
Adds == Cardinality(At("bookmarkAdd"))
Subs == Cardinality(At("bookmarkSub"))
Rows == Cardinality(bookmarked)

LEMMA DriftNumbers ==
    ASSUME IInv
    PROVE  /\ Adds \in Nat /\ Subs \in Nat /\ Rows \in Nat
           /\ bookmark_count \in Nat
           /\ lost["bookmarkAdd"] \in Nat /\ lost["bookmarkSub"] \in Nat
           /\ At("bookmarkAdd") \subseteq Requests
           /\ At("bookmarkSub") \subseteq Requests
           /\ bookmarked \subseteq Users
<1>1. /\ At("bookmarkAdd") \subseteq Requests /\ At("bookmarkSub") \subseteq Requests
      /\ bookmarked \subseteq Users
  BY DEF IInv, TypeOK, At
<1>2. Adds \in Nat /\ Subs \in Nat /\ Rows \in Nat
  BY <1>1, FiniteSubset DEF Adds, Subs, Rows
<1> QED
  BY <1>1, <1>2 DEF IInv, TypeOK, Steps

LEMMA DriftStep ==
    ASSUME Careful, IInv, OneMarkEach, BookmarkDriftIsLoss, [Next]_vars
    PROVE  BookmarkDriftIsLoss'
<1>1. BookmarkDrift = bookmark_count + Adds - Rows - Subs
  BY DEF BookmarkDrift, Adds, Rows, Subs
<1>2. BookmarkDrift' = bookmark_count' + Adds' - Rows' - Subs'
  BY DEF BookmarkDrift, Adds, Rows, Subs
<1>3. /\ Adds' \in Nat /\ Subs' \in Nat /\ Rows' \in Nat
      /\ bookmark_count' \in Nat
      /\ lost'["bookmarkAdd"] \in Nat /\ lost'["bookmarkSub"] \in Nat
  <2>1. IInv'
    BY NextInv
  <2>2. /\ At("bookmarkAdd")' \subseteq Requests
        /\ At("bookmarkSub")' \subseteq Requests
        /\ bookmarked' \subseteq Users
    BY <2>1 DEF IInv, TypeOK, At
  <2>3. Adds' \in Nat /\ Subs' \in Nat /\ Rows' \in Nat
    BY <2>2, FiniteSubset DEF Adds, Subs, Rows
  <2> QED
    BY <2>1, <2>3 DEF IInv, TypeOK, Steps
<1>4. /\ BookmarkDrift >= -lost["bookmarkAdd"]
      /\ BookmarkDrift <= lost["bookmarkSub"]
  BY DEF BookmarkDriftIsLoss
<1> DEFINE Quiet == /\ bookmarked' = bookmarked
                    /\ bookmark_count' = bookmark_count
                    /\ At("bookmarkAdd")' = At("bookmarkAdd")
                    /\ At("bookmarkSub")' = At("bookmarkSub")
                    /\ lost'["bookmarkAdd"] = lost["bookmarkAdd"]
                    /\ lost'["bookmarkSub"] = lost["bookmarkSub"]
           Same == /\ BookmarkDrift' = BookmarkDrift
                   /\ lost'["bookmarkAdd"] = lost["bookmarkAdd"]
                   /\ lost'["bookmarkSub"] = lost["bookmarkSub"]
<1>5. ASSUME Same PROVE BookmarkDriftIsLoss'
  BY <1>4, <1>5 DEF BookmarkDriftIsLoss
<1>6. ASSUME Quiet PROVE BookmarkDriftIsLoss'
  <2>1. Adds' = Adds /\ Subs' = Subs /\ Rows' = Rows
    BY <1>6 DEF Adds, Subs, Rows
  <2> QED
    BY <1>1, <1>2, <1>5, <1>6, <2>1
<1> USE DEF IInv, TypeOK, Steps, At, Begin, Finish, likeVars, bookmarkVars
<1>7. ASSUME NEW r \in Requests, NEW u \in Users, BookmarkInsert(r, u)
      PROVE  BookmarkDriftIsLoss'
  <2>1. /\ bookmarked' = bookmarked \cup {u} /\ u \notin bookmarked
        /\ At("bookmarkAdd")' = At("bookmarkAdd") \cup {r}
        /\ r \notin At("bookmarkAdd")
        /\ At("bookmarkSub")' = At("bookmarkSub")
        /\ bookmark_count' = bookmark_count /\ lost' = lost
    BY <1>7 DEF BookmarkInsert
  <2> HIDE DEF IInv, TypeOK, Steps, At, Begin, Finish, likeVars, bookmarkVars
  <2>2. Rows' = Rows + 1
    BY <2>1, DriftNumbers, OneMore DEF Rows
  <2>3. Adds' = Adds + 1
    BY <2>1, DriftNumbers, OneMore DEF Adds
  <2>4. Subs' = Subs
    BY <2>1 DEF Subs
  <2> QED
    BY <1>1, <1>2, <1>3, <1>5, <2>1, <2>2, <2>3, <2>4, DriftNumbers
<1>8. ASSUME NEW r \in Requests, NEW u \in Users, BookmarkDelete(r, u)
      PROVE  BookmarkDriftIsLoss'
  <2>1. /\ bookmarked' = bookmarked \ {u} /\ u \in bookmarked
        /\ At("bookmarkSub")' = At("bookmarkSub") \cup {r}
        /\ r \notin At("bookmarkSub")
        /\ At("bookmarkAdd")' = At("bookmarkAdd")
        /\ bookmark_count' = bookmark_count /\ lost' = lost
    BY <1>8 DEF BookmarkDelete
  <2> HIDE DEF IInv, TypeOK, Steps, At, Begin, Finish, likeVars, bookmarkVars
  <2>2. Rows' = Rows - 1
    BY <2>1, DriftNumbers, OneLess DEF Rows
  <2>3. Subs' = Subs + 1
    BY <2>1, DriftNumbers, OneMore DEF Subs
  <2>4. Adds' = Adds
    BY <2>1 DEF Adds
  <2> QED
    BY <1>1, <1>2, <1>3, <1>5, <2>1, <2>2, <2>3, <2>4, DriftNumbers
<1>9. ASSUME NEW r \in Requests, BookmarkAdd(r)
      PROVE  BookmarkDriftIsLoss'
  <2>1. /\ bookmarked' = bookmarked
        /\ At("bookmarkAdd")' = At("bookmarkAdd") \ {r} /\ r \in At("bookmarkAdd")
        /\ At("bookmarkSub")' = At("bookmarkSub")
        /\ bookmark_count' = bookmark_count + 1 /\ lost' = lost
    BY <1>9 DEF BookmarkAdd
  <2> HIDE DEF IInv, TypeOK, Steps, At, Begin, Finish, likeVars, bookmarkVars
  <2>2. Adds' = Adds - 1
    BY <2>1, DriftNumbers, OneLess DEF Adds
  <2>3. Rows' = Rows /\ Subs' = Subs
    BY <2>1 DEF Rows, Subs
  <2> QED
    BY <1>1, <1>2, <1>3, <1>5, <2>1, <2>2, <2>3, DriftNumbers
<1>10. ASSUME NEW r \in Requests, BookmarkSub(r)
       PROVE  BookmarkDriftIsLoss'
  <2>1. /\ bookmarked' = bookmarked
        /\ At("bookmarkSub")' = At("bookmarkSub") \ {r} /\ r \in At("bookmarkSub")
        /\ At("bookmarkAdd")' = At("bookmarkAdd") /\ lost' = lost
        /\ bookmark_count' = IF bookmark_count > 0 THEN bookmark_count - 1 ELSE 0
    BY <1>10 DEF BookmarkSub
  <2> HIDE DEF IInv, TypeOK, Steps, At, Begin, Finish, likeVars, bookmarkVars
  <2>2. Subs' = Subs - 1
    BY <2>1, DriftNumbers, OneLess DEF Subs
  <2>3. Rows' = Rows /\ Adds' = Adds
    BY <2>1 DEF Rows, Adds
  <2>4. CASE bookmark_count > 0
    BY <1>1, <1>2, <1>3, <1>5, <2>1, <2>2, <2>3, <2>4, DriftNumbers
  <2>5. CASE bookmark_count = 0
    <3>1. Adds <= Rows
      BY AddsHaveRows DEF Adds, Rows
    <3>2. /\ BookmarkDrift' = BookmarkDrift + 1
          /\ BookmarkDrift' <= 0
      BY <1>1, <1>2, <1>3, <2>1, <2>2, <2>3, <2>5, <3>1, DriftNumbers
    <3>3. BookmarkDrift \in Int
      BY <1>1, DriftNumbers
    <3> QED
      BY <1>3, <1>4, <2>1, <3>2, <3>3 DEF BookmarkDriftIsLoss
  <2> QED
    BY <2>4, <2>5, DriftNumbers
<1>11. ASSUME NEW r \in Requests, Abandon(r)
       PROVE  BookmarkDriftIsLoss'
  <2>1. CASE pc[r] = "bookmarkAdd"
    <3>1. /\ bookmarked' = bookmarked /\ bookmark_count' = bookmark_count
          /\ At("bookmarkAdd")' = At("bookmarkAdd") \ {r} /\ r \in At("bookmarkAdd")
          /\ At("bookmarkSub")' = At("bookmarkSub")
          /\ lost'["bookmarkAdd"] = lost["bookmarkAdd"] + 1
          /\ lost'["bookmarkSub"] = lost["bookmarkSub"]
      BY <1>11, <2>1 DEF Abandon
    <3> HIDE DEF IInv, TypeOK, Steps, At, Begin, Finish, likeVars, bookmarkVars
    <3>2. Adds' = Adds - 1
      BY <3>1, DriftNumbers, OneLess DEF Adds
    <3>3. Rows' = Rows /\ Subs' = Subs
      BY <3>1 DEF Rows, Subs
    <3>4. BookmarkDrift' = BookmarkDrift - 1 /\ BookmarkDrift \in Int
      BY <1>1, <1>2, <1>3, <3>1, <3>2, <3>3, DriftNumbers
    <3> QED
      BY <1>4, <3>1, <3>4, DriftNumbers DEF BookmarkDriftIsLoss
  <2>2. CASE pc[r] = "bookmarkSub"
    <3>1. /\ bookmarked' = bookmarked /\ bookmark_count' = bookmark_count
          /\ At("bookmarkSub")' = At("bookmarkSub") \ {r} /\ r \in At("bookmarkSub")
          /\ At("bookmarkAdd")' = At("bookmarkAdd")
          /\ lost'["bookmarkSub"] = lost["bookmarkSub"] + 1
          /\ lost'["bookmarkAdd"] = lost["bookmarkAdd"]
      BY <1>11, <2>2 DEF Abandon
    <3> HIDE DEF IInv, TypeOK, Steps, At, Begin, Finish, likeVars, bookmarkVars
    <3>2. Subs' = Subs - 1
      BY <3>1, DriftNumbers, OneLess DEF Subs
    <3>3. Rows' = Rows /\ Adds' = Adds
      BY <3>1 DEF Rows, Adds
    <3>4. BookmarkDrift' = BookmarkDrift + 1 /\ BookmarkDrift \in Int
      BY <1>1, <1>2, <1>3, <3>1, <3>2, <3>3, DriftNumbers
    <3> QED
      BY <1>4, <3>1, <3>4, DriftNumbers DEF BookmarkDriftIsLoss
  <2>3. CASE pc[r] \notin {"bookmarkAdd", "bookmarkSub"}
    <3>1. Quiet
      BY <1>11, <2>3 DEF Abandon
    <3> QED
      BY <1>6, <3>1
  <2> QED
    BY <2>1, <2>2, <2>3
<1>12. ASSUME NEW r \in Requests, NEW u \in Users, LikeInsert(r, u)
       PROVE  Quiet
  BY <1>12 DEF LikeInsert
<1>13. ASSUME NEW r \in Requests, LikeCheck(r) \/ LikeAdd(r)
       PROVE  Quiet
  BY <1>13 DEF LikeCheck, LikeAdd
<1>14. ASSUME UNCHANGED vars PROVE Quiet
  BY <1>14 DEF vars
<1> HIDE DEF IInv, TypeOK, Steps, At, Begin, Finish, likeVars, bookmarkVars,
             Quiet, Same
<1> QED
  BY <1>6, <1>7, <1>8, <1>9, <1>10, <1>11, <1>12, <1>13, <1>14 DEF Next

\* With careful users the counter of bookmarks is off by lost updates only.
THEOREM DriftIsLoss == ASSUME Careful PROVE Spec => []BookmarkDriftIsLoss
<1>1. Init => OneMarkEach /\ BookmarkDriftIsLoss
  <2> SUFFICES ASSUME Init PROVE OneMarkEach /\ BookmarkDriftIsLoss
    OBVIOUS
  <2>1. /\ At("bookmarkAdd") = {} /\ At("bookmarkSub") = {} /\ bookmarked = {}
        /\ bookmark_count = 0
        /\ lost["bookmarkAdd"] = 0 /\ lost["bookmarkSub"] = 0
    BY DEF Init, At, Steps
  <2>2. /\ Cardinality(At("bookmarkAdd")) = 0 /\ Cardinality(At("bookmarkSub")) = 0
        /\ Cardinality(bookmarked) = 0
    BY <2>1, FS_EmptySet, Zenon
  <2>3. BookmarkDriftIsLoss
    BY <2>1, <2>2 DEF BookmarkDriftIsLoss, BookmarkDrift
  <2> QED
    BY <2>1, <2>3 DEF OneMarkEach, Marking
<1>2. IInv /\ OneMarkEach /\ BookmarkDriftIsLoss /\ [Next]_vars
        => OneMarkEach' /\ BookmarkDriftIsLoss'
  BY OneMarkStep, DriftStep
<1> QED
  BY <1>1, <1>2, Invariance, PTL DEF Spec
=============================================================================
