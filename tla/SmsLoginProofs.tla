--------------------------- MODULE SmsLoginProofs ---------------------------
(***************************************************************************)
(* Theorems about SmsLogin, for any phones, open ids and limits and any    *)
(* finite set of concurrent requests.                                      *)
(***************************************************************************)
EXTENDS SmsLogin, FiniteSetTheorems, TLAPS

USE NoneAssumption, BoundsAssumption

\* What the statements of a request know about their arguments.
RequestsKnow ==
    \A r \in Requests :
        /\ pc[r] \in SendSteps => who[r] \in Phones
        /\ pc[r] = "mark" => who[r] \in Phones /\ row[r] \in Rows
        /\ pc[r] \in VerifySteps => who[r] \in Ids
        /\ pc[r] \in VerifySteps /\ row[r] \in Rows => who[r] \in Phones
        /\ pc[r] \in {"find", "create", "token"} /\ row[r] \in Rows
             => row[r] \in used[who[r]]

\* Days and expiry reach only codes that exist.
CountersAgree ==
    \A p \in Phones : dayStart[p] <= last[p] /\ stale[p] <= last[p]

IInv ==
    /\ TypeOK
    /\ RequestsKnow
    /\ CountersAgree
    /\ SessionsConsumeCodes
    /\ OneAccount

\* The rows and the requests keep their types: the two halves of TypeOK.
RowTypes ==
    /\ last \in [Phones -> 0..MaxRows]
    /\ used \in [Phones -> SUBSET Rows]
    /\ stale \in [Phones -> 0..MaxRows]
    /\ dayStart \in [Phones -> 0..MaxRows]
    /\ cooldown \in SUBSET Phones
    /\ accounts \in [Ids -> Nat]
    /\ logins \in [Phones -> [Rows -> Nat]]
    /\ cooled \in [Phones -> Nat]

RequestTypes ==
    /\ pc \in [Requests -> Steps]
    /\ who \in [Requests -> Ids \cup {None}]
    /\ row \in [Requests -> 0..MaxRows]
    /\ blind \in SUBSET Requests

LEMMA TypeHalves == TypeOK <=> RowTypes /\ RequestTypes
  BY DEF TypeOK, RowTypes, RequestTypes

\* Every step that moves a request leaves it in one of these three ways.
LEMMA RequestTypesStep ==
    ASSUME RequestTypes, NEW r \in Requests,
           \/ /\ \E step \in Steps : Goto(r, step)
              /\ UNCHANGED <<who, row>> /\ blind' \in SUBSET Requests
           \/ /\ \E step \in Steps, id \in Ids, k \in 0..MaxRows : Begin(r, step, id, k)
              /\ blind' \in SUBSET Requests
           \/ Finish(r)
    PROVE  RequestTypes'
<1> USE DEF RequestTypes, Goto
<1>1. CASE \E step \in Steps : Goto(r, step) /\ UNCHANGED <<who, row>>
                                /\ blind' \in SUBSET Requests
  BY <1>1
<1>2. ASSUME NEW step \in Steps, NEW id \in Ids, NEW k \in 0..MaxRows,
             Begin(r, step, id, k), blind' \in SUBSET Requests
      PROVE  RequestTypes'
  BY <1>2 DEF Begin
<1>3. CASE Finish(r)
  <2>1. pc' \in [Requests -> Steps] /\ blind' \in SUBSET Requests
    BY <1>3 DEF Finish, Steps
  <2>2. who' \in [Requests -> Ids \cup {None}]
    BY <1>3 DEF Finish
  <2>3. row' \in [Requests -> 0..MaxRows]
    BY <1>3 DEF Finish
  <2> QED
    BY <2>1, <2>2, <2>3
<1> QED
  BY <1>1, <1>2, <1>3

LEMMA InitInv == Init => IInv
<1> SUFFICES ASSUME Init PROVE IInv
  OBVIOUS
<1>1. RequestTypes
  BY DEF Init, RequestTypes, Steps
<1>2. /\ last \in [Phones -> 0..MaxRows] /\ stale \in [Phones -> 0..MaxRows]
      /\ dayStart \in [Phones -> 0..MaxRows]
  BY DEF Init
<1>3. /\ used \in [Phones -> SUBSET Rows] /\ cooldown \in SUBSET Phones
      /\ accounts \in [Ids -> Nat]
      /\ cooled \in [Phones -> Nat]
  BY DEF Init
<1>4. logins \in [Phones -> [Rows -> Nat]]
  BY DEF Init
<1>5. TypeOK
  BY <1>1, <1>2, <1>3, <1>4, TypeHalves DEF RowTypes
<1>6. RequestsKnow /\ CountersAgree
  BY DEF Init, RequestsKnow, CountersAgree, SendSteps, VerifySteps
<1>7. SessionsConsumeCodes
  BY DEF Init, SessionsConsumeCodes
<1>8. OneAccount
  BY DEF Init, OneAccount
<1> QED
  BY <1>5, <1>6, <1>7, <1>8 DEF IInv

\* Types, action by action.
LEMMA TypeStep == IInv /\ [Next]_vars => TypeOK'
<1> SUFFICES ASSUME IInv, [Next]_vars PROVE RowTypes' /\ RequestTypes'
  BY TypeHalves DEF TypeOK, RowTypes, RequestTypes
<1>0. RowTypes /\ RequestTypes /\ RequestsKnow /\ CountersAgree
  BY TypeHalves DEF IInv
<1> DEFINE Rest == UNCHANGED <<codes, cooldown, accounts, logins, cooled>>
<1>00. ASSUME Rest PROVE RowTypes'
  BY <1>0, <1>00 DEF codes, RowTypes
<1>1. ASSUME NEW r \in Requests, NEW p \in Phones, SendCooldownCheck(r, p)
      PROVE  RowTypes' /\ RequestTypes'
  <2>1. Rest
    BY <1>1 DEF SendCooldownCheck
  <2>2. Begin(r, "count", p, 0) /\ blind' \in SUBSET Requests
    BY <1>0, <1>1 DEF SendCooldownCheck, RequestTypes
  <2>3. "count" \in Steps /\ p \in Ids /\ 0 \in 0..MaxRows
    BY DEF Steps, SendSteps, Ids
  <2> QED
    BY <1>0, <1>00, <2>1, <2>2, <2>3, RequestTypesStep
<1>2. ASSUME NEW r \in Requests, NEW p \in Phones, NEW k \in Rows, VerifyLoad(r, p, k)
      PROVE  RowTypes' /\ RequestTypes'
  <2>1. Rest
    BY <1>2 DEF VerifyLoad
  <2>2. Begin(r, "mark", p, k) /\ blind' \in SUBSET Requests
    BY <1>0, <1>2 DEF VerifyLoad, RequestTypes
  <2>3. "mark" \in Steps /\ p \in Ids /\ k \in 0..MaxRows
    BY DEF Steps, VerifySteps, Ids, Rows
  <2> QED
    BY <1>0, <1>00, <2>1, <2>2, <2>3, RequestTypesStep
<1>3. ASSUME NEW r \in Requests, NEW w \in OpenIds, WeChatExchange(r, w)
      PROVE  RowTypes' /\ RequestTypes'
  <2>1. Rest
    BY <1>3 DEF WeChatExchange
  <2>2. Begin(r, "find", w, 0) /\ blind' \in SUBSET Requests
    BY <1>0, <1>3 DEF WeChatExchange, RequestTypes
  <2>3. "find" \in Steps /\ w \in Ids /\ 0 \in 0..MaxRows
    BY DEF Steps, VerifySteps, Ids
  <2> QED
    BY <1>0, <1>00, <2>1, <2>2, <2>3, RequestTypesStep
<1>4. ASSUME NEW r \in Requests, SendCount(r) \/ FindUser(r) \/ Abandon(r)
      PROVE  RowTypes' /\ RequestTypes'
  <2>1. Rest
    BY <1>4 DEF SendCount, FindUser, Abandon
  <2>2. \/ /\ Goto(r, "insert") \/ Goto(r, "token") \/ Goto(r, "create")
           /\ UNCHANGED <<who, row>> /\ blind' \in SUBSET Requests
        \/ Finish(r)
    BY <1>0, <1>4 DEF SendCount, FindUser, Abandon, RequestTypes
  <2>3. {"insert", "token", "create"} \subseteq Steps
    BY DEF Steps, SendSteps, VerifySteps
  <2> QED
    BY <1>0, <1>00, <2>1, <2>2, <2>3, RequestTypesStep
<1>5. ASSUME NEW r \in Requests, SendInsert(r)
      PROVE  RowTypes' /\ RequestTypes'
  <2>1. who[r] \in Phones /\ last[who[r]] \in 0..MaxRows /\ last[who[r]] < MaxRows
    BY <1>0, <1>5 DEF SendInsert, RequestsKnow, SendSteps, RowTypes
  <2>2. last[who[r]] + 1 \in 0..MaxRows
    BY <2>1
  <2>3. RowTypes'
    BY <1>0, <1>5, <2>1, <2>2 DEF SendInsert, RowTypes
  <2>4. Goto(r, "sms") /\ UNCHANGED <<who, row>> /\ blind' \in SUBSET Requests
    BY <1>0, <1>5 DEF SendInsert, RequestTypes
  <2>5. "sms" \in Steps
    BY DEF Steps, SendSteps
  <2> QED
    BY <1>0, <2>3, <2>4, <2>5, RequestTypesStep
<1>6. ASSUME NEW r \in Requests, SendMessage(r)
      PROVE  RowTypes' /\ RequestTypes'
  <2>1. cooled' \in [Phones -> Nat]
    <3>0. who[r] \in Phones /\ cooled[who[r]] \in Nat /\ cooled[who[r]] + 1 \in Nat
      BY <1>0, <1>6 DEF SendMessage, RequestsKnow, SendSteps, RowTypes
    <3>1. CASE cooled' = [cooled EXCEPT ![who[r]] =
                            IF who[r] \in cooldown /\ r \notin blind THEN @ + 1 ELSE @]
      BY <1>0, <3>0, <3>1 DEF RowTypes
    <3>2. CASE cooled' = cooled
      BY <1>0, <3>2 DEF RowTypes
    <3> QED
      BY <1>6, <3>1, <3>2 DEF SendMessage
  <2>2. RowTypes'
    BY <1>0, <1>6, <2>1 DEF SendMessage, RowTypes, codes
  <2>3. \/ Goto(r, "cool") /\ UNCHANGED <<who, row>> /\ blind' \in SUBSET Requests
        \/ Finish(r)
    BY <1>0, <1>6 DEF SendMessage, RequestTypes
  <2>4. "cool" \in Steps
    BY DEF Steps, SendSteps
  <2> QED
    BY <1>0, <2>2, <2>3, <2>4, RequestTypesStep
<1>7. ASSUME NEW r \in Requests, SendSetCooldown(r)
      PROVE  RowTypes' /\ RequestTypes'
  <2>1. who[r] \in Phones
    BY <1>0, <1>7 DEF SendSetCooldown, RequestsKnow, SendSteps
  <2>2. RowTypes'
    BY <1>0, <1>7, <2>1 DEF SendSetCooldown, RowTypes, codes
  <2>3. Finish(r)
    BY <1>7 DEF SendSetCooldown
  <2> QED
    BY <1>0, <2>2, <2>3, RequestTypesStep
<1>8. ASSUME NEW r \in Requests, VerifyMarkUsed(r)
      PROVE  RowTypes' /\ RequestTypes'
  <2>1. row[r] \in Rows /\ who[r] \in Phones
    BY <1>0, <1>8 DEF VerifyMarkUsed, RequestsKnow
  <2>2. RowTypes'
    BY <1>0, <1>8, <2>1 DEF VerifyMarkUsed, RowTypes
  <2>3. Goto(r, "find") /\ UNCHANGED <<who, row>> /\ blind' \in SUBSET Requests
    BY <1>0, <1>8 DEF VerifyMarkUsed, RequestTypes
  <2>4. "find" \in Steps
    BY DEF Steps, VerifySteps
  <2> QED
    BY <1>0, <2>2, <2>3, <2>4, RequestTypesStep
<1>9. ASSUME NEW r \in Requests, CreateUser(r)
      PROVE  RowTypes' /\ RequestTypes'
  <2>1. accounts' \in [Ids -> Nat]
    <3>0. accounts[who[r]] \in Nat /\ accounts[who[r]] + 1 \in Nat
      BY <1>0, <1>9 DEF CreateUser, RequestsKnow, VerifySteps, RowTypes
    <3>1. CASE accounts' = [accounts EXCEPT ![who[r]] = @ + 1]
      BY <1>0, <3>0, <3>1 DEF RowTypes
    <3>2. CASE accounts' = accounts
      BY <1>0, <3>2 DEF RowTypes
    <3> QED
      BY <1>9, <3>1, <3>2 DEF CreateUser
  <2>2. RowTypes'
    BY <1>0, <1>9, <2>1 DEF CreateUser, RowTypes, codes
  <2>3. \/ Goto(r, "token") /\ UNCHANGED <<who, row>> /\ blind' \in SUBSET Requests
        \/ Finish(r)
    BY <1>0, <1>9 DEF CreateUser, RequestTypes
  <2>4. "token" \in Steps
    BY DEF Steps, VerifySteps
  <2> QED
    BY <1>0, <2>2, <2>3, <2>4, RequestTypesStep
<1>10. ASSUME NEW r \in Requests, OpenSession(r)
       PROVE  RowTypes' /\ RequestTypes'
  <2>1. logins' \in [Phones -> [Rows -> Nat]]
    <3>1. CASE who[r] \in Phones
      <4>1. logins' = [logins EXCEPT ![who[r]] = [logins[who[r]] EXCEPT ![row[r]] = @ + 1]]
        BY <1>10, <3>1 DEF OpenSession
      <4>2. [logins[who[r]] EXCEPT ![row[r]] = @ + 1] \in [Rows -> Nat]
        <5> DEFINE f == logins[who[r]]
                   g == [f EXCEPT ![row[r]] = @ + 1]
        <5>1. f \in [Rows -> Nat]
          BY <1>0, <3>1 DEF RowTypes
        <5> HIDE DEF f
        <5>2. \A k \in Rows : f[k] \in Nat /\ f[k] + 1 \in Nat
          BY <5>1
        <5>3. g \in [Rows -> Nat]
          BY <5>1, <5>2
        <5> QED
          BY <5>3 DEF f
      <4> QED
        BY <1>0, <4>1, <4>2 DEF RowTypes
    <3>2. CASE who[r] \notin Phones
      BY <1>0, <1>10, <3>2 DEF OpenSession, RowTypes
    <3> QED
      BY <3>1, <3>2
  <2>2. RowTypes'
    BY <1>0, <1>10, <2>1 DEF OpenSession, RowTypes, codes
  <2>3. Finish(r)
    BY <1>10 DEF OpenSession
  <2> QED
    BY <1>0, <2>2, <2>3, RequestTypesStep
<1>11. ASSUME NEW p \in Phones, ExpireCode(p) \/ ExpireCooldown(p)
       PROVE  RowTypes' /\ RequestTypes'
  <2>1. RequestTypes'
    BY <1>0, <1>11 DEF ExpireCode, ExpireCooldown, requests, RequestTypes
  <2>2. CASE ExpireCode(p)
    <3>1. stale[p] \in 0..MaxRows /\ last[p] \in 0..MaxRows /\ stale[p] < last[p]
      BY <1>0, <2>2 DEF ExpireCode, RowTypes
    <3>2. stale[p] + 1 \in 0..MaxRows
      BY <3>1
    <3> QED
      BY <1>0, <2>1, <2>2, <3>2 DEF ExpireCode, RowTypes
  <2>3. CASE ExpireCooldown(p)
    BY <1>0, <2>1, <2>3 DEF ExpireCooldown, RowTypes, codes
  <2> QED
    BY <1>11, <2>2, <2>3
<1>12. CASE Midnight
  BY <1>0, <1>12 DEF Midnight, requests, RowTypes, RequestTypes
<1>13. CASE UNCHANGED vars
  BY <1>0, <1>13 DEF vars, RowTypes, RequestTypes
<1> QED
  BY <1>1, <1>2, <1>3, <1>4, <1>5, <1>6, <1>7, <1>8, <1>9, <1>10, <1>11, <1>12,
     <1>13
  DEF Next, RequestStep
\* The other conjuncts of the invariant.
LEMMA NextInv == IInv /\ [Next]_vars => IInv'
<1> DEFINE Rest == RequestsKnow /\ CountersAgree /\ SessionsConsumeCodes /\ OneAccount
<1> SUFFICES ASSUME IInv, [Next]_vars PROVE Rest'
  BY TypeStep DEF IInv
<1>0. TypeOK /\ TypeOK' /\ Rest
  BY TypeStep DEF IInv
<1> USE DEF TypeOK, Steps, SendSteps, VerifySteps, Ids, Goto, Begin, Finish,
            codes, requests, RequestsKnow, CountersAgree, SessionsConsumeCodes,
            OneAccount
\* A request that ends without a write disturbs nothing.
<1>00. ASSUME NEW r \in Requests, Finish(r),
              UNCHANGED <<last, used, stale, dayStart, accounts, logins>>
       PROVE  Rest'
  <2>1. /\ pc'[r] = "idle"
        /\ \A q \in Requests \ {r} :
              pc'[q] = pc[q] /\ who'[q] = who[q] /\ row'[q] = row[q]
    BY <1>0, <1>00
  <2>2. RequestsKnow'
    BY <1>0, <1>00, <2>1
  <2>3. OneAccount'
    BY <1>0, <1>00, <2>1
  <2>4. CountersAgree' /\ SessionsConsumeCodes'
    BY <1>0, <1>00
  <2> QED
    BY <2>2, <2>3, <2>4
<1>1. ASSUME NEW r \in Requests, NEW p \in Phones, SendCooldownCheck(r, p)
      PROVE  Rest'
  BY <1>0, <1>1 DEF SendCooldownCheck
<1>2. ASSUME NEW r \in Requests, NEW p \in Phones, NEW k \in Rows,
             VerifyLoad(r, p, k)
      PROVE  Rest'
  BY <1>0, <1>2 DEF VerifyLoad
<1>3. ASSUME NEW r \in Requests, NEW w \in OpenIds, WeChatExchange(r, w)
      PROVE  Rest'
  BY <1>0, <1>3 DEF WeChatExchange, Rows
<1>4. ASSUME NEW r \in Requests,
             SendCount(r) \/ SendMessage(r) \/ SendSetCooldown(r) \/ Abandon(r)
      PROVE  Rest'
  <2>1. UNCHANGED <<last, used, stale, dayStart, accounts, logins>>
    BY <1>4 DEF SendCount, SendMessage, SendSetCooldown, Abandon
  <2>2. \/ /\ pc[r] \in SendSteps /\ UNCHANGED <<who, row>>
           /\ pc' = [pc EXCEPT ![r] = "insert"] \/ pc' = [pc EXCEPT ![r] = "cool"]
        \/ Finish(r)
    BY <1>4 DEF SendCount, SendMessage, SendSetCooldown, Abandon
  <2>3. CASE /\ pc[r] \in SendSteps /\ UNCHANGED <<who, row>>
             /\ pc' = [pc EXCEPT ![r] = "insert"] \/ pc' = [pc EXCEPT ![r] = "cool"]
    BY <1>0, <2>1, <2>3
  <2>4. CASE Finish(r)
    BY <1>0, <1>00, <2>1, <2>4
  <2> QED
    BY <2>2, <2>3, <2>4
<1>5. ASSUME NEW r \in Requests, SendInsert(r)
      PROVE  Rest'
  BY <1>0, <1>5 DEF SendInsert
<1>6. ASSUME NEW r \in Requests, VerifyMarkUsed(r)
      PROVE  Rest'
  BY <1>0, <1>6 DEF VerifyMarkUsed
<1>7. ASSUME NEW r \in Requests, FindUser(r)
      PROVE  Rest'
  BY <1>0, <1>7 DEF FindUser
<1>8. ASSUME NEW r \in Requests, CreateUser(r)
      PROVE  Rest'
  <2>0. who[r] \in Ids
    BY <1>0, <1>8 DEF CreateUser
  <2>1. CASE accounts[who[r]] > 0
    BY <1>00, <1>8, <2>1 DEF CreateUser
  <2>2. CASE accounts[who[r]] = 0
    <3>1. /\ accounts' = [accounts EXCEPT ![who[r]] = 1]
          /\ pc' = [pc EXCEPT ![r] = "token"]
          /\ pc[r] = "create"
          /\ UNCHANGED <<who, row, last, used, stale, dayStart, logins>>
      BY <1>8, <2>2 DEF CreateUser
    <3>2. RequestsKnow'
      BY <1>0, <3>1
    <3>3. CountersAgree' /\ SessionsConsumeCodes'
      BY <1>0, <3>1
    <3>4. \A i \in Ids : accounts'[i] <= 1
      BY <1>0, <3>1
    <3>5. ASSUME NEW q \in Requests, pc'[q] = "token"
          PROVE  accounts'[who'[q]] = 1
      <4>1. CASE q = r
        BY <1>0, <2>0, <3>1, <4>1
      <4>2. CASE q # r
        <5>1. pc[q] = "token" /\ who[q] \in Ids /\ accounts[who[q]] = 1
          BY <1>0, <3>1, <3>5, <4>2
        <5> QED
          BY <1>0, <2>2, <3>1, <5>1
      <4> QED
        BY <4>1, <4>2
    <3> QED
      BY <3>2, <3>3, <3>4, <3>5
  <2> QED
    BY <1>0, <2>0, <2>1, <2>2
<1>9. ASSUME NEW r \in Requests, OpenSession(r)
      PROVE  Rest'
  <2>1. RequestsKnow' /\ CountersAgree' /\ OneAccount'
    BY <1>0, <1>9 DEF OpenSession
  <2>2. ASSUME NEW p \in Phones, NEW k \in Rows, logins'[p][k] > 0
        PROVE  k \in used'[p]
    <3>1. CASE p = who[r] /\ k = row[r]
      BY <1>0, <1>9, <3>1 DEF OpenSession
    <3>2. CASE ~(p = who[r] /\ k = row[r])
      <4>1. logins'[p][k] = logins[p][k]
        BY <1>0, <1>9, <3>2 DEF OpenSession
      <4> QED
        BY <1>0, <1>9, <2>2, <4>1 DEF OpenSession
    <3> QED
      BY <3>1, <3>2
  <2>3. SessionsConsumeCodes'
    BY <2>2
  <2> QED
    BY <2>1, <2>3
<1>10. ASSUME NEW p \in Phones, ExpireCode(p) \/ ExpireCooldown(p)
       PROVE  Rest'
  BY <1>0, <1>10 DEF ExpireCode, ExpireCooldown
<1>11. CASE Midnight
  BY <1>0, <1>11 DEF Midnight
<1>12. CASE UNCHANGED vars
  BY <1>0, <1>12 DEF vars
<1> HIDE DEF TypeOK, Steps, SendSteps, VerifySteps, Ids, Goto, Begin, Finish,
             codes, requests, RequestsKnow, CountersAgree, SessionsConsumeCodes,
             OneAccount, Rest
<1> QED
  BY <1>1, <1>2, <1>3, <1>4, <1>5, <1>6, <1>7, <1>8, <1>9, <1>10, <1>11, <1>12
  DEF Next, RequestStep

LEMMA Invariance == Spec => []IInv
  BY InitInv, NextInv, PTL DEF Spec

\* Every variable keeps its type.
THEOREM TypeCorrect == Spec => []TypeOK
<1>1. IInv => TypeOK
  BY DEF IInv
<1> QED
  BY <1>1, Invariance, PTL

\* A session costs its code, whatever the order of the statements.
THEOREM SessionsCostCodes == Spec => []SessionsConsumeCodes
<1>1. IInv => SessionsConsumeCodes
  BY DEF IInv
<1> QED
  BY <1>1, Invariance, PTL

\* One account for each phone and open id, and one for every session.
THEOREM AccountsAreUnique == Spec => []OneAccount
<1>1. IInv => OneAccount
  BY DEF IInv
<1> QED
  BY <1>1, Invariance, PTL

-----------------------------------------------------------------------------
(***************************************************************************)
(* Counting.  Each bound holds because a budget does: what is already done *)
(* together with the requests that may still do it.                        *)
(***************************************************************************)
LEMMA FewerRequests ==
    ASSUME NEW S \in SUBSET Requests, NEW T \in SUBSET S
    PROVE  /\ Cardinality(T) \in Nat /\ Cardinality(S) \in Nat
           /\ Cardinality(Requests) \in Nat
           /\ Cardinality(T) <= Cardinality(S)
           /\ Cardinality(S) <= Cardinality(Requests)
<1>1. IsFiniteSet(S)
  BY RequestsAssumption, FS_Subset
<1>2. IsFiniteSet(T)
  BY <1>1, FS_Subset
<1>3. Cardinality(T) \in Nat /\ Cardinality(S) \in Nat /\ Cardinality(Requests) \in Nat
  BY <1>1, <1>2, RequestsAssumption, FS_CardinalityType
<1>4. Cardinality(T) <= Cardinality(S)
  BY <1>1, FS_Subset
<1>5. Cardinality(S) <= Cardinality(Requests)
  BY RequestsAssumption, FS_Subset
<1> QED
  BY <1>3, <1>4, <1>5

LEMMA OneRequestLess ==
    ASSUME NEW S \in SUBSET Requests, NEW r \in S, NEW T \in SUBSET (S \ {r})
    PROVE  Cardinality(T) + 1 <= Cardinality(S)
<1>1. IsFiniteSet(S)
  BY RequestsAssumption, FS_Subset
<1>2. Cardinality(S \ {r}) = Cardinality(S) - 1
  BY <1>1, FS_RemoveElement
<1>3. S \ {r} \in SUBSET Requests
  OBVIOUS
<1>4. /\ Cardinality(T) \in Nat /\ Cardinality(S \ {r}) \in Nat
      /\ Cardinality(T) <= Cardinality(S \ {r})
  BY <1>3, FewerRequests
<1>5. Cardinality(S) \in Nat
  BY <1>1, FS_CardinalityType
<1> QED
  BY <1>2, <1>4, <1>5

\* Requests about to insert a code of p.
Inserting(p) == {r \in Requests : pc[r] = "insert" /\ who[r] = p}

DailyBudget ==
    \A p \in Phones :
        CodesToday(p) + Cardinality(Inserting(p)) < DailyLimit + Cardinality(Requests)

LEMMA DailyStep == IInv /\ DailyBudget /\ [Next]_vars => DailyBudget'
<1> SUFFICES ASSUME IInv, DailyBudget, [Next]_vars, NEW p \in Phones
             PROVE  (CodesToday(p) + Cardinality(Inserting(p))
                        < DailyLimit + Cardinality(Requests))'
  BY DEF DailyBudget
<1> DEFINE now == Inserting(p)
           next == Inserting(p)'
           Goal == CodesToday(p)' + Cardinality(next)
                       < DailyLimit + Cardinality(Requests)
<1>0. TypeOK /\ TypeOK' /\ IInv'
  BY NextInv DEF IInv
<1>1. now \in SUBSET Requests /\ next \in SUBSET Requests
  BY DEF Inserting
<1>2. /\ Cardinality(now) \in Nat /\ Cardinality(next) \in Nat
      /\ Cardinality(Requests) \in Nat
      /\ Cardinality(next) <= Cardinality(Requests)
  BY <1>1, FewerRequests
<1>3. /\ last[p] \in Nat /\ dayStart[p] \in Nat /\ dayStart[p] <= last[p]
      /\ last'[p] \in Nat /\ dayStart'[p] \in Nat /\ dayStart'[p] <= last'[p]
  BY <1>0 DEF IInv, CountersAgree, TypeOK
<1>4. CodesToday(p) + Cardinality(now) < DailyLimit + Cardinality(Requests)
  BY DEF DailyBudget
\* Nobody comes to insert and no code is added.
<1>5. ASSUME next \subseteq now, last'[p] = last[p], dayStart'[p] = dayStart[p]
      PROVE  Goal
  <2>1. Cardinality(next) <= Cardinality(now)
    BY <1>1, <1>5, FewerRequests
  <2> HIDE DEF now, next
  <2> QED
    BY <1>2, <1>3, <1>4, <1>5, <2>1 DEF CodesToday
<1>6. ASSUME NEW r \in Requests, SendCount(r)
      PROVE  Goal
  <2>1. last' = last /\ dayStart' = dayStart
    BY <1>6 DEF SendCount, codes
  <2>2. CASE who[r] = p /\ CodesToday(p) < DailyLimit
    <3> HIDE DEF now, next
    <3> QED
      BY <1>2, <1>3, <2>1, <2>2 DEF CodesToday
  <2>3. CASE ~(who[r] = p /\ CodesToday(p) < DailyLimit)
    <3>1. next \subseteq now
      BY <1>0, <1>6, <2>3 DEF SendCount, Inserting, Goto, Finish, TypeOK
    <3> QED
      BY <1>5, <2>1, <3>1
  <2> QED
    BY <2>2, <2>3
<1>7. ASSUME NEW r \in Requests, SendInsert(r)
      PROVE  Goal
  <2>1. dayStart' = dayStart
    BY <1>7 DEF SendInsert
  <2>2. CASE who[r] = p
    <3>1. r \in now /\ next \in SUBSET (now \ {r})
      BY <1>0, <1>7, <2>2 DEF SendInsert, Inserting, Goto, TypeOK
    <3>2. last'[p] = last[p] + 1
      BY <1>0, <1>7, <2>2 DEF SendInsert, TypeOK
    <3>3. Cardinality(next) + 1 <= Cardinality(now)
      BY <1>1, <3>1, OneRequestLess
    <3> HIDE DEF now, next
    <3> QED
      BY <1>2, <1>3, <1>4, <2>1, <3>2, <3>3 DEF CodesToday
  <2>3. CASE who[r] # p
    <3>1. next \subseteq now /\ last'[p] = last[p]
      BY <1>0, <1>7, <2>3 DEF SendInsert, Inserting, Goto, TypeOK
    <3> QED
      BY <1>5, <2>1, <3>1
  <2> QED
    BY <2>2, <2>3
<1>8. ASSUME Midnight PROVE Goal
  <2>1. dayStart'[p] = last'[p]
    BY <1>8 DEF Midnight
  <2> HIDE DEF now, next
  <2> QED
    BY <1>2, <1>3, <2>1 DEF CodesToday
\* Every other step.
<1>9. ASSUME next \subseteq now, UNCHANGED <<last, dayStart>>
      PROVE  Goal
  BY <1>5, <1>9
<1>10. ASSUME NEW r \in Requests, NEW q \in Phones, SendCooldownCheck(r, q)
       PROVE  Goal
  <2>1. next \subseteq now /\ UNCHANGED <<last, dayStart>>
    BY <1>0, <1>10 DEF SendCooldownCheck, Begin, Goto, Inserting, codes, TypeOK
  <2> QED
    BY <1>9, <2>1
<1>11. ASSUME NEW r \in Requests, NEW q \in Phones, NEW k \in Rows, VerifyLoad(r, q, k)
       PROVE  Goal
  <2>1. next \subseteq now /\ UNCHANGED <<last, dayStart>>
    BY <1>0, <1>11 DEF VerifyLoad, Begin, Goto, Inserting, codes, TypeOK
  <2> QED
    BY <1>9, <2>1
<1>12. ASSUME NEW r \in Requests, NEW w \in OpenIds, WeChatExchange(r, w)
       PROVE  Goal
  <2>1. next \subseteq now /\ UNCHANGED <<last, dayStart>>
    BY <1>0, <1>12 DEF WeChatExchange, Begin, Goto, Inserting, codes, TypeOK
  <2> QED
    BY <1>9, <2>1
<1>13. ASSUME NEW r \in Requests,
              \/ SendMessage(r) \/ SendSetCooldown(r) \/ VerifyMarkUsed(r)
              \/ FindUser(r) \/ CreateUser(r) \/ OpenSession(r) \/ Abandon(r)
       PROVE  Goal
  <2>1. UNCHANGED <<last, dayStart>>
    BY <1>13 DEF SendMessage, SendSetCooldown, VerifyMarkUsed, FindUser, CreateUser,
                 OpenSession, Abandon, codes
  <2>2. \/ \E step \in Steps \ {"insert"} : Goto(r, step) /\ who' = who
        \/ Finish(r)
    BY <1>13 DEF SendMessage, SendSetCooldown, VerifyMarkUsed, FindUser, CreateUser,
                 OpenSession, Abandon, Steps, SendSteps, VerifySteps
  <2>3. next \subseteq now
    BY <1>0, <2>2 DEF Goto, Finish, Inserting, TypeOK
  <2> QED
    BY <1>9, <2>1, <2>3
<1>14. ASSUME NEW q \in Phones, ExpireCode(q) \/ ExpireCooldown(q)
       PROVE  Goal
  <2>1. next \subseteq now /\ UNCHANGED <<last, dayStart>>
    BY <1>14 DEF ExpireCode, ExpireCooldown, Inserting, codes, requests
  <2> QED
    BY <1>9, <2>1
<1>15. ASSUME UNCHANGED vars PROVE Goal
  <2>1. next \subseteq now /\ UNCHANGED <<last, dayStart>>
    BY <1>15 DEF vars, Inserting
  <2> QED
    BY <1>9, <2>1
<1>16. Goal
  <2> HIDE DEF Goal
  <2> QED
    BY <1>6, <1>7, <1>8, <1>10, <1>11, <1>12, <1>13, <1>14, <1>15 DEF Next, RequestStep
<1> QED
  BY <1>16

\* The daily limit is exceeded by less than the requests that can run at once.
THEOREM DailyLimitHolds == Spec => []DailyOvershootBounded
<1>1. Init => DailyBudget
  <2> SUFFICES ASSUME Init, NEW p \in Phones
               PROVE  CodesToday(p) + Cardinality(Inserting(p))
                          < DailyLimit + Cardinality(Requests)
    BY DEF DailyBudget
  <2>1. Inserting(p) = {} /\ CodesToday(p) = 0
    BY DEF Init, Inserting, CodesToday
  <2>2. Cardinality({}) = 0 /\ Cardinality(Requests) \in Nat
    BY RequestsAssumption, FS_EmptySet, FS_CardinalityType
  <2> QED
    BY <2>1, <2>2
<1>2. IInv /\ DailyBudget => DailyOvershootBounded
  <2> SUFFICES ASSUME IInv, DailyBudget, NEW p \in Phones
               PROVE  CodesToday(p) < DailyLimit + Cardinality(Requests)
    BY DEF DailyOvershootBounded
  <2>1. Inserting(p) \in SUBSET Requests
    BY DEF Inserting
  <2>2. Cardinality(Inserting(p)) \in Nat /\ Cardinality(Requests) \in Nat
    BY <2>1, FewerRequests
  <2>3. CodesToday(p) \in Int
    BY DEF IInv, TypeOK, CodesToday
  <2> QED
    BY <2>2, <2>3 DEF DailyBudget
<1> QED
  BY <1>1, <1>2, DailyStep, InitInv, NextInv, PTL DEF Spec

-----------------------------------------------------------------------------
\* Requests that hold row k of p between the read and the session.
Holding(p, k) == {r \in Requests : pc[r] \in VerifySteps /\ who[r] = p /\ row[r] = k}

SessionBudget ==
    \A p \in Phones, k \in Rows :
        logins[p][k] + Cardinality(Holding(p, k)) <= Cardinality(Requests)

LEMMA SessionStep == IInv /\ SessionBudget /\ [Next]_vars => SessionBudget'
<1> SUFFICES ASSUME IInv, SessionBudget, [Next]_vars, NEW p \in Phones, NEW k \in Rows
             PROVE  logins'[p][k] + Cardinality(Holding(p, k)') <= Cardinality(Requests)
  BY DEF SessionBudget
<1> DEFINE now == Holding(p, k)
           next == Holding(p, k)'
           Goal == logins'[p][k] + Cardinality(next) <= Cardinality(Requests)
<1>0. TypeOK /\ TypeOK' /\ IInv'
  BY NextInv DEF IInv
<1>1. now \in SUBSET Requests /\ next \in SUBSET Requests
  BY DEF Holding
<1>2. /\ Cardinality(now) \in Nat /\ Cardinality(next) \in Nat
      /\ Cardinality(Requests) \in Nat
      /\ Cardinality(next) <= Cardinality(Requests)
  BY <1>1, FewerRequests
<1>3. logins[p][k] \in Nat /\ logins'[p][k] \in Nat
  BY <1>0 DEF TypeOK
<1>4. logins[p][k] + Cardinality(now) <= Cardinality(Requests)
  BY DEF SessionBudget
\* Nobody reads the code and no session is opened with it.
<1>5. ASSUME next \subseteq now, logins'[p][k] = logins[p][k]
      PROVE  Goal
  <2>1. Cardinality(next) <= Cardinality(now)
    BY <1>1, <1>5, FewerRequests
  <2> HIDE DEF now, next
  <2> QED
    BY <1>2, <1>3, <1>4, <1>5, <2>1
\* A code that can still be read has opened no session.
<1>6. ASSUME NEW r \in Requests, NEW q \in Phones, NEW j \in Rows, VerifyLoad(r, q, j)
      PROVE  Goal
  <2>1. logins' = logins
    BY <1>6 DEF VerifyLoad
  <2>2. CASE q = p /\ j = k
    <3>1. k \notin used[p]
      BY <1>6, <2>2 DEF VerifyLoad, IsLatest, Unused
    <3>2. logins[p][k] = 0
      BY <1>3, <3>1 DEF IInv, SessionsConsumeCodes
    <3> HIDE DEF now, next
    <3> QED
      BY <1>2, <2>1, <3>2
  <2>3. CASE ~(q = p /\ j = k)
    <3>1. next \subseteq now
      BY <1>0, <1>6, <2>3 DEF VerifyLoad, Begin, Goto, Holding, TypeOK
    <3> QED
      BY <1>5, <2>1, <3>1
  <2> QED
    BY <2>2, <2>3
<1>7. ASSUME NEW r \in Requests, OpenSession(r)
      PROVE  Goal
  <2>1. CASE who[r] = p /\ row[r] = k
    <3>1. r \in now /\ next \in SUBSET (now \ {r})
      BY <1>0, <1>7, <2>1 DEF OpenSession, Finish, Goto, Holding, VerifySteps, TypeOK
    <3>2. logins'[p][k] = logins[p][k] + 1
      <4>1. logins' = [logins EXCEPT ![p] = [logins[p] EXCEPT ![k] = logins[p][k] + 1]]
        BY <1>7, <2>1 DEF OpenSession
      <4> QED
        BY <1>0, <4>1 DEF TypeOK
    <3>3. Cardinality(next) + 1 <= Cardinality(now)
      BY <1>1, <3>1, OneRequestLess
    <3> HIDE DEF now, next
    <3> QED
      BY <1>2, <1>3, <1>4, <3>2, <3>3
  <2>2. CASE ~(who[r] = p /\ row[r] = k)
    <3>1. next \subseteq now
      BY <1>0, <1>7, <2>2 DEF OpenSession, Finish, Goto, Holding, VerifySteps, TypeOK
    <3>2. logins'[p][k] = logins[p][k]
      BY <1>0, <1>7, <2>2 DEF OpenSession, TypeOK
    <3> QED
      BY <1>5, <3>1, <3>2
  <2> QED
    BY <2>1, <2>2
\* Every other step.
<1>8. ASSUME NEW r \in Requests, NEW q \in Phones, SendCooldownCheck(r, q)
      PROVE  Goal
  <2>1. next \subseteq now /\ logins' = logins
    BY <1>0, <1>8 DEF SendCooldownCheck, Begin, Goto, Holding, VerifySteps, TypeOK
  <2> QED
    BY <1>5, <2>1
<1>9. ASSUME NEW r \in Requests, NEW w \in OpenIds, WeChatExchange(r, w)
      PROVE  Goal
  <2>1. next \subseteq now /\ logins' = logins
    BY <1>0, <1>9 DEF WeChatExchange, Begin, Goto, Holding, Rows, TypeOK
  <2> QED
    BY <1>5, <2>1
<1>10. ASSUME NEW r \in Requests,
              \/ SendCount(r) \/ SendInsert(r) \/ SendMessage(r) \/ SendSetCooldown(r)
              \/ Abandon(r)
       PROVE  Goal
  <2>1. logins' = logins
    BY <1>10 DEF SendCount, SendInsert, SendMessage, SendSetCooldown, Abandon
  <2>2. \/ \E step \in SendSteps : Goto(r, step) /\ UNCHANGED <<who, row>>
        \/ Finish(r)
    BY <1>10 DEF SendCount, SendInsert, SendMessage, SendSetCooldown, Abandon, SendSteps
  <2>3. next \subseteq now
    BY <1>0, <2>2 DEF Goto, Finish, Holding, SendSteps, VerifySteps, TypeOK
  <2> QED
    BY <1>5, <2>1, <2>3
<1>11. ASSUME NEW r \in Requests, VerifyMarkUsed(r) \/ FindUser(r) \/ CreateUser(r)
       PROVE  Goal
  <2>1. logins' = logins
    BY <1>11 DEF VerifyMarkUsed, FindUser, CreateUser
  <2>2. \/ /\ pc[r] \in VerifySteps /\ UNCHANGED <<who, row>>
           /\ \E step \in VerifySteps : Goto(r, step)
        \/ Finish(r)
    BY <1>11 DEF VerifyMarkUsed, FindUser, CreateUser, VerifySteps
  <2>3. next \subseteq now
    BY <1>0, <2>2 DEF Goto, Finish, Holding, VerifySteps, TypeOK
  <2> QED
    BY <1>5, <2>1, <2>3
<1>12. ASSUME \/ \E q \in Phones : ExpireCode(q) \/ ExpireCooldown(q)
              \/ Midnight \/ UNCHANGED vars
       PROVE  Goal
  <2>1. next \subseteq now /\ logins' = logins
    BY <1>12 DEF ExpireCode, ExpireCooldown, Midnight, vars, requests, Holding
  <2> QED
    BY <1>5, <2>1
<1>13. Goal
  <2> HIDE DEF Goal
  <2> QED
    BY <1>6, <1>7, <1>8, <1>9, <1>10, <1>11, <1>12 DEF Next, RequestStep
<1> QED
  BY <1>13

\* One code opens at most one session for each request that can run at once,
\* although the UPDATE that marks it used asks for nothing.
THEOREM CodesOpenFewSessions == Spec => []CodeSessionsBounded
<1>1. Init => SessionBudget
  <2> SUFFICES ASSUME Init, NEW p \in Phones, NEW k \in Rows
               PROVE  logins[p][k] + Cardinality(Holding(p, k)) <= Cardinality(Requests)
    BY DEF SessionBudget
  <2>1. Holding(p, k) = {} /\ logins[p][k] = 0
    BY DEF Init, Holding, VerifySteps
  <2>2. Cardinality({}) = 0 /\ Cardinality(Requests) \in Nat
    BY RequestsAssumption, FS_EmptySet, FS_CardinalityType
  <2> QED
    BY <2>1, <2>2
<1>2. IInv /\ SessionBudget => CodeSessionsBounded
  <2> SUFFICES ASSUME IInv, SessionBudget, NEW p \in Phones, NEW k \in Rows
               PROVE  logins[p][k] <= Cardinality(Requests)
    BY DEF CodeSessionsBounded
  <2>1. Holding(p, k) \in SUBSET Requests
    BY DEF Holding
  <2>2. Cardinality(Holding(p, k)) \in Nat /\ Cardinality(Requests) \in Nat
    BY <2>1, FewerRequests
  <2>3. logins[p][k] \in Nat
    BY DEF IInv, TypeOK
  <2> QED
    BY <2>2, <2>3 DEF SessionBudget
<1> QED
  BY <1>1, <1>2, SessionStep, InitInv, NextInv, PTL DEF Spec

-----------------------------------------------------------------------------
\* Requests that Redis answered and that may still send a message to p.
Racing(p) ==
    {r \in Requests \ blind : pc[r] \in {"count", "insert", "sms"} /\ who[r] = p}

CooldownBudget ==
    \A p \in Phones :
        /\ p \in cooldown => cooled[p] + Cardinality(Racing(p)) < Cardinality(Requests)
        /\ p \notin cooldown => cooled[p] = 0

LEMMA CooldownStep == IInv /\ CooldownBudget /\ [Next]_vars => CooldownBudget'
<1> DEFINE Goal(p) ==
        /\ p \in cooldown' => cooled'[p] + Cardinality(Racing(p)') < Cardinality(Requests)
        /\ p \notin cooldown' => cooled'[p] = 0
<1> SUFFICES ASSUME IInv, CooldownBudget, [Next]_vars, NEW p \in Phones
             PROVE  Goal(p)
  BY DEF CooldownBudget
<1> DEFINE now == Racing(p)
           next == Racing(p)'
<1>0. TypeOK /\ TypeOK' /\ IInv'
  BY NextInv DEF IInv
<1>1. now \in SUBSET Requests /\ next \in SUBSET Requests
  BY DEF Racing
<1>2. /\ Cardinality(now) \in Nat /\ Cardinality(next) \in Nat
      /\ Cardinality(Requests) \in Nat
  BY <1>1, FewerRequests
<1>3. cooled[p] \in Nat /\ cooled'[p] \in Nat
  BY <1>0 DEF TypeOK
<1>4. /\ p \in cooldown => cooled[p] + Cardinality(now) < Cardinality(Requests)
      /\ p \notin cooldown => cooled[p] = 0
  BY DEF CooldownBudget
\* Without a key nothing is counted; with one nobody joins the race.
<1>5. ASSUME p \notin cooldown', p \notin cooldown, cooled'[p] = cooled[p]
      PROVE  Goal(p)
  BY <1>4, <1>5
<1>6. ASSUME p \in cooldown' => p \in cooldown, p \in cooldown => p \in cooldown',
             cooled'[p] = cooled[p], p \in cooldown => next \subseteq now
      PROVE  Goal(p)
  <2>1. p \in cooldown => Cardinality(next) <= Cardinality(now)
    BY <1>1, <1>6, FewerRequests
  <2> HIDE DEF now
  <2> QED
    BY <1>2, <1>3, <1>4, <1>6, <2>1
<1>7. ASSUME NEW r \in Requests, NEW q \in Phones, SendCooldownCheck(r, q)
      PROVE  Goal(p)
  <2>1. cooldown' = cooldown /\ cooled' = cooled
    BY <1>7 DEF SendCooldownCheck
  <2>2. p \in cooldown => next \subseteq now
    BY <1>0, <1>7 DEF SendCooldownCheck, Begin, Goto, Racing, TypeOK
  <2> QED
    BY <1>6, <2>1, <2>2
<1>8. ASSUME NEW r \in Requests, SendMessage(r)
      PROVE  Goal(p)
  <2>1. cooldown' = cooldown
    BY <1>8 DEF SendMessage
  <2>2. next \subseteq now
    BY <1>0, <1>8 DEF SendMessage, Goto, Finish, Racing, TypeOK
  <2>3. CASE cooled'[p] = cooled[p]
    BY <1>6, <2>1, <2>2, <2>3
  <2>4. CASE cooled'[p] # cooled[p]
    <3>1. who[r] = p /\ p \in cooldown /\ r \notin blind /\ pc'[r] = "cool"
      BY <1>0, <1>8, <2>4 DEF SendMessage, Goto, TypeOK
    <3>2. cooled'[p] = cooled[p] + 1
      BY <1>0, <1>8, <2>4 DEF SendMessage, TypeOK
    <3>3. r \in now /\ next \in SUBSET (now \ {r})
      BY <1>8, <2>2, <3>1 DEF SendMessage, Racing
    <3>4. Cardinality(next) + 1 <= Cardinality(now)
      BY <1>1, <3>3, OneRequestLess
    <3> HIDE DEF now
    <3> QED
      BY <1>2, <1>3, <1>4, <2>1, <3>1, <3>2, <3>4
  <2> QED
    BY <2>3, <2>4
\* When the key appears, its request no longer races.
<1>9. ASSUME NEW r \in Requests, SendSetCooldown(r)
      PROVE  Goal(p)
  <2>1. cooled' = cooled /\ next \subseteq now
    BY <1>0, <1>9 DEF SendSetCooldown, Goto, Finish, Racing, TypeOK
  <2>2. CASE p \notin cooldown /\ p \in cooldown'
    <3>1. next \in SUBSET (Requests \ {r})
      BY <1>0, <1>9 DEF SendSetCooldown, Goto, Finish, Racing, TypeOK
    <3>2. Cardinality(next) + 1 <= Cardinality(Requests)
      BY <3>1, OneRequestLess
    <3> QED
      BY <1>2, <1>4, <2>1, <2>2, <3>2
  <2>3. CASE p \in cooldown \/ p \notin cooldown'
    <3>1. cooldown \subseteq cooldown'
      BY <1>9 DEF SendSetCooldown
    <3> QED
      BY <1>6, <2>1, <2>3, <3>1
  <2> QED
    BY <2>2, <2>3
<1>10. ASSUME NEW q \in Phones, ExpireCooldown(q)
       PROVE  Goal(p)
  <2>1. CASE q = p
    <3>1. p \notin cooldown' /\ cooled'[p] = 0
      BY <1>0, <1>10, <2>1 DEF ExpireCooldown, TypeOK
    <3> QED
      BY <3>1
  <2>2. CASE q # p
    <3>1. cooled'[p] = cooled[p] /\ (p \in cooldown' <=> p \in cooldown)
      BY <1>0, <1>10, <2>2 DEF ExpireCooldown, TypeOK
    <3>2. next \subseteq now
      BY <1>10 DEF ExpireCooldown, Racing, requests
    <3> QED
      BY <1>6, <3>1, <3>2
  <2> QED
    BY <2>1, <2>2
\* Every other step.
<1>11. ASSUME next \subseteq now, UNCHANGED <<cooldown, cooled>>
       PROVE  Goal(p)
  BY <1>6, <1>11
<1>12. ASSUME NEW r \in Requests, NEW q \in Phones, NEW k \in Rows, VerifyLoad(r, q, k)
       PROVE  Goal(p)
  <2>1. next \subseteq now /\ UNCHANGED <<cooldown, cooled>>
    BY <1>0, <1>12 DEF VerifyLoad, Begin, Goto, Racing, TypeOK
  <2> QED
    BY <1>11, <2>1
<1>13. ASSUME NEW r \in Requests, NEW w \in OpenIds, WeChatExchange(r, w)
       PROVE  Goal(p)
  <2>1. next \subseteq now /\ UNCHANGED <<cooldown, cooled>>
    BY <1>0, <1>13 DEF WeChatExchange, Begin, Goto, Racing, TypeOK
  <2> QED
    BY <1>11, <2>1
<1>14. ASSUME NEW r \in Requests, SendCount(r) \/ SendInsert(r)
       PROVE  Goal(p)
  <2>1. UNCHANGED <<cooldown, cooled>>
    BY <1>14 DEF SendCount, SendInsert
  <2>2. \/ /\ pc[r] \in {"count", "insert"} /\ UNCHANGED <<who, blind>>
           /\ Goto(r, "insert") \/ Goto(r, "sms")
        \/ Finish(r)
    BY <1>14 DEF SendCount, SendInsert
  <2>3. next \subseteq now
    <3>1. CASE /\ pc[r] \in {"count", "insert"} /\ UNCHANGED <<who, blind>>
               /\ Goto(r, "insert") \/ Goto(r, "sms")
      BY <1>0, <3>1 DEF Goto, Racing, TypeOK
    <3>2. CASE Finish(r)
      BY <1>0, <3>2 DEF Finish, Goto, Racing, TypeOK
    <3> QED
      BY <2>2, <3>1, <3>2
  <2> QED
    BY <1>11, <2>1, <2>3
<1>15. ASSUME NEW r \in Requests,
              \/ VerifyMarkUsed(r) \/ FindUser(r) \/ CreateUser(r) \/ OpenSession(r)
              \/ Abandon(r)
       PROVE  Goal(p)
  <2>1. UNCHANGED <<cooldown, cooled>>
    BY <1>15 DEF VerifyMarkUsed, FindUser, CreateUser, OpenSession, Abandon
  <2>2. \/ /\ UNCHANGED <<who, blind>>
           /\ \E step \in VerifySteps : Goto(r, step)
        \/ Finish(r)
    BY <1>15 DEF VerifyMarkUsed, FindUser, CreateUser, OpenSession, Abandon, VerifySteps
  <2>3. next \subseteq now
    BY <1>0, <2>2 DEF Goto, Finish, Racing, VerifySteps, TypeOK
  <2> QED
    BY <1>11, <2>1, <2>3
<1>16. ASSUME (\E q \in Phones : ExpireCode(q)) \/ Midnight \/ UNCHANGED vars
       PROVE  Goal(p)
  <2>1. next \subseteq now /\ UNCHANGED <<cooldown, cooled>>
    BY <1>16 DEF ExpireCode, Midnight, vars, requests, Racing
  <2> QED
    BY <1>11, <2>1
<1> HIDE DEF Goal
<1> QED
  BY <1>7, <1>8, <1>9, <1>10, <1>12, <1>13, <1>14, <1>15, <1>16 DEF Next, RequestStep

\* While the cooldown of a phone runs, the requests that Redis answered send
\* it fewer messages than there are requests.
THEOREM CooldownHolds == Spec => []CooldownOvershootBounded
<1>1. Init => CooldownBudget
  BY DEF Init, CooldownBudget
<1>2. IInv /\ CooldownBudget => CooldownOvershootBounded
  <2> SUFFICES ASSUME IInv, CooldownBudget, NEW p \in Phones
               PROVE  cooled[p] < Cardinality(Requests)
    BY DEF CooldownOvershootBounded
  <2>1. Racing(p) \in SUBSET Requests
    BY DEF Racing
  <2>2. Cardinality(Racing(p)) \in Nat /\ Cardinality(Requests) \in Nat
    BY <2>1, FewerRequests
  <2>3. cooled[p] \in Nat
    BY DEF IInv, TypeOK
  <2>4. Cardinality(Requests) # 0
    BY RequestsAssumption, FS_EmptySet
  <2> QED
    BY <2>2, <2>3, <2>4 DEF CooldownBudget
<1> QED
  BY <1>1, <1>2, CooldownStep, InitInv, NextInv, PTL DEF Spec
=============================================================================
