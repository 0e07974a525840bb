------------------------- MODULE TokenServiceProofs -------------------------
(***************************************************************************)
(* Theorems about the two kinds of token token_service.go issues: about    *)
(* refresh tokens (TokenService), for any sets of users and tokens and any *)
(* finite set of concurrent requests, and about access tokens and the      *)
(* limiter that guards their routes (Gateway), for any groups of routes,   *)
(* any limit and any durations.                                            *)
(***************************************************************************)
EXTENDS TokenService, Gateway, FiniteSetTheorems, TLAPS

USE NoneAssumption

\* What the statements of a request know about the row it was called with.
RequestsKnow ==
    \A r \in Requests :
        /\ pc[r] # "idle" => presented[r] \in Issued
        /\ pc[r] = "rotated" => presented[r] \in revoked

\* Rows are never deleted; only issued tokens have a parent or a root.
RowsConsistent ==
    /\ revoked \subseteq Issued
    /\ \A u \in Users : purged[u] \subseteq revoked
    /\ \A t \in Tokens :
        /\ parent[t] # None => t \in Issued /\ parent[t] \in Issued
        /\ root[t] # None <=> t \in Issued

IInv ==
    /\ TypeOK
    /\ RequestsKnow
    /\ RowsConsistent
    /\ RotationConsumesParent

-----------------------------------------------------------------------------
\* An unissued token is nobody's parent and is neither revoked nor purged.
LEMMA FreshToken ==
    ASSUME IInv, NEW t \in Tokens, owner[t] = None
    PROVE  /\ t \notin revoked
           /\ \A s \in Tokens : parent[s] # t
           /\ \A u \in Users : t \notin purged[u]
           /\ \A r \in Requests : pc[r] # "idle" => presented[r] # t
  BY DEF IInv, TypeOK, RowsConsistent, RequestsKnow, Issued

\* The initial state and the steps of the inductive invariant.
LEMMA InitInv == Init => IInv
  BY DEF Init, IInv, TypeOK, Steps, RequestsKnow, RowsConsistent,
         RotationConsumesParent, Issued

LEMMA NextInv == IInv /\ [Next]_vars => IInv'
<1> SUFFICES ASSUME IInv, [Next]_vars PROVE IInv'
  OBVIOUS
<1> USE DEF IInv, TypeOK, Steps, Goto, Finish, rows, history, Issued
<1>1. ASSUME NEW u \in Users, NEW t \in Tokens, Login(u, t)
      PROVE  IInv'
  <2>1. TypeOK'
    BY <1>1 DEF Login, GenerateTokenPair
  <2>2. RequestsKnow'
    BY <1>1, FreshToken, <2>1 DEF Login, GenerateTokenPair, RequestsKnow
  <2>3. RowsConsistent'
    BY <1>1, FreshToken, <2>1 DEF Login, GenerateTokenPair, RowsConsistent, RequestsKnow
  <2>4. RotationConsumesParent'
    BY <1>1, FreshToken, <2>1 DEF Login, GenerateTokenPair, RotationConsumesParent, RowsConsistent, RequestsKnow
  <2> QED
    BY <2>1, <2>2, <2>3, <2>4
<1>2. ASSUME NEW r \in Requests, NEW t \in Tokens, RefreshLoad(r, t)
      PROVE  IInv'
  <2>1. TypeOK'
    BY <1>2 DEF RefreshLoad
  <2>2. RequestsKnow'
    BY <1>2, <2>1 DEF RefreshLoad, RequestsKnow
  <2>3. RowsConsistent'
    BY <1>2, <2>1 DEF RefreshLoad, RowsConsistent, RequestsKnow
  <2>4. RotationConsumesParent'
    BY <1>2, <2>1 DEF RefreshLoad, RotationConsumesParent, RowsConsistent, RequestsKnow
  <2> QED
    BY <2>1, <2>2, <2>3, <2>4
<1>3. ASSUME NEW r \in Requests, NEW t \in Tokens, LogoutLoad(r, t)
      PROVE  IInv'
  <2>1. TypeOK'
    BY <1>3 DEF LogoutLoad
  <2>2. RequestsKnow'
    BY <1>3, <2>1 DEF LogoutLoad, RequestsKnow
  <2>3. RowsConsistent'
    BY <1>3, <2>1 DEF LogoutLoad, RowsConsistent, RequestsKnow
  <2>4. RotationConsumesParent'
    BY <1>3, <2>1 DEF LogoutLoad, RotationConsumesParent, RowsConsistent, RequestsKnow
  <2> QED
    BY <2>1, <2>2, <2>3, <2>4
<1>4. ASSUME NEW r \in Requests, RefreshExpired(r)
      PROVE  IInv'
  <2>1. TypeOK'
    BY <1>4 DEF RefreshExpired
  <2>2. RequestsKnow'
    BY <1>4, <2>1 DEF RefreshExpired, RequestsKnow
  <2>3. RowsConsistent'
    BY <1>4, <2>1 DEF RefreshExpired, RowsConsistent, RequestsKnow
  <2>4. RotationConsumesParent'
    BY <1>4, <2>1 DEF RefreshExpired, RotationConsumesParent, RowsConsistent, RequestsKnow
  <2> QED
    BY <2>1, <2>2, <2>3, <2>4
<1>5. ASSUME NEW r \in Requests, RefreshRotate(r)
      PROVE  IInv'
  <2>1. TypeOK'
    BY <1>5 DEF RefreshRotate, RequestsKnow
  <2>2. RequestsKnow'
    BY <1>5, <2>1 DEF RefreshRotate, RequestsKnow
  <2>3. RowsConsistent'
    BY <1>5, <2>1 DEF RefreshRotate, RowsConsistent, RequestsKnow
  <2>4. RotationConsumesParent'
    BY <1>5, <2>1 DEF RefreshRotate, RotationConsumesParent, RowsConsistent, RequestsKnow
  <2> QED
    BY <2>1, <2>2, <2>3, <2>4
<1>6. ASSUME NEW r \in Requests, NEW t \in Tokens, RefreshMint(r, t)
      PROVE  IInv'
  <2>1. TypeOK'
    BY <1>6 DEF RefreshMint, GenerateTokenPair, RequestsKnow
  <2>2. RequestsKnow'
    BY <1>6, FreshToken, <2>1 DEF RefreshMint, GenerateTokenPair, RequestsKnow
  <2>3. RowsConsistent'
    BY <1>6, FreshToken, <2>1 DEF RefreshMint, GenerateTokenPair, RowsConsistent, RequestsKnow
  <2>4. RotationConsumesParent'
    BY <1>6, FreshToken, <2>1 DEF RefreshMint, GenerateTokenPair, RotationConsumesParent, RowsConsistent, RequestsKnow
  <2> QED
    BY <2>1, <2>2, <2>3, <2>4
<1>7. ASSUME NEW r \in Requests, RefreshPurge(r)
      PROVE  IInv'
  <2>1. TypeOK'
    BY <1>7 DEF RefreshPurge, TokensOf
  <2>2. RequestsKnow'
    BY <1>7, <2>1 DEF RefreshPurge, TokensOf, RequestsKnow
  <2>3. RowsConsistent'
    BY <1>7, <2>1 DEF RefreshPurge, TokensOf, RowsConsistent, RequestsKnow
  <2>4. RotationConsumesParent'
    BY <1>7, <2>1 DEF RefreshPurge, TokensOf, RotationConsumesParent, RowsConsistent, RequestsKnow
  <2> QED
    BY <2>1, <2>2, <2>3, <2>4
<1>8. ASSUME NEW r \in Requests, LogoutRevoke(r)
      PROVE  IInv'
  <2>1. TypeOK'
    BY <1>8 DEF LogoutRevoke, RequestsKnow
  <2>2. RequestsKnow'
    BY <1>8, <2>1 DEF LogoutRevoke, RequestsKnow
  <2>3. RowsConsistent'
    BY <1>8, <2>1 DEF LogoutRevoke, RowsConsistent, RequestsKnow
  <2>4. RotationConsumesParent'
    BY <1>8, <2>1 DEF LogoutRevoke, RotationConsumesParent, RowsConsistent, RequestsKnow
  <2> QED
    BY <2>1, <2>2, <2>3, <2>4
<1>9. ASSUME NEW r \in Requests, Abandon(r)
      PROVE  IInv'
  <2>1. TypeOK'
    BY <1>9 DEF Abandon
  <2>2. RequestsKnow'
    BY <1>9, <2>1 DEF Abandon, RequestsKnow
  <2>3. RowsConsistent'
    BY <1>9, <2>1 DEF Abandon, RowsConsistent, RequestsKnow
  <2>4. RotationConsumesParent'
    BY <1>9, <2>1 DEF Abandon, RotationConsumesParent, RowsConsistent, RequestsKnow
  <2> QED
    BY <2>1, <2>2, <2>3, <2>4
<1>10. ASSUME NEW t \in Tokens, Expire(t)
      PROVE  IInv'
  <2>1. TypeOK'
    BY <1>10 DEF Expire
  <2>2. RequestsKnow'
    BY <1>10, <2>1 DEF Expire, RequestsKnow
  <2>3. RowsConsistent'
    BY <1>10, <2>1 DEF Expire, RowsConsistent, RequestsKnow
  <2>4. RotationConsumesParent'
    BY <1>10, <2>1 DEF Expire, RotationConsumesParent, RowsConsistent, RequestsKnow
  <2> QED
    BY <2>1, <2>2, <2>3, <2>4
<1>11. CASE UNCHANGED vars
  BY <1>11 DEF vars, RequestsKnow, RowsConsistent, RotationConsumesParent
<1> QED
  BY <1>1, <1>2, <1>3, <1>4, <1>5, <1>6, <1>7, <1>8, <1>9, <1>10, <1>11
  DEF Next, RequestStep

LEMMA Invariance == Spec => []IInv
  BY InitInv, NextInv, PTL DEF Spec

\* Every reachable state is well typed.
THEOREM TypeCorrect == Spec => []TypeOK
<1>1. IInv => TypeOK
  BY DEF IInv
<1> QED
  BY <1>1, Invariance, PTL

\* Whatever the number of concurrent requests, a token obtained by a refresh
\* has a revoked parent of the same user and of the same login.
THEOREM RotationConsumes == Spec => []RotationConsumesParent
<1>1. IInv => RotationConsumesParent
  BY DEF IInv
<1> QED
  BY <1>1, Invariance, PTL

-----------------------------------------------------------------------------
\* The counting behind the two bounds: a request in flight past the check is
\* traded for the token it mints.
InFlight(S) ==
    {r \in Requests : pc[r] \in {"loaded", "rotated"} /\ presented[r] \in S}

LEMMA Shrink ==
    ASSUME NEW A, NEW B, IsFiniteSet(B), A \subseteq B
    PROVE  /\ IsFiniteSet(A)
           /\ Cardinality(A) \in Nat
           /\ Cardinality(B) \in Nat
           /\ Cardinality(A) <= Cardinality(B)
  BY FS_Subset, FS_CardinalityType

LEMMA FiniteInFlight ==
    ASSUME NEW S
    PROVE  /\ IsFiniteSet(InFlight(S))
           /\ Cardinality(InFlight(S)) \in Nat
           /\ Cardinality(Requests) \in Nat
           /\ Cardinality(InFlight(S)) <= Cardinality(Requests)
  BY Shrink, RequestsAssumption DEF InFlight

-----------------------------------------------------------------------------
\* Exchanged tokens and requests that may still exchange the same one.
ExchangeBudget(p) ==
    IF p \in revoked
      THEN /\ IsFiniteSet(Children(p))
           /\ Cardinality(Children(p)) + Cardinality(InFlight({p}))
                <= Cardinality(Requests)
      ELSE Children(p) = {}

\* Steps that neither mint a child of p nor let a request past the check
\* once p is revoked.
LEMMA ExchangeQuiet ==
    ASSUME NEW p \in Tokens, ExchangeBudget(p),
           Children(p)' = Children(p), revoked \subseteq revoked',
           p \in revoked => InFlight({p})' \subseteq InFlight({p})
    PROVE  ExchangeBudget(p)'
<1>1. IsFiniteSet(InFlight({p})) /\ Cardinality(InFlight({p})) \in Nat
  BY FiniteInFlight
<1>2. /\ IsFiniteSet(InFlight({p})')
      /\ Cardinality(InFlight({p})') \in Nat
      /\ Cardinality(Requests) \in Nat
      /\ Cardinality(InFlight({p})') <= Cardinality(Requests)
  <2>1. InFlight({p})' \subseteq Requests
    BY DEF InFlight
  <2> QED
    BY <2>1, Shrink, RequestsAssumption
<1>3. CASE p \notin revoked'
  BY <1>3 DEF ExchangeBudget
<1>4. CASE p \in revoked' /\ p \notin revoked
  <2>1. Children(p)' = {}
    BY <1>4 DEF ExchangeBudget
  <2>2. IsFiniteSet(Children(p)') /\ Cardinality(Children(p)') = 0
    BY <2>1, FS_EmptySet
  <2> QED
    BY <1>2, <1>4, <2>2 DEF ExchangeBudget
<1>5. CASE p \in revoked
  <2>1. Cardinality(InFlight({p})') <= Cardinality(InFlight({p}))
    BY <1>1, <1>5, Shrink
  <2>2. Cardinality(Children(p)) \in Nat
    BY <1>5, FS_CardinalityType DEF ExchangeBudget
  <2>3. p \in revoked' /\ Cardinality(Children(p)') = Cardinality(Children(p))
    BY <1>5
  <2>4. /\ IsFiniteSet(Children(p)')
        /\ Cardinality(Children(p)) + Cardinality(InFlight({p}))
             <= Cardinality(Requests)
    BY <1>5 DEF ExchangeBudget
  <2>5. Cardinality(Children(p)') + Cardinality(InFlight({p})')
          <= Cardinality(Requests)
    BY <1>1, <1>2, <2>1, <2>2, <2>3, <2>4
  <2> QED
    BY <2>3, <2>4, <2>5 DEF ExchangeBudget
<1> QED
  BY <1>3, <1>4, <1>5

\* The step that mints a child of p: one request less, one child more.
LEMMA ExchangeMint ==
    ASSUME IInv, NEW r \in Requests, NEW t \in Tokens, RefreshMint(r, t),
           NEW p \in Tokens, p = presented[r], ExchangeBudget(p)
    PROVE  ExchangeBudget(p)'
<1>1. p \in revoked
  BY DEF RefreshMint, IInv, TypeOK, RequestsKnow, Issued
<1>2. Children(p)' = Children(p) \cup {t} /\ t \notin Children(p)
  BY DEF RefreshMint, GenerateTokenPair, Children, IInv, TypeOK,
         RowsConsistent, RequestsKnow, Issued
<1>3. InFlight({p})' = InFlight({p}) \ {r} /\ r \in InFlight({p})
  BY DEF RefreshMint, Finish, Goto, InFlight, IInv, TypeOK, Steps
<1>4. IsFiniteSet(Children(p)) /\ IsFiniteSet(InFlight({p}))
  BY <1>1, FiniteInFlight DEF ExchangeBudget
<1>5. /\ IsFiniteSet(Children(p)')
      /\ Cardinality(Children(p)') + Cardinality(InFlight({p})')
           = Cardinality(Children(p)) + Cardinality(InFlight({p}))
  <2>1. /\ IsFiniteSet(Children(p)')
        /\ Cardinality(Children(p)') = Cardinality(Children(p)) + 1
    BY <1>2, <1>4, FS_AddElement
  <2>2. Cardinality(InFlight({p})') = Cardinality(InFlight({p})) - 1
    BY <1>3, <1>4, FS_RemoveElement
  <2>3. Cardinality(Children(p)) \in Nat /\ Cardinality(InFlight({p})) \in Nat
    BY <1>4, FS_CardinalityType
  <2> QED
    BY <2>1, <2>2, <2>3
<1>6. p \in revoked'
  BY <1>1 DEF RefreshMint, GenerateTokenPair
<1> QED
  BY <1>1, <1>5, <1>6 DEF ExchangeBudget

LEMMA ExchangeStep ==
    ASSUME IInv, NEW p \in Tokens, ExchangeBudget(p), [Next]_vars
    PROVE  ExchangeBudget(p)'
<1> USE DEF IInv, TypeOK, Steps, Goto, Finish, rows, history, Issued
<1> DEFINE Quiet == /\ Children(p)' = Children(p)
                    /\ revoked \subseteq revoked'
                    /\ p \in revoked => InFlight({p})' \subseteq InFlight({p})
<1>1. ASSUME NEW u \in Users, NEW t \in Tokens, Login(u, t) PROVE Quiet
  BY <1>1 DEF Login, GenerateTokenPair, Children, InFlight, RowsConsistent
<1>2. ASSUME NEW r \in Requests, NEW t \in Tokens, RefreshLoad(r, t)
      PROVE  Quiet
  BY <1>2 DEF RefreshLoad, Children, InFlight
<1>3. ASSUME NEW r \in Requests, NEW t \in Tokens, LogoutLoad(r, t)
      PROVE  Quiet
  BY <1>3 DEF LogoutLoad, Children, InFlight
<1>4. ASSUME NEW r \in Requests, RefreshExpired(r) PROVE Quiet
  BY <1>4 DEF RefreshExpired, Children, InFlight
<1>5. ASSUME NEW r \in Requests, RefreshRotate(r) PROVE Quiet
  BY <1>5 DEF RefreshRotate, Children, InFlight
<1>6. ASSUME NEW r \in Requests, NEW t \in Tokens, RefreshMint(r, t),
             presented[r] # p
      PROVE  Quiet
  BY <1>6 DEF RefreshMint, GenerateTokenPair, Children, InFlight,
              RowsConsistent
<1>7. ASSUME NEW r \in Requests, RefreshPurge(r) PROVE Quiet
  BY <1>7 DEF RefreshPurge, TokensOf, Children, InFlight
<1>8. ASSUME NEW r \in Requests, LogoutRevoke(r) PROVE Quiet
  BY <1>8 DEF LogoutRevoke, Children, InFlight
<1>9. ASSUME NEW r \in Requests, Abandon(r) PROVE Quiet
  BY <1>9 DEF Abandon, Children, InFlight
<1>10. ASSUME NEW t \in Tokens, Expire(t) PROVE Quiet
  BY <1>10 DEF Expire, Children, InFlight
<1>11. CASE UNCHANGED vars
  <2>1. Quiet
    BY <1>11 DEF vars, Children, InFlight
  <2> QED
    BY <2>1, ExchangeQuiet
<1>12. ASSUME NEW r \in Requests, NEW t \in Tokens, RefreshMint(r, t)
       PROVE  ExchangeBudget(p)'
  <2>1. CASE presented[r] = p
    BY <1>12, <2>1, ExchangeMint
  <2>2. CASE presented[r] # p
    <3>1. Quiet
      BY <1>6, <1>12, <2>2
    <3> QED
      BY <3>1, ExchangeQuiet
  <2> QED
    BY <2>1, <2>2
<1>13. ASSUME Quiet PROVE ExchangeBudget(p)'
  BY <1>13, ExchangeQuiet
<1> HIDE DEF Quiet, IInv, TypeOK, Steps, Goto, Finish, rows, history
<1> QED
  BY <1>1, <1>2, <1>3, <1>4, <1>5, <1>7, <1>8, <1>9, <1>10, <1>11, <1>12, <1>13
  DEF Next, RequestStep

\* A refresh token is exchanged at most as many times as requests can run at
\* one time: once when they are served one by one.
THEOREM ExchangesAreBounded == Spec => []ExchangesBounded
<1> DEFINE Inv == \A p \in Tokens : ExchangeBudget(p)
<1>1. Init => Inv
  BY DEF Init, ExchangeBudget, Children
<1>2. IInv /\ Inv /\ [Next]_vars => Inv'
  BY ExchangeStep
<1>3. Inv => ExchangesBounded
  <2> SUFFICES ASSUME Inv, NEW p \in Tokens
               PROVE  Cardinality(Children(p)) <= Cardinality(Requests)
    BY DEF ExchangesBounded
  <2>1. Cardinality(Requests) \in Nat
    BY RequestsAssumption, FS_CardinalityType
  <2>2. CASE p \in revoked
    <3>1. /\ IsFiniteSet(Children(p))
          /\ Cardinality(Children(p)) + Cardinality(InFlight({p}))
               <= Cardinality(Requests)
      BY <2>2 DEF ExchangeBudget
    <3>2. Cardinality(Children(p)) \in Nat
      BY <3>1, FS_CardinalityType
    <3>3. Cardinality(InFlight({p})) \in Nat
      BY FiniteInFlight
    <3> QED
      BY <2>1, <3>1, <3>2, <3>3
  <2>3. CASE p \notin revoked
    <3>1. Children(p) = {}
      BY <2>3 DEF ExchangeBudget
    <3> QED
      BY <2>1, <3>1, FS_EmptySet
  <2> QED
    BY <2>2, <2>3
<1> QED
  BY <1>1, <1>2, <1>3, Invariance, PTL DEF Spec

-----------------------------------------------------------------------------
\* Tokens that escaped the purge of u and requests that may still add one.
EscapeBudget(u) ==
    purged[u] # {} =>
        /\ IsFiniteSet(Escaped(u))
        /\ Cardinality(Escaped(u)) + Cardinality(InFlight(purged[u]))
             < Cardinality(Requests)

\* Steps that leave the purge of u, and what escaped it, as they are.
LEMMA EscapeQuiet ==
    ASSUME NEW u \in Users, EscapeBudget(u),
           purged[u]' = purged[u], Escaped(u)' = Escaped(u),
           InFlight(purged[u])' \subseteq InFlight(purged[u])
    PROVE  EscapeBudget(u)'
<1> SUFFICES ASSUME purged[u] # {}
             PROVE  /\ IsFiniteSet(Escaped(u)')
                    /\ Cardinality(Escaped(u)') + Cardinality(InFlight(purged[u])')
                         < Cardinality(Requests)
  BY DEF EscapeBudget
<1>1. /\ IsFiniteSet(Escaped(u))
      /\ Cardinality(Escaped(u)) + Cardinality(InFlight(purged[u]))
           < Cardinality(Requests)
  BY DEF EscapeBudget
<1>2. Cardinality(Escaped(u)) \in Nat
  BY <1>1, FS_CardinalityType
<1>3. IsFiniteSet(InFlight(purged[u])) /\ Cardinality(Requests) \in Nat
  BY FiniteInFlight
<1>4. /\ Cardinality(InFlight(purged[u])') \in Nat
      /\ Cardinality(InFlight(purged[u])) \in Nat
      /\ Cardinality(InFlight(purged[u])') <= Cardinality(InFlight(purged[u]))
  BY <1>3, Shrink
<1>5. Cardinality(Escaped(u)') = Cardinality(Escaped(u))
  OBVIOUS
<1> QED
  BY <1>1, <1>2, <1>3, <1>4, <1>5

\* The purge itself: the request that purges is not one of those in flight.
LEMMA EscapePurge ==
    ASSUME IInv, NEW r \in Requests, RefreshPurge(r),
           NEW u \in Users, u = owner[presented[r]]
    PROVE  EscapeBudget(u)'
<1>1. purged[u]' = TokensOf(u)
  BY DEF RefreshPurge, IInv, TypeOK
<1>2. Escaped(u)' = {}
  BY <1>1 DEF RefreshPurge, Escaped, TokensOf, IInv, TypeOK, RowsConsistent,
              RotationConsumesParent
<1>3. InFlight(purged[u])' \subseteq Requests \ {r}
  BY DEF RefreshPurge, Finish, Goto, InFlight, IInv, TypeOK, Steps
<1>4. /\ IsFiniteSet(Requests \ {r})
      /\ Cardinality(Requests \ {r}) = Cardinality(Requests) - 1
  BY RequestsAssumption, FS_RemoveElement
<1>5. /\ Cardinality(InFlight(purged[u])') \in Nat
      /\ Cardinality(InFlight(purged[u])') <= Cardinality(Requests \ {r})
  BY <1>3, <1>4, Shrink
<1>6. IsFiniteSet(Escaped(u)') /\ Cardinality(Escaped(u)') = 0
  BY <1>2, FS_EmptySet
<1>7. Cardinality(Requests) \in Nat
  BY RequestsAssumption, FS_CardinalityType
<1> QED
  BY <1>4, <1>5, <1>6, <1>7 DEF EscapeBudget

\* A straggler mints: one request in flight less, one escaped token more.
LEMMA EscapeMint ==
    ASSUME IInv, NEW r \in Requests, NEW t \in Tokens, RefreshMint(r, t),
           NEW u \in Users, presented[r] \in purged[u], EscapeBudget(u)
    PROVE  EscapeBudget(u)'
<1> USE DEF IInv, TypeOK
<1>1. purged[u]' = purged[u] /\ purged[u] # {}
  BY DEF RefreshMint, GenerateTokenPair
<1>2. Escaped(u)' = Escaped(u) \cup {t} /\ t \notin Escaped(u)
  BY FreshToken DEF RefreshMint, GenerateTokenPair, Escaped, RowsConsistent,
                    Issued
<1>3. /\ InFlight(purged[u])' = InFlight(purged[u]) \ {r}
      /\ r \in InFlight(purged[u])
  BY DEF RefreshMint, GenerateTokenPair, Finish, Goto, InFlight, Steps
<1>4. /\ IsFiniteSet(Escaped(u)) /\ IsFiniteSet(InFlight(purged[u]))
      /\ Cardinality(Escaped(u)) + Cardinality(InFlight(purged[u]))
           < Cardinality(Requests)
  BY <1>1, FiniteInFlight DEF EscapeBudget
<1> HIDE DEF IInv, TypeOK
<1>5. /\ IsFiniteSet(Escaped(u)')
      /\ Cardinality(Escaped(u)') = Cardinality(Escaped(u)) + 1
  BY <1>2, <1>4, FS_AddElement
<1>6. Cardinality(InFlight(purged[u])') = Cardinality(InFlight(purged[u])) - 1
  <2>1. Cardinality(InFlight(purged[u]) \ {r})
          = Cardinality(InFlight(purged[u])) - 1
    BY <1>3, <1>4, FS_RemoveElement
  <2> QED
    BY <1>3, <2>1
<1>7. /\ Cardinality(Escaped(u)) \in Nat
      /\ Cardinality(InFlight(purged[u])) \in Nat
      /\ Cardinality(Requests) \in Nat
  BY <1>4, RequestsAssumption, FS_CardinalityType
<1>8. Cardinality(Escaped(u)') + Cardinality(InFlight(purged[u])')
        < Cardinality(Requests)
  BY <1>4, <1>5, <1>6, <1>7
<1> QED
  BY <1>5, <1>8 DEF EscapeBudget

LEMMA EscapeStep ==
    ASSUME IInv, NEW u \in Users, EscapeBudget(u), [Next]_vars
    PROVE  EscapeBudget(u)'
<1> USE DEF IInv, TypeOK, Steps, Goto, Finish, rows, history
<1> DEFINE Quiet == /\ purged[u]' = purged[u]
                    /\ Escaped(u)' = Escaped(u)
                    /\ InFlight(purged[u])' \subseteq InFlight(purged[u])
<1>1. ASSUME NEW v \in Users, NEW t \in Tokens, Login(v, t) PROVE Quiet
  BY <1>1 DEF Login, GenerateTokenPair, Escaped, InFlight, RowsConsistent,
              Issued
<1>2. ASSUME NEW r \in Requests, NEW t \in Tokens, RefreshLoad(r, t)
      PROVE  Quiet
  BY <1>2 DEF RefreshLoad, Escaped, InFlight, RowsConsistent
<1>3. ASSUME NEW r \in Requests, NEW t \in Tokens, LogoutLoad(r, t)
      PROVE  Quiet
  BY <1>3 DEF LogoutLoad, Escaped, InFlight
<1>4. ASSUME NEW r \in Requests, RefreshExpired(r) PROVE Quiet
  BY <1>4 DEF RefreshExpired, Escaped, InFlight
<1>5. ASSUME NEW r \in Requests, RefreshRotate(r) PROVE Quiet
  BY <1>5 DEF RefreshRotate, Escaped, InFlight
<1>6. ASSUME NEW r \in Requests, NEW t \in Tokens, RefreshMint(r, t)
      PROVE  EscapeBudget(u)'
  <2>1. CASE presented[r] \in purged[u]
    BY <1>6, <2>1, EscapeMint
  <2>2. CASE presented[r] \notin purged[u]
    <3>1. Quiet
      BY <1>6, <2>2, FreshToken
      DEF RefreshMint, GenerateTokenPair, Escaped, InFlight, RowsConsistent,
          Issued
    <3> QED
      BY <3>1, EscapeQuiet
  <2> QED
    BY <2>1, <2>2
<1>7. ASSUME NEW r \in Requests, RefreshPurge(r) PROVE EscapeBudget(u)'
  <2>1. CASE u = owner[presented[r]]
    BY <1>7, <2>1, EscapePurge
  <2>2. CASE u # owner[presented[r]]
    <3>1. Quiet
      BY <1>7, <2>2 DEF RefreshPurge, Escaped, InFlight
    <3> QED
      BY <3>1, EscapeQuiet
  <2> QED
    BY <2>1, <2>2
<1>8. ASSUME NEW r \in Requests, LogoutRevoke(r) PROVE Quiet
  BY <1>8 DEF LogoutRevoke, Escaped, InFlight
<1>9. ASSUME NEW r \in Requests, Abandon(r) PROVE Quiet
  BY <1>9 DEF Abandon, Escaped, InFlight
<1>10. ASSUME NEW t \in Tokens, Expire(t) PROVE Quiet
  BY <1>10 DEF Expire, Escaped, InFlight
<1>11. CASE UNCHANGED vars
  <2>1. Quiet
    BY <1>11 DEF vars, Escaped, InFlight
  <2> QED
    BY <2>1, EscapeQuiet
<1>12. ASSUME Quiet PROVE EscapeBudget(u)'
  BY <1>12, EscapeQuiet
<1> HIDE DEF Quiet, IInv, TypeOK, Steps, Goto, Finish, rows, history
<1> QED
  BY <1>1, <1>2, <1>3, <1>4, <1>5, <1>6, <1>7, <1>8, <1>9, <1>10, <1>11, <1>12
  DEF Next, RequestStep

\* When reuse is detected, the sessions of the user that outlive the purge
\* are fewer than the requests that can be in flight.
THEOREM PurgeEscapesAreBounded == Spec => []PurgeEscapeBounded
<1> DEFINE Inv == \A u \in Users : EscapeBudget(u)
<1>1. Init => Inv
  BY DEF Init, EscapeBudget
<1>2. IInv /\ Inv /\ [Next]_vars => Inv'
  BY EscapeStep
<1>3. Inv => PurgeEscapeBounded
  <2> SUFFICES ASSUME Inv, NEW u \in Users, purged[u] # {}
               PROVE  Cardinality(Escaped(u)) < Cardinality(Requests)
    BY DEF PurgeEscapeBounded
  <2>1. /\ IsFiniteSet(Escaped(u))
        /\ Cardinality(Escaped(u)) + Cardinality(InFlight(purged[u]))
             < Cardinality(Requests)
    BY DEF EscapeBudget
  <2>2. Cardinality(Escaped(u)) \in Nat
    BY <2>1, FS_CardinalityType
  <2>3. /\ Cardinality(InFlight(purged[u])) \in Nat
        /\ Cardinality(Requests) \in Nat
    BY FiniteInFlight
  <2> QED
    BY <2>1, <2>2, <2>3
<1> QED
  BY <1>1, <1>2, <1>3, Invariance, PTL DEF Spec

-----------------------------------------------------------------------------
\* What a request holds for one of its steps changes with that request only.
LEMMA HoldingStep ==
    ASSUME IInv, NEW r \in Requests, NEW step \in {"loaded", "rotated"},
           \A q \in Requests \ {r} : pc'[q] = pc[q] /\ presented'[q] = presented[q]
    PROVE  Holding(step)' = [Holding(step) EXCEPT ![r] =
               IF pc'[r] = step THEN presented'[r] ELSE None]
  BY DEF Holding

\* Every step of the service is a step of the specification of claims, or
\* leaves its variables alone, however many requests are under way.
LEMMA ClaimedStep ==
    ASSUME IInv, [Next]_vars
    PROVE  [Claimed!Next]_(Claimed!vars)
<1> DEFINE Loaded == Holding("loaded")
           Rotated == Holding("rotated")
           Same == root' = root /\ Live' = Live /\ Loaded' = Loaded /\ Rotated' = Rotated
           Others(r) == \A q \in Requests \ {r} :
                            pc'[q] = pc[q] /\ presented'[q] = presented[q]
           Moved(r) == /\ Loaded' = [Loaded EXCEPT ![r] =
                                       IF pc'[r] = "loaded" THEN presented'[r] ELSE None]
                       /\ Rotated' = [Rotated EXCEPT ![r] =
                                       IF pc'[r] = "rotated" THEN presented'[r] ELSE None]
<1>1. ASSUME NEW r \in Requests, Others(r) PROVE Moved(r)
  BY <1>1, HoldingStep
<1>2. /\ Loaded \in [Requests -> Tokens \cup {None}]
      /\ Rotated \in [Requests -> Tokens \cup {None}]
  BY DEF Holding, IInv, TypeOK
<1>3. \A r \in Requests :
        /\ Loaded[r] = IF pc[r] = "loaded" THEN presented[r] ELSE None
        /\ Rotated[r] = IF pc[r] = "rotated" THEN presented[r] ELSE None
  BY DEF Holding
<1>4. ASSUME NEW r \in Requests, pc[r] # "idle"
      PROVE  presented[r] \in Tokens /\ presented[r] # None /\ owner[presented[r]] # None
  BY <1>4 DEF IInv, TypeOK, RequestsKnow, Issued
<1> HIDE DEF Loaded, Rotated
<1> USE DEF IInv, TypeOK, Steps, Goto, Finish, rows, history, Issued, Live
<1>5. ASSUME NEW u \in Users, NEW t \in Tokens, Login(u, t)
      PROVE  Claimed!Open(t)
  <2>1. root[t] = None /\ t \notin revoked
    BY <1>5, FreshToken DEF Login, GenerateTokenPair, RowsConsistent
  <2>2. Loaded' = Loaded /\ Rotated' = Rotated
    BY <1>5 DEF Login, Loaded, Rotated, Holding
  <2> QED
    BY <1>5, <2>1, <2>2 DEF Login, GenerateTokenPair, Claimed!Open, Claimed!Issue,
                            Loaded, Rotated
<1>6. ASSUME NEW r \in Requests, NEW t \in Tokens, RefreshLoad(r, t)
      PROVE  Same \/ Claimed!Claim(r, t)
  <2>1. Moved(r)
    BY <1>1, <1>6 DEF RefreshLoad
  <2>2. /\ Loaded[r] = None /\ Rotated[r] = None
        /\ root' = root /\ Live' = Live
    BY <1>3, <1>6 DEF RefreshLoad
  <2>3. CASE t \in revoked
    <3>1. pc'[r] = "reuse"
      BY <1>6, <2>3 DEF RefreshLoad
    <3> QED
      BY <1>2, <2>1, <2>2, <3>1
  <2>4. CASE t \notin revoked
    <3>1. pc'[r] = "loaded" /\ presented'[r] = t /\ t \in Live
      BY <1>6, <2>4 DEF RefreshLoad
    <3>2. Loaded' = [Loaded EXCEPT ![r] = t] /\ Rotated' = Rotated
      BY <1>2, <2>1, <2>2, <3>1
    <3> QED
      BY <2>2, <3>1, <3>2 DEF Claimed!Claim, Loaded, Rotated
  <2> QED
    BY <2>3, <2>4
<1>7. ASSUME NEW r \in Requests, NEW t \in Tokens, LogoutLoad(r, t)
      PROVE  Same
  <2>1. Moved(r)
    BY <1>1, <1>7 DEF LogoutLoad
  <2>2. /\ Loaded[r] = None /\ Rotated[r] = None /\ pc'[r] = "logout"
        /\ root' = root /\ Live' = Live
    BY <1>3, <1>7 DEF LogoutLoad
  <2> QED
    BY <1>2, <2>1, <2>2
<1>8. ASSUME NEW r \in Requests, RefreshRotate(r)
      PROVE  Claimed!Consume(r)
  <2>1. Moved(r)
    BY <1>1, <1>8 DEF RefreshRotate
  <2>2. /\ Loaded[r] = presented[r] /\ presented[r] # None
        /\ pc'[r] = "rotated" /\ presented'[r] = presented[r]
    BY <1>3, <1>4, <1>8 DEF RefreshRotate
  <2>3. root' = root /\ Live' = Live \ {presented[r]}
    BY <1>8 DEF RefreshRotate
  <2>4. /\ Loaded' = [Loaded EXCEPT ![r] = None]
        /\ Rotated' = [Rotated EXCEPT ![r] = Loaded[r]]
    BY <2>1, <2>2
  <2> QED
    BY <2>2, <2>3, <2>4 DEF Claimed!Consume, Loaded, Rotated
<1>9. ASSUME NEW r \in Requests, NEW t \in Tokens, RefreshMint(r, t)
      PROVE  Claimed!Reissue(r, t)
  <2>1. Moved(r)
    BY <1>1, <1>9 DEF RefreshMint
  <2>2. /\ Rotated[r] = presented[r] /\ presented[r] # None /\ Loaded[r] = None
        /\ pc'[r] = "idle"
    BY <1>3, <1>4, <1>9 DEF RefreshMint
  <2>3. Loaded' = Loaded /\ Rotated' = [Rotated EXCEPT ![r] = None]
    BY <1>2, <2>1, <2>2
  <2>4. presented[r] \in Tokens /\ owner[presented[r]] # None
        /\ root[t] = None /\ t \notin revoked
    BY <1>4, <1>9, FreshToken DEF RefreshMint, GenerateTokenPair, RowsConsistent
  <2>5. root' = [root EXCEPT ![t] = root[presented[r]]] /\ Live' = Live \cup {t}
    BY <1>9, <2>2, <2>4 DEF RefreshMint, GenerateTokenPair
  <2> QED
    BY <2>2, <2>3, <2>4, <2>5 DEF Claimed!Reissue, Claimed!Issue, Loaded, Rotated
<1>10. ASSUME NEW r \in Requests, RefreshPurge(r) \/ LogoutRevoke(r)
       PROVE  \E S \in SUBSET Tokens : Claimed!Close(S)
  <2>1. Moved(r)
    BY <1>1, <1>10 DEF RefreshPurge, LogoutRevoke
  <2>2. Loaded[r] = None /\ Rotated[r] = None /\ pc'[r] = "idle"
    BY <1>3, <1>10 DEF RefreshPurge, LogoutRevoke
  <2>3. Loaded' = Loaded /\ Rotated' = Rotated
    BY <1>2, <2>1, <2>2
  <2>4. PICK S \in SUBSET Tokens : revoked' = revoked \cup S /\ UNCHANGED <<owner, root>>
    <3>1. {presented[r]} \in SUBSET Tokens /\ TokensOf(owner[presented[r]]) \in SUBSET Tokens
      BY <1>4, <1>10 DEF TokensOf, RefreshPurge, LogoutRevoke
    <3> QED
      BY <1>10, <3>1 DEF RefreshPurge, LogoutRevoke
  <2>5. Claimed!Close(S)
    BY <2>3, <2>4 DEF Claimed!Close, Loaded, Rotated
  <2> QED
    BY <2>5
<1>11. ASSUME NEW r \in Requests, RefreshExpired(r) \/ Abandon(r)
       PROVE  Claimed!Drop(r)
  <2>1. Moved(r)
    BY <1>1, <1>11 DEF RefreshExpired, Abandon
  <2>2. pc'[r] = "idle" /\ root' = root /\ Live' = Live
    BY <1>11 DEF RefreshExpired, Abandon
  <2>3. Loaded' = [Loaded EXCEPT ![r] = None] /\ Rotated' = [Rotated EXCEPT ![r] = None]
    BY <2>1, <2>2
  <2> QED
    BY <2>2, <2>3 DEF Claimed!Drop, Loaded, Rotated
<1>12. ASSUME NEW t \in Tokens, Expire(t) PROVE Same
  BY <1>12 DEF Expire, Loaded, Rotated, Holding
<1>13. CASE UNCHANGED vars
  BY <1>13 DEF vars, Loaded, Rotated, Holding, Claimed!vars
<1>14. ASSUME Same PROVE UNCHANGED Claimed!vars
  BY <1>14 DEF Claimed!vars, Loaded, Rotated
<1> HIDE DEF Same, IInv, TypeOK, Steps, Goto, Finish, rows, history, Issued, Live
<1> QED
  BY <1>5, <1>6, <1>7, <1>8, <1>9, <1>10, <1>11, <1>12, <1>13, <1>14
  DEF Next, RequestStep, Claimed!Next

\* Rotation, for any number of overlapping requests: a token gives a successor
\* only to a request that read it live, one to each, in the chain of the same
\* login; after an exchange, a logout or a purge nobody reads it live again.
THEOREM ClaimsAreKept == Spec => ImplementsClaimed
<1>1. Init => Claimed!Init
  BY DEF Init, Claimed!Init, Live, Issued, Holding
<1>2. IInv /\ [Next]_vars => [Claimed!Next]_(Claimed!vars)
  BY ClaimedStep
<1> QED
  BY <1>1, <1>2, Invariance, PTL DEF Spec, ImplementsClaimed, Claimed!Spec

\* One request at a time, as from a client that waits for every answer.
Sequential == \A q, r \in Requests : q = r

\* Nobody revokes a token between its SELECT and its UPDATE.
LoadedIsLive == \A r \in Requests : pc[r] = "loaded" => presented[r] \notin revoked

LEMMA LoadedStep ==
    ASSUME Sequential, IInv, LoadedIsLive, [Next]_vars
    PROVE  LoadedIsLive'
<1> USE DEF LoadedIsLive, IInv, TypeOK, Steps, Goto, Finish, rows, history
<1>1. ASSUME NEW u \in Users, NEW t \in Tokens, Login(u, t)
      PROVE  LoadedIsLive'
  BY <1>1 DEF Login, GenerateTokenPair
<1>2. ASSUME NEW r \in Requests, NEW t \in Tokens,
             RefreshLoad(r, t) \/ LogoutLoad(r, t)
      PROVE  LoadedIsLive'
  BY <1>2 DEF RefreshLoad, LogoutLoad
<1>3. ASSUME NEW r \in Requests, NEW t \in Tokens, RefreshMint(r, t)
      PROVE  LoadedIsLive'
  BY <1>3 DEF RefreshMint, GenerateTokenPair
<1>4. ASSUME NEW r \in Requests,
             \/ RefreshExpired(r) \/ RefreshRotate(r) \/ RefreshPurge(r)
             \/ LogoutRevoke(r) \/ Abandon(r)
      PROVE  LoadedIsLive'
  BY <1>4 DEF Sequential, RefreshExpired, RefreshRotate, RefreshPurge,
              LogoutRevoke, Abandon
<1>5. ASSUME NEW t \in Tokens, Expire(t) PROVE LoadedIsLive'
  BY <1>5 DEF Expire
<1>6. CASE UNCHANGED vars
  BY <1>6 DEF vars
<1> HIDE DEF LoadedIsLive, IInv, TypeOK, Steps, Goto, Finish, rows, history
<1> QED
  BY <1>1, <1>2, <1>3, <1>4, <1>5, <1>6 DEF Next, RequestStep

\* Every step of the service is a step of the single-use specification, or
\* leaves its variables alone.
LEMMA SingleUseStep ==
    ASSUME Sequential, IInv, LoadedIsLive, [Next]_vars
    PROVE  [SingleUse!Next]_(SingleUse!vars)
<1> USE DEF IInv, TypeOK, Steps, Goto, Finish, rows, history, Issued, Live
<1> DEFINE Same == root' = root /\ Live' = Live /\ Pending' = Pending
<1>1. ASSUME NEW u \in Users, NEW t \in Tokens, Login(u, t)
      PROVE  SingleUse!Open(t)
  <2>1. root[t] = None /\ t \notin revoked
    BY <1>1, FreshToken DEF Login, GenerateTokenPair, RowsConsistent
  <2> QED
    BY <1>1, <2>1 DEF Login, GenerateTokenPair, Pending, SingleUse!Open,
                      SingleUse!Issue
<1>2. ASSUME NEW r \in Requests, NEW t \in Tokens,
             RefreshLoad(r, t) \/ LogoutLoad(r, t)
      PROVE  Same
  BY <1>2 DEF RefreshLoad, LogoutLoad, Pending
<1>3. ASSUME NEW r \in Requests, RefreshExpired(r)
      PROVE  Same
  BY <1>3 DEF RefreshExpired, Pending
<1>4. ASSUME NEW r \in Requests, RefreshRotate(r)
      PROVE  SingleUse!Consume(presented[r])
  <2>1. presented[r] \in Live
    BY <1>4 DEF RefreshRotate, LoadedIsLive, RequestsKnow
  <2>2. Pending' = Pending \cup {presented[r]}
    BY <1>4 DEF RefreshRotate, Pending
  <2> QED
    BY <1>4, <2>1, <2>2 DEF RefreshRotate, SingleUse!Consume
<1>5. ASSUME NEW r \in Requests, NEW t \in Tokens, RefreshMint(r, t)
      PROVE  SingleUse!Reissue(presented[r], t)
  <2>1. Pending = {presented[r]} /\ Pending' = {}
    BY <1>5 DEF RefreshMint, Pending, Sequential
  <2>2. /\ presented[r] \in Tokens /\ presented[r] # None
        /\ root[t] = None /\ t \notin revoked
    BY <1>5, FreshToken DEF RefreshMint, GenerateTokenPair, RequestsKnow,
                            RowsConsistent
  <2>3. owner[presented[r]] # None
    BY <1>5 DEF RefreshMint, RequestsKnow
  <2> QED
    BY <1>5, <2>1, <2>2, <2>3
    DEF RefreshMint, GenerateTokenPair, SingleUse!Reissue, SingleUse!Issue
<1>6. ASSUME NEW r \in Requests, RefreshPurge(r)
      PROVE  SingleUse!Close(TokensOf(owner[presented[r]]))
  BY <1>6 DEF RefreshPurge, Pending, SingleUse!Close
<1>7. ASSUME NEW r \in Requests, LogoutRevoke(r)
      PROVE  SingleUse!Close({presented[r]})
  BY <1>7 DEF LogoutRevoke, Pending, SingleUse!Close
<1>8. ASSUME NEW r \in Requests, Abandon(r)
      PROVE  Same \/ SingleUse!Drop(presented[r])
  <2>1. CASE pc[r] = "rotated"
    <3>1. Pending = {presented[r]} /\ Pending' = {}
      BY <1>8, <2>1 DEF Abandon, Pending, Sequential
    <3> QED
      BY <1>8, <3>1 DEF Abandon, SingleUse!Drop
  <2>2. CASE pc[r] # "rotated"
    BY <1>8, <2>2 DEF Abandon, Pending
  <2> QED
    BY <2>1, <2>2
<1>9. ASSUME NEW t \in Tokens, Expire(t) PROVE Same
  BY <1>9 DEF Expire, Pending
<1>10. CASE UNCHANGED vars
  BY <1>10 DEF vars, Pending, SingleUse!vars
<1>11. ASSUME Same PROVE UNCHANGED SingleUse!vars
  BY <1>11 DEF SingleUse!vars
<1>12. ASSUME NEW r \in Requests, pc[r] # "idle" PROVE presented[r] \in Tokens
  BY <1>12 DEF RequestsKnow
<1>13. ASSUME NEW r \in Requests,
              \/ RefreshRotate(r) \/ RefreshPurge(r) \/ LogoutRevoke(r)
              \/ Abandon(r) \/ \E t \in Tokens : RefreshMint(r, t)
       PROVE  pc[r] # "idle"
  BY <1>13, FaultsAssumption DEF RefreshRotate, RefreshPurge, LogoutRevoke, Abandon, RefreshMint
<1>14. \A u : TokensOf(u) \in SUBSET Tokens
  BY DEF TokensOf
<1>15. \A t \in Tokens : {t} \in SUBSET Tokens
  OBVIOUS
<1> HIDE DEF Same, IInv, TypeOK, Steps, Goto, Finish, rows, history, Issued, Live
<1> QED
  BY <1>1, <1>2, <1>3, <1>4, <1>5, <1>6, <1>7, <1>8, <1>9, <1>10, <1>11,
     <1>12, <1>13, <1>14, <1>15
  DEF Next, RequestStep, SingleUse!Next

\* Served one request at a time, the service implements single-use tokens:
\* one successor per token, one live token per login, and none after logout.
THEOREM SequentialSingleUse ==
    ASSUME Sequential
    PROVE  Spec => ImplementsSingleUse
<1>1. Init => SingleUse!Init
  BY DEF Init, SingleUse!Init, Live, Issued, Pending
<1>2. Init => LoadedIsLive
  BY DEF Init, LoadedIsLive
<1>3. IInv /\ LoadedIsLive /\ [Next]_vars => LoadedIsLive'
  BY LoadedStep
<1>4. IInv /\ LoadedIsLive /\ [Next]_vars => [SingleUse!Next]_(SingleUse!vars)
  BY SingleUseStep
<1> QED
  BY <1>1, <1>2, <1>3, <1>4, Invariance, PTL
  DEF Spec, ImplementsSingleUse, SingleUse!Spec

-----------------------------------------------------------------------------
(***************************************************************************)
(* The gateway, for any groups, limit and durations.                       *)
(***************************************************************************)

\* A key that is gone counts nothing; one that both commands of a pipeline
\* have touched lives exactly until a window after it was last touched.
KeysAgree ==
    \A g \in Groups :
        /\ ttl[g] = 0 => count[g] = 0
        /\ whole[g] => ttl[g] = Window - quiet[g]

\* Whatever is recent was let in under the key that is still there, and each
\* under a number of its own.
WindowAgrees ==
    \A g \in Groups : \A p \in recent[g] :
        /\ p[2] <= Limit /\ p[2] <= count[g]
        /\ ttl[g] = Endless \/ ttl[g] >= Window - p[1]
        /\ \A q \in recent[g] : p[2] = q[2] => p = q

\* since counts from the last moment the user was an administrator.
FlagAgrees == admin => since = 0

\* How long ago that was, at most, when a claim that says administrator is
\* being signed or is still valid.
ClaimsAgree ==
    /\ read = "admin" => since <= age
    /\ life["admin"] > 0 => since <= Delay + TTL - life["admin"]

GatewayInv ==
    /\ GatewayTypeOK
    /\ KeysAgree
    /\ WindowAgrees
    /\ FlagAgrees
    /\ ClaimsAgree

\* The type invariant in its parts.
ClaimTypes ==
    /\ read \in Claims \cup {"none"}
    /\ age \in 0 .. Delay
    /\ life \in [Claims -> 0 .. TTL]
    /\ since \in 0 .. Forgotten

LimiterTypes ==
    /\ count \in [Groups -> 0 .. Limit + 1]
    /\ ttl \in [Groups -> 0 .. Window \cup {Endless}]
    /\ recent \in [Groups -> SUBSET ((0 .. Window - 1) \X (1 .. Limit + 1))]
    /\ quiet \in [Groups -> 0 .. Window]

OtherTypes ==
    /\ admin \in BOOLEAN
    /\ whole \in [Groups -> BOOLEAN]
    /\ link \in 0 .. Hours \cup {Endless}

ClaimsInv == ClaimTypes /\ FlagAgrees /\ ClaimsAgree
LimiterInv == LimiterTypes /\ KeysAgree /\ WindowAgrees

LEMMA GatewayInvParts == GatewayInv <=> ClaimsInv /\ LimiterInv /\ OtherTypes
  BY DEF GatewayInv, ClaimsInv, LimiterInv, GatewayTypeOK, ClaimTypes, LimiterTypes, OtherTypes

\* The parts after a step make the whole after it.
LEMMA GatewayInvPrime == ClaimsInv' /\ LimiterInv' /\ OtherTypes' => GatewayInv'
  BY DEF GatewayInv, ClaimsInv, LimiterInv, GatewayTypeOK, ClaimTypes, LimiterTypes, OtherTypes

LEMMA Bounds ==
    /\ Limit \in Nat /\ Limit > 0 /\ Window \in Nat /\ Window > 0
    /\ TTL \in Nat /\ TTL > 0 /\ Delay \in Nat /\ Hours \in Nat /\ Hours > 0
    /\ Forgotten = TTL + Delay + 1 /\ Endless = Window + Hours + TTL
  BY BoundsAssumption DEF Forgotten, Endless

\* The rate limiter only, or the claims only: no step but Tick touches both.
LEMMA LimiterUntouched ==
    LimiterInv /\ UNCHANGED <<keyVars, pastVars>> => LimiterInv'
  BY DEF LimiterInv, LimiterTypes, KeysAgree, WindowAgrees, keyVars, pastVars

LEMMA ClaimsUntouched == ClaimsInv /\ UNCHANGED tokenVars => ClaimsInv'
  BY DEF ClaimsInv, Claims, ClaimTypes, FlagAgrees, ClaimsAgree, tokenVars

LEMMA GatewayInitInv == GatewayInit => GatewayInv
<1> SUFFICES ASSUME GatewayInit PROVE GatewayInv
  OBVIOUS
<1>1. ClaimsInv
  <2>1. read = "none" /\ age = 0 /\ life = [claim \in Claims |-> 0] /\ since = Forgotten
    BY DEF GatewayInit
  <2>2. ~admin
    BY DEF GatewayInit
  <2>3. ClaimTypes /\ ClaimsAgree
    BY <2>1, Bounds DEF Claims, ClaimTypes, ClaimsAgree
  <2> QED
    BY <2>2, <2>3 DEF ClaimsInv, FlagAgrees
<1>2. LimiterInv
  <2>1. /\ count = [g \in Groups |-> 0] /\ ttl = [g \in Groups |-> 0]
        /\ recent = [g \in Groups |-> {}] /\ quiet = [g \in Groups |-> Window]
    BY DEF GatewayInit
  <2>2. LimiterTypes
    BY <2>1, Bounds DEF LimiterTypes
  <2>3. KeysAgree /\ WindowAgrees
    BY <2>1, Bounds DEF KeysAgree, WindowAgrees
  <2> QED
    BY <2>2, <2>3 DEF LimiterInv
<1>3. OtherTypes
  <2>1. admin \in BOOLEAN /\ whole \in [Groups -> BOOLEAN]
    BY DEF GatewayInit
  <2>2. link \in 0 .. Hours \cup {Endless}
    BY Bounds DEF GatewayInit
  <2> QED
    BY <2>1, <2>2 DEF OtherTypes
<1> QED
  BY <1>1, <1>2, <1>3, GatewayInvParts

-----------------------------------------------------------------------------
\* Claims: the operator, the SELECT of a user, and the signature. What is
\* known of a claim stays true when an administrator is made or unmade.
LEMMA OlderClaims ==
    ASSUME ClaimTypes, ClaimsAgree, UNCHANGED <<read, age, life>>,
           since' = 0 \/ since' = since
    PROVE  ClaimTypes' /\ ClaimsAgree'
  BY Bounds DEF Claims, ClaimTypes, ClaimsAgree

LEMMA SetAdminInv ==
    ASSUME ClaimsInv, NEW flag \in BOOLEAN, SetAdmin(flag)
    PROVE  ClaimsInv'
<1>1. /\ UNCHANGED <<read, age, life>>
      /\ since' = 0 \/ since' = since
  BY DEF SetAdmin
<1>2. ClaimTypes' /\ ClaimsAgree'
  BY <1>1, OlderClaims DEF ClaimsInv
<1>3. FlagAgrees'
  BY DEF ClaimsInv, FlagAgrees, SetAdmin
<1> QED
  BY <1>2, <1>3 DEF ClaimsInv

LEMMA IssueLoadInv == ClaimsInv /\ IssueLoad => ClaimsInv'
<1> SUFFICES ASSUME ClaimsInv, IssueLoad PROVE ClaimsInv'
  OBVIOUS
<1>1. /\ UNCHANGED <<life, since>> /\ age' = 0
      /\ read' \in {"user", "admin"}
      /\ read' = "admin" => since = 0
  BY DEF IssueLoad, ClaimsInv, FlagAgrees
<1>2. ClaimTypes' /\ ClaimsAgree'
  BY Bounds, <1>1 DEF ClaimsInv, Claims, ClaimTypes, ClaimsAgree
<1>3. FlagAgrees'
  BY DEF ClaimsInv, FlagAgrees, IssueLoad
<1> QED
  BY <1>2, <1>3 DEF ClaimsInv

LEMMA IssueSignInv == ClaimsInv /\ IssueSign => ClaimsInv'
<1> SUFFICES ASSUME ClaimsInv, IssueSign PROVE ClaimsInv'
  OBVIOUS
<1>1. /\ UNCHANGED since /\ read # "none" /\ read' = "none" /\ age' = 0
      /\ life' = [life EXCEPT ![read] = TTL]
  BY DEF IssueSign
<1>2. life'["admin"] = IF read = "admin" THEN TTL ELSE life["admin"]
  BY <1>1 DEF ClaimsInv, Claims, ClaimTypes
<1>3. ClaimTypes'
  BY Bounds, <1>1 DEF ClaimsInv, Claims, ClaimTypes
<1>4. ClaimsAgree'
  BY Bounds, <1>1, <1>2 DEF ClaimsInv, Claims, ClaimTypes, ClaimsAgree
<1>5. FlagAgrees'
  BY DEF ClaimsInv, FlagAgrees, IssueSign
<1> QED
  BY <1>3, <1>4, <1>5 DEF ClaimsInv

-----------------------------------------------------------------------------
\* None of these touches the limiter or the link.
LEMMA ClaimsKept ==
    ASSUME GatewayInv,
           (\E flag \in BOOLEAN : SetAdmin(flag)) \/ IssueLoad \/ IssueSign
    PROVE  GatewayInv'
<1>1. ClaimsInv'
  BY SetAdminInv, IssueLoadInv, IssueSignInv, GatewayInvParts
<1>2. UNCHANGED <<keyVars, pastVars, whole, link>> /\ admin' \in BOOLEAN
  BY GatewayInvParts DEF SetAdmin, IssueLoad, IssueSign, pastVars, OtherTypes
<1>3. LimiterInv'
  BY <1>2, LimiterUntouched, GatewayInvParts
<1>4. OtherTypes'
  BY <1>2, GatewayInvParts DEF OtherTypes
<1> QED
  BY <1>1, <1>3, <1>4, GatewayInvPrime

-----------------------------------------------------------------------------
\* The limiter.  A key that is touched lives as long as before, or longer, and
\* its counter goes up by one, or stays where every request is refused.
LEMMA TouchInv ==
    ASSUME LimiterInv, whole \in [Groups -> BOOLEAN],
           NEW g \in Groups, NEW lifetime, NEW complete \in BOOLEAN, Touch(g, lifetime, complete),
           \/ lifetime = Window
           \/ lifetime = Unexpired(g) /\ ~complete,
           \/ UNCHANGED recent
           \/ /\ ~Refused(Incr(g)) /\ lifetime = Window
              /\ recent' = [recent EXCEPT ![g] = @ \cup {<<0, Incr(g)>>}]
    PROVE  LimiterInv'
<1>1. /\ count \in [Groups -> 0 .. Limit + 1] /\ count[g] \in 0 .. Limit + 1
      /\ ttl \in [Groups -> 0 .. Window \cup {Endless}]
      /\ ttl[g] \in 0 .. Window \cup {Endless}
      /\ recent \in [Groups -> SUBSET ((0 .. Window - 1) \X (1 .. Limit + 1))]
      /\ quiet \in [Groups -> 0 .. Window]
  BY DEF LimiterInv, LimiterTypes
<1>2. /\ Incr(g) \in 1 .. Limit + 1 /\ Incr(g) >= count[g]
      /\ ~Refused(Incr(g)) => Incr(g) = count[g] + 1 /\ Incr(g) <= Limit
  BY <1>1, Bounds DEF Incr, AtMost, Refused
<1>3. lifetime \in (1 .. Window) \cup {Endless}
  BY <1>1, Bounds DEF Unexpired
<1>4. count' = [count EXCEPT ![g] = Incr(g)] /\ ttl' = [ttl EXCEPT ![g] = lifetime]
  BY DEF Touch
<1>5. quiet' = [quiet EXCEPT ![g] = 0] /\ whole' = [whole EXCEPT ![g] = complete]
  BY DEF Touch
<1>6. recent' \in [Groups -> SUBSET ((0 .. Window - 1) \X (1 .. Limit + 1))]
  <2>1. <<0, Incr(g)>> \in (0 .. Window - 1) \X (1 .. Limit + 1)
    BY <1>2, Bounds
  <2> QED
    BY <1>1, <2>1
<1>7. LimiterTypes'
  <2>1. count' \in [Groups -> 0 .. Limit + 1]
    BY <1>1, <1>2, <1>4, Bounds
  <2>2. ttl' \in [Groups -> 0 .. Window \cup {Endless}]
    BY <1>1, <1>3, <1>4, Bounds
  <2>3. quiet' \in [Groups -> 0 .. Window]
    BY <1>1, <1>5, Bounds
  <2> QED
    BY <1>6, <2>1, <2>2, <2>3 DEF LimiterTypes
<1>8. KeysAgree'
  <2> SUFFICES ASSUME NEW h \in Groups
               PROVE  /\ ttl'[h] = 0 => count'[h] = 0
                      /\ whole'[h] => ttl'[h] = Window - quiet'[h]
    BY DEF KeysAgree
  <2>1. CASE h # g
    BY <1>1, <1>4, <1>5, <2>1 DEF LimiterInv, KeysAgree
  <2>2. CASE h = g
    <3>1. ttl'[g] = lifetime /\ quiet'[g] = 0 /\ lifetime # 0
      BY <1>1, <1>3, <1>4, <1>5, Bounds
    <3>2. whole'[g] => lifetime = Window
      BY <1>5
    <3>3. Window - 0 = Window
      BY Bounds
    <3> QED
      BY <2>2, <3>1, <3>2, <3>3
  <2> QED
    BY <2>1, <2>2
<1>9. WindowAgrees'
  <2> SUFFICES ASSUME NEW h \in Groups, NEW p \in recent'[h]
               PROVE  /\ p[2] <= Limit /\ p[2] <= count'[h]
                      /\ ttl'[h] = Endless \/ ttl'[h] >= Window - p[1]
                      /\ \A q \in recent'[h] : p[2] = q[2] => p = q
    BY DEF WindowAgrees
  <2>1. CASE h # g
    BY <1>1, <1>4, <2>1 DEF LimiterInv, WindowAgrees
  <2>2. ASSUME h = g, p \in recent[g]
        PROVE  /\ p[1] \in 0 .. Window - 1 /\ p[2] \in 1 .. Limit + 1
               /\ p[2] <= Limit /\ p[2] <= count[g] /\ p[2] <= count'[g]
               /\ ttl'[g] = Endless \/ ttl'[g] >= Window - p[1]
               /\ \A q \in recent[g] : p[2] = q[2] => p = q
    <3>1. p[1] \in 0 .. Window - 1 /\ p[2] \in 1 .. Limit + 1
      BY <1>1, <2>2
    <3>2. /\ p[2] <= Limit /\ p[2] <= count[g]
          /\ ttl[g] = Endless \/ ttl[g] >= Window - p[1]
          /\ \A q \in recent[g] : p[2] = q[2] => p = q
      BY <2>2 DEF LimiterInv, WindowAgrees
    <3>3. lifetime = Window \/ lifetime = ttl[g]
      BY <3>1, <3>2, Bounds DEF Unexpired
    <3>4. count'[g] = Incr(g) /\ ttl'[g] = lifetime
      BY <1>1, <1>4
    <3> QED
      BY <1>1, <1>2, <3>1, <3>2, <3>3, <3>4, Bounds
  <2>3. CASE h = g
    <3>1. recent'[g] = recent[g] \/ /\ recent'[g] = recent[g] \cup {<<0, Incr(g)>>}
                                    /\ lifetime = Window /\ ~Refused(Incr(g))
      BY <1>1
    <3>2. ttl'[g] = lifetime /\ count'[g] = Incr(g)
      BY <1>1, <1>4
    <3>3. \A q \in recent[g] : q[2] \in 1 .. Limit + 1 /\ q[2] <= count[g]
      BY <1>1 DEF LimiterInv, WindowAgrees
    <3>4. CASE p \in recent[g]
      <4>1. \A q \in recent'[h] \ recent[g] : q = <<0, Incr(g)>> /\ Incr(g) = count[g] + 1
        BY <1>2, <2>3, <3>1
      <4>2. \A q \in recent'[h] \ recent[g] : p[2] # q[2]
        BY <1>1, <3>3, <3>4, <4>1
      <4> QED
        BY <2>2, <2>3, <3>4, <4>2
    <3>5. CASE p \notin recent[g]
      <4>1. p = <<0, Incr(g)>> /\ Incr(g) = count[g] + 1 /\ Incr(g) <= Limit
            /\ recent'[g] = recent[g] \cup {p} /\ lifetime = Window
        BY <1>2, <2>3, <3>1, <3>5
      <4>2. \A q \in recent[g] : q[2] # p[2]
        BY <1>1, <3>3, <4>1
      <4> QED
        BY <1>1, <1>2, <2>3, <3>2, <4>1, <4>2, Bounds
    <3> QED
      BY <3>4, <3>5
  <2> QED
    BY <2>1, <2>3
<1> QED
  BY <1>7, <1>8, <1>9 DEF LimiterInv

-----------------------------------------------------------------------------
\* A request is counted, or fails open after any part of the pipeline.
LEMMA RequestsInv ==
    ASSUME GatewayInv, NEW g \in Groups, Limited(g) \/ FailOpen(g)
    PROVE  GatewayInv'
<1>1. ClaimsInv /\ LimiterInv /\ OtherTypes /\ whole \in [Groups -> BOOLEAN]
  BY GatewayInvParts DEF OtherTypes
<1>2. UNCHANGED <<tokenVars, link>>
  BY DEF Limited, FailOpen
<1>3. LimiterInv'
  <2>1. CASE Limited(g)
    BY <1>1, <2>1, TouchInv DEF Limited, Expiry
  <2>2. CASE FailOpen(g)
    <3>1. CASE UNCHANGED <<keyVars, quiet, whole>>
      BY <1>1, <2>2, <3>1, LimiterUntouched DEF FailOpen, pastVars
    <3>2. CASE Touch(g, Unexpired(g), FALSE)
      BY <1>1, <2>2, <3>2, TouchInv DEF FailOpen
    <3>3. CASE Touch(g, Expiry(g), TRUE)
      BY <1>1, <2>2, <3>3, TouchInv DEF FailOpen, Expiry
    <3> QED
      BY <2>2, <3>1, <3>2, <3>3 DEF FailOpen
  <2> QED
    BY <2>1, <2>2
<1>4. whole' = whole \/ \E complete \in BOOLEAN : whole' = [whole EXCEPT ![g] = complete]
  BY DEF Limited, FailOpen, Touch
<1>5. OtherTypes'
  BY <1>1, <1>2, <1>4 DEF OtherTypes, tokenVars
<1> QED
  BY <1>1, <1>2, <1>3, <1>5, ClaimsUntouched, GatewayInvPrime DEF tokenVars

LEMMA ShareInv ==
    ASSUME GatewayInv, NEW hours \in {0, Hours}, HandleShare(hours)
    PROVE  GatewayInv'
<1>1. ClaimsInv /\ LimiterInv /\ OtherTypes
  BY GatewayInvParts
<1>2. /\ UNCHANGED <<tokenVars, keyVars, pastVars>>
      /\ link' \in 0 .. Hours \cup {Endless}
  BY Bounds DEF HandleShare, GenerateShareToken, GrantTokenAccess
<1>3. OtherTypes'
  BY <1>1, <1>2 DEF OtherTypes, tokenVars, pastVars
<1> QED
  BY <1>1, <1>2, <1>3, ClaimsUntouched, LimiterUntouched, GatewayInvPrime

-----------------------------------------------------------------------------
\* A tick.
LEMMA TickClaims == ClaimsInv /\ Tick => ClaimsInv'
<1> SUFFICES ASSUME ClaimsInv, Tick PROVE ClaimsInv'
  OBVIOUS
<1>1. /\ read # "none" => age < Delay
      /\ age' = IF read = "none" THEN 0 ELSE age + 1
      /\ life' = [claim \in Claims |-> Older(life[claim])]
      /\ since' = 0 \/ since' = AtMost(since + 1, Forgotten)
      /\ UNCHANGED read
  BY DEF Tick
<1>2. \A n \in 0 .. TTL : Older(n) = IF n = 0 THEN 0 ELSE n - 1
  BY Bounds DEF Older
<1>3. since \in 0 .. Forgotten => AtMost(since + 1, Forgotten) \in 0 .. Forgotten
                                /\ AtMost(since + 1, Forgotten) <= since + 1
  BY Bounds DEF AtMost
<1>4. ClaimTypes' /\ ClaimsAgree'
  <2>1. ClaimTypes /\ ClaimsAgree
    BY DEF ClaimsInv
  <2>2. since' \in 0 .. Forgotten /\ since' <= since + 1
    BY <1>1, <1>3, <2>1, Bounds DEF ClaimTypes
  <2>3. life' \in [Claims -> 0 .. TTL] /\ life'["admin"] = Older(life["admin"])
    BY <1>1, <1>2, <2>1, Bounds DEF ClaimTypes, Claims
  <2>4. age' \in 0 .. Delay
    BY <1>1, <2>1, Bounds DEF ClaimTypes
  <2>5. life'["admin"] > 0 => since' <= Delay + TTL - life'["admin"]
    BY <1>2, <2>1, <2>2, <2>3, Bounds DEF ClaimTypes, ClaimsAgree, Claims
  <2>6. read' = "admin" => since' <= age'
    BY <1>1, <2>1, <2>2, Bounds DEF ClaimTypes, ClaimsAgree
  <2> QED
    BY <1>1, <2>1, <2>2, <2>3, <2>4, <2>5, <2>6 DEF ClaimTypes, ClaimsAgree
<1>5. FlagAgrees'
  BY DEF Tick, FlagAgrees
<1> QED
  BY <1>4, <1>5 DEF ClaimsInv

LEMMA TickLimiter == LimiterInv /\ Tick => LimiterInv'
<1> SUFFICES ASSUME LimiterInv, Tick PROVE LimiterInv'
  OBVIOUS
<1>1. LimiterTypes /\ KeysAgree /\ WindowAgrees
  BY DEF LimiterInv
<1>2. /\ ttl' = [g \in Groups |-> Older(ttl[g])]
      /\ count' = [g \in Groups |-> IF ttl'[g] = 0 THEN 0 ELSE count[g]]
      /\ recent' = [g \in Groups |-> Aged(recent[g])]
      /\ quiet' = [g \in Groups |-> AtMost(quiet[g] + 1, Window)]
      /\ UNCHANGED whole
  BY DEF Tick
<1>3. ASSUME NEW g \in Groups
      PROVE  /\ ttl[g] \in 0 .. Window \cup {Endless} /\ quiet[g] \in 0 .. Window
             /\ count[g] \in 0 .. Limit + 1
             /\ ttl'[g] \in 0 .. Window \cup {Endless} /\ quiet'[g] \in 0 .. Window
             /\ ttl'[g] = IF ttl[g] = 0 \/ ttl[g] = Endless THEN ttl[g] ELSE ttl[g] - 1
             /\ quiet'[g] = IF quiet[g] = Window THEN Window ELSE quiet[g] + 1
  BY <1>1, <1>2, Bounds DEF LimiterTypes, Older, AtMost
<1>4. ASSUME NEW g \in Groups, NEW p \in recent'[g]
      PROVE  \E q \in recent[g] :
               /\ p = <<q[1] + 1, q[2]>> /\ q[1] + 1 < Window
               /\ q[1] \in 0 .. Window - 1 /\ q[2] \in 1 .. Limit + 1
  <2>1. recent[g] \in SUBSET ((0 .. Window - 1) \X (1 .. Limit + 1))
    BY <1>1 DEF LimiterTypes
  <2>2. recent'[g] = Aged(recent[g])
    BY <1>2
  <2>3. PICK q \in recent[g] : p = <<q[1] + 1, q[2]>> /\ q[1] + 1 < Window
    BY <2>2 DEF Aged
  <2> QED
    BY <2>1, <2>3
<1>5. LimiterTypes'
  <2>1. ttl' \in [Groups -> 0 .. Window \cup {Endless}] /\ quiet' \in [Groups -> 0 .. Window]
    BY <1>2, <1>3
  <2>2. count' \in [Groups -> 0 .. Limit + 1]
    BY <1>2, <1>3, Bounds
  <2>3. ASSUME NEW g \in Groups, NEW p \in recent'[g]
        PROVE  p \in (0 .. Window - 1) \X (1 .. Limit + 1)
    BY <1>4, <2>3, Bounds
  <2>4. recent' \in [Groups -> SUBSET ((0 .. Window - 1) \X (1 .. Limit + 1))]
    BY <1>2, <2>3
  <2> QED
    BY <2>1, <2>2, <2>4 DEF LimiterTypes
<1>6. KeysAgree'
  <2> SUFFICES ASSUME NEW g \in Groups
               PROVE  /\ ttl'[g] = 0 => count'[g] = 0
                      /\ whole'[g] => ttl'[g] = Window - quiet'[g]
    BY DEF KeysAgree
  <2>1. ttl'[g] = 0 => count'[g] = 0
    BY <1>2
  <2>2. ASSUME whole'[g] PROVE ttl'[g] = Window - quiet'[g]
    <3>1. ttl[g] = Window - quiet[g]
      BY <1>1, <1>2, <2>2 DEF KeysAgree
    <3> QED
      BY <1>3, <3>1, Bounds
  <2> QED
    BY <2>1, <2>2
<1>7. WindowAgrees'
  <2> SUFFICES ASSUME NEW g \in Groups, NEW p \in recent'[g]
               PROVE  /\ p[2] <= Limit /\ p[2] <= count'[g]
                      /\ ttl'[g] = Endless \/ ttl'[g] >= Window - p[1]
                      /\ \A q \in recent'[g] : p[2] = q[2] => p = q
    BY DEF WindowAgrees
  <2>1. PICK q \in recent[g] :
          /\ p = <<q[1] + 1, q[2]>> /\ q[1] + 1 < Window
          /\ q[1] \in 0 .. Window - 1 /\ q[2] \in 1 .. Limit + 1
    BY <1>4
  <2>2. /\ q[2] <= Limit /\ q[2] <= count[g]
        /\ ttl[g] = Endless \/ ttl[g] >= Window - q[1]
        /\ \A z \in recent[g] : q[2] = z[2] => q = z
    BY <1>1 DEF WindowAgrees
  <2>3. p[1] = q[1] + 1 /\ p[2] = q[2]
    BY <2>1
  <2>4. ttl'[g] = Endless \/ ttl'[g] >= Window - p[1]
    BY <1>3, <2>1, <2>2, <2>3, Bounds
  <2>5. count'[g] = count[g]
    BY <1>2, <1>3, <2>1, <2>3, <2>4, Bounds
  <2>6. ASSUME NEW z \in recent'[g], p[2] = z[2] PROVE p = z
    <3>1. PICK y \in recent[g] : z = <<y[1] + 1, y[2]>>
      BY <1>4
    <3>2. y[2] = q[2]
      BY <2>3, <2>6, <3>1
    <3>3. q = y
      BY <2>2, <3>1, <3>2
    <3> QED
      BY <2>1, <3>1, <3>3
  <2> QED
    BY <2>2, <2>3, <2>4, <2>5, <2>6
<1> QED
  BY <1>5, <1>6, <1>7 DEF LimiterInv

LEMMA TickInv == GatewayInv /\ Tick => GatewayInv'
<1> SUFFICES ASSUME GatewayInv, Tick PROVE GatewayInv'
  OBVIOUS
<1>1. OtherTypes'
  <2>1. admin' \in BOOLEAN /\ whole' \in [Groups -> BOOLEAN]
    BY GatewayInvParts DEF Tick, OtherTypes
  <2>2. link \in 0 .. Hours \cup {Endless} /\ link' = Older(link)
    BY GatewayInvParts DEF Tick, OtherTypes
  <2>3. link' \in 0 .. Hours \cup {Endless}
    BY <2>2, Bounds DEF Older
  <2> QED
    BY <2>1, <2>3 DEF OtherTypes
<1> QED
  BY <1>1, TickClaims, TickLimiter, GatewayInvParts, GatewayInvPrime

-----------------------------------------------------------------------------
\* Every step of the gateway.
LEMMA GatewayNextInv == GatewayInv /\ [GatewayNext]_gatewayVars => GatewayInv'
<1> SUFFICES ASSUME GatewayInv, [GatewayNext]_gatewayVars PROVE GatewayInv'
  OBVIOUS
<1>1. CASE UNCHANGED gatewayVars
  <2>1. UNCHANGED <<keyVars, tokenVars, link, pastVars>>
    BY <1>1 DEF gatewayVars
  <2>2. OtherTypes'
    BY <2>1, GatewayInvParts DEF OtherTypes, tokenVars, pastVars
  <2> QED
    BY <2>1, <2>2, ClaimsUntouched, LimiterUntouched, GatewayInvParts, GatewayInvPrime
<1> QED
  BY <1>1, ClaimsKept, RequestsInv, ShareInv, TickInv DEF GatewayNext

LEMMA GatewayInvariance == GatewaySpec => []GatewayInv
  BY GatewayInitInv, GatewayNextInv, PTL DEF GatewaySpec

-----------------------------------------------------------------------------
\* Every number stays in its range: no counter runs past one above the limit,
\* and no lifetime is longer than it was given.
THEOREM GatewayTypeCorrect == GatewaySpec => []GatewayTypeOK
<1>1. GatewayInv => GatewayTypeOK
  BY DEF GatewayInv
<1> QED
  BY <1>1, GatewayInvariance, PTL

\* What RateLimit lets in within any window of the clock does not exceed the
\* limit, whatever the groups, the limit and the length of the window.
THEOREM WindowsAreBounded == GatewaySpec => []SlidingWindowHolds
<1>1. GatewayInv => SlidingWindowHolds
  <2> SUFFICES ASSUME GatewayInv, NEW g \in Groups PROVE Cardinality(recent[g]) <= Limit
    BY DEF SlidingWindowHolds
  <2>1. recent[g] \in SUBSET ((0 .. Window - 1) \X (1 .. Limit + 1)) /\ WindowAgrees
    BY GatewayInvParts DEF LimiterInv, LimiterTypes
  <2>2. \A p \in recent[g] : p[2] \in 1 .. Limit
    BY <2>1, Bounds DEF WindowAgrees
  <2> DEFINE number == [p \in recent[g] |-> p[2]]
  <2>3. number \in Injection(recent[g], 1 .. Limit)
    <3>1. number \in [recent[g] -> 1 .. Limit]
      BY <2>2
    <3>2. \A p, q \in recent[g] : number[p] = number[q] => p = q
      BY <2>1 DEF WindowAgrees
    <3> HIDE DEF number
    <3> QED
      BY <3>1, <3>2 DEF Injection, IsInjective
  <2>4. IsFiniteSet(1 .. Limit) /\ Cardinality(1 .. Limit) = Limit
    BY Bounds, FS_Interval
  <2>5. Cardinality(recent[g]) <= Cardinality(1 .. Limit)
    BY <2>3, <2>4, FS_Injection
  <2> QED
    BY <2>4, <2>5
<1> QED
  BY <1>1, GatewayInvariance, PTL

\* The history counts every request let in: no two of them are the same pair.
AdmittedAreNew ==
    \A g \in Groups : Limited(g) /\ ~Refused(Incr(g)) => <<0, Incr(g)>> \notin recent[g]

\* So the size of recent is the number of requests the limiter let in.
THEOREM EveryAdmissionCounts == GatewaySpec => [][AdmittedAreNew]_gatewayVars
<1>1. GatewayInv => AdmittedAreNew
  <2> SUFFICES ASSUME GatewayInv, NEW g \in Groups, ~Refused(Incr(g)), <<0, Incr(g)>> \in recent[g]
               PROVE  FALSE
    BY DEF AdmittedAreNew
  <2>1. count[g] \in Nat /\ WindowAgrees
    BY Bounds, GatewayInvParts DEF LimiterInv, LimiterTypes
  <2>2. Incr(g) = count[g] + 1
    BY <2>1, Bounds DEF Incr, AtMost, Refused
  <2>3. <<0, Incr(g)>>[2] <= count[g]
    BY <2>1 DEF WindowAgrees
  <2> QED
    BY <2>1, <2>2, <2>3
<1> QED
  BY <1>1, GatewayInvariance, PTL DEF GatewaySpec

\* RateLimit does not keep out for ever whoever pauses for a window after an
\* answer: the key is gone by then.
THEOREM PausesReopen == GatewaySpec => []QuietKeysReopen
<1>1. GatewayInv => QuietKeysReopen
  BY Bounds DEF GatewayInv, KeysAgree, QuietKeysReopen
<1> QED
  BY <1>1, GatewayInvariance, PTL

\* AdminOnly lets nobody in who was no administrator for longer than a token
\* lives and takes to be signed.
THEOREM AdminsAreRecent == GatewaySpec => []StaleAdminExpires
<1>1. GatewayInv => StaleAdminExpires
  <2> SUFFICES ASSUME GatewayInv, Passes("admin") PROVE since < Forgotten
    BY DEF StaleAdminExpires
  <2>1. life["admin"] > 0
    BY DEF Passes, ValidateAccessToken
  <2>2. life["admin"] \in 0 .. TTL /\ since \in 0 .. Forgotten
        /\ since <= Delay + TTL - life["admin"]
    BY <2>1, GatewayInvParts DEF ClaimsInv, ClaimTypes, ClaimsAgree, Claims
  <2> QED
    BY <2>1, <2>2, Bounds
<1> QED
  BY <1>1, GatewayInvariance, PTL
=============================================================================
