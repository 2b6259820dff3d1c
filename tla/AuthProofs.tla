------------------------------ MODULE AuthProofs ------------------------------
(***************************************************************************)
(* The theorems on tokens and access, for every set of tokens, identities, *)
(* roles, patterns and paths, every quota and every lifetime.              *)
(*                                                                         *)
(* The token store (TokenStore): its types, its counters, its quota, and   *)
(* that it implements TokenLease.                                          *)
(*                                                                         *)
(* The access decision (Decision): the backtracking of matchSegments       *)
(* decides the reference definition Covers, and the path authorized is the *)
(* path fetched.                                                           *)
(*                                                                         *)
(* Logins (Login): every token in the store was earned.                    *)
(***************************************************************************)
EXTENDS Logins, AccessDecision, FiniteSetTheorems, SequenceTheorems, TLAPS

-------------------------------------------------------------------------------
(* The token store *)

\* The inductive invariant.  CountsMatchTokens alone is not inductive: without
\* the types a counter could be stored as zero and its removal would go
\* unnoticed, and cardinalities say nothing of a store that is not finite.
IInv ==
  /\ TypeOK
  /\ IsFiniteSet(DOMAIN byToken)
  /\ CountsMatchTokens

-------------------------------------------------------------------------------

\* Removing any set of stored tokens keeps the invariant: what deleteLocked
\* takes off a counter is what it takes out of the store.
LEMMA DeleteKeepsIInv ==
  ASSUME IInv, NEW gone \in SUBSET DOMAIN byToken, deleteLocked(gone), now' = now
  PROVE  IInv'
<1> DEFINE left == [k \in DOMAIN identityCnt |->
                      identityCnt[k] - Cardinality(Stored(k) \cap gone)]
<1>1. /\ byToken' = [t \in DOMAIN byToken \ gone |-> byToken[t]]
      /\ identityCnt' = [k \in {j \in DOMAIN left : left[j] > 0} |-> left[k]]
  BY DEF deleteLocked
<1>2. DOMAIN byToken' = DOMAIN byToken \ gone
  BY <1>1
<1>3. ASSUME NEW k
      PROVE  /\ IsFiniteSet(Stored(k))
             /\ Stored(k)' = Stored(k) \ (Stored(k) \cap gone)
             /\ Cardinality(Stored(k)) \in Nat
             /\ Cardinality(Stored(k) \cap gone) \in Nat
             /\ Cardinality(Stored(k)') \in Nat
             /\ Cardinality(Stored(k)') = Cardinality(Stored(k)) - Cardinality(Stored(k) \cap gone)
  <2>1. Stored(k) \subseteq DOMAIN byToken
    BY DEF Stored
  <2>2. IsFiniteSet(Stored(k))
    BY <2>1, FS_Subset DEF IInv
  <2>3. Stored(k)' = Stored(k) \ (Stored(k) \cap gone)
    BY <1>1, <1>2 DEF Stored
  <2>4. Stored(k) \cap (Stored(k) \cap gone) = Stored(k) \cap gone
    OBVIOUS
  <2>5. IsFiniteSet(Stored(k) \cap gone) /\ IsFiniteSet(Stored(k) \ (Stored(k) \cap gone))
    BY <2>2, FS_Difference, FS_Intersection
  <2>6. Cardinality(Stored(k) \ (Stored(k) \cap gone))
          = Cardinality(Stored(k)) - Cardinality(Stored(k) \cap gone)
    BY <2>2, <2>4, FS_Difference
  <2> QED
    BY <2>2, <2>3, <2>5, <2>6, FS_CardinalityType
<1>4. \A k \in DOMAIN identityCnt : left[k] = Cardinality(Stored(k)') /\ left[k] \in Nat
  BY <1>3 DEF IInv, TypeOK, CountsMatchTokens, Count
<1>5. TypeOK'
  <2>1. now' \in Nat
    BY DEF IInv, TypeOK
  <2>2. DOMAIN byToken' \subseteq Token /\ byToken' \in [DOMAIN byToken' -> Entry]
    BY <1>1, <1>2 DEF IInv, TypeOK
  <2>3. DOMAIN identityCnt' = {j \in DOMAIN identityCnt : left[j] > 0}
    BY <1>1
  <2>4. DOMAIN identityCnt' \subseteq Key
    BY <2>3 DEF IInv, TypeOK
  <2>5. identityCnt' \in [DOMAIN identityCnt' -> Nat \ {0}]
    BY <1>1, <1>4, <2>3
  <2> QED
    BY <2>1, <2>2, <2>4, <2>5 DEF TypeOK
<1>6. IsFiniteSet(DOMAIN byToken)'
  BY <1>2, FS_Difference DEF IInv
<1>7. CountsMatchTokens'
  <2> SUFFICES ASSUME NEW k \in Key
               PROVE  Count(k)' = Cardinality(Stored(k)')
    BY DEF CountsMatchTokens
  <2>1. CASE k \in DOMAIN identityCnt
    BY <2>1, <1>1, <1>4 DEF Count
  <2>2. CASE k \notin DOMAIN identityCnt
    <3>1. Cardinality(Stored(k)) = 0
      BY <2>2 DEF IInv, CountsMatchTokens, Count
    <3>2. Cardinality(Stored(k)') = 0
      <4>1. /\ Cardinality(Stored(k) \cap gone) \in Nat
            /\ Cardinality(Stored(k)') \in Nat
            /\ Cardinality(Stored(k)') = Cardinality(Stored(k)) - Cardinality(Stored(k) \cap gone)
        BY <1>3
      <4> QED
        BY <3>1, <4>1
    <3>3. k \notin DOMAIN identityCnt'
      BY <2>2, <1>1
    <3> QED
      BY <3>2, <3>3 DEF Count
  <2> QED
    BY <2>1, <2>2
<1> QED
  BY <1>5, <1>6, <1>7 DEF IInv

\* Issuing one token keeps the invariant.
LEMMA IssueKeepsIInv ==
  ASSUME IInv,
         NEW token \in Token, NEW identity \in Identity, NEW ttl \in TTL,
         IssueToken(token, identity, ttl)
  PROVE  IInv'
<1> DEFINE key == identityKey(identity)
           entry == [identity |-> identity, createdAt |-> now, expiresAt |-> now + ttl]
<1>1. /\ token \notin DOMAIN byToken
      /\ byToken' = [t \in DOMAIN byToken \cup {token} |->
                       IF t = token THEN entry ELSE byToken[t]]
      /\ identityCnt' = [k \in DOMAIN identityCnt \cup {key} |->
                           IF k = key THEN Count(key) + 1 ELSE identityCnt[k]]
      /\ now' = now
  BY DEF IssueToken
<1>2. key \in Key
  BY DEF Identity, Key, identityKey
<1>3. entry \in Entry
  BY TokenStoreAssumption DEF Entry, IInv, TypeOK
<1>4. Count(key) \in Nat
  BY DEF IInv, TypeOK, Count
<1>5. TypeOK'
  <2>1. DOMAIN byToken' \subseteq Token /\ byToken' \in [DOMAIN byToken' -> Entry]
    BY <1>1, <1>3 DEF IInv, TypeOK
  <2>2. DOMAIN identityCnt' \subseteq Key
    BY <1>1, <1>2 DEF IInv, TypeOK
  <2>3. identityCnt' \in [DOMAIN identityCnt' -> Nat \ {0}]
    BY <1>1, <1>4 DEF IInv, TypeOK
  <2> QED
    BY <1>1, <2>1, <2>2, <2>3 DEF IInv, TypeOK
<1>6. DOMAIN byToken' = DOMAIN byToken \cup {token} /\ IsFiniteSet(DOMAIN byToken')
  BY <1>1, FS_AddElement DEF IInv
<1>7. CountsMatchTokens'
  <2> SUFFICES ASSUME NEW k \in Key
               PROVE  Count(k)' = Cardinality(Stored(k)')
    BY DEF CountsMatchTokens
  <2>1. Count(k) = Cardinality(Stored(k))
    BY DEF IInv, CountsMatchTokens
  <2>2. CASE k = key
    <3>1. Stored(k)' = Stored(k) \cup {token} /\ token \notin Stored(k)
      BY <2>2, <1>1, <1>6 DEF Stored
    <3>2. IsFiniteSet(Stored(k))
      <4>1. Stored(k) \subseteq DOMAIN byToken
        BY DEF Stored
      <4> QED
        BY <4>1, FS_Subset DEF IInv
    <3>3. Cardinality(Stored(k)') = Cardinality(Stored(k)) + 1
      BY <3>1, <3>2, FS_AddElement
    <3>4. Count(k)' = Count(k) + 1
      BY <2>2, <1>1 DEF Count
    <3> QED
      BY <2>1, <3>3, <3>4
  <2>3. CASE k # key
    <3>1. Stored(k)' = Stored(k)
      BY <2>3, <1>1, <1>6 DEF Stored
    <3>2. Count(k)' = Count(k)
      BY <2>3, <1>1 DEF Count
    <3> QED
      BY <2>1, <3>1, <3>2
  <2> QED
    BY <2>2, <2>3
<1> QED
  BY <1>5, <1>6, <1>7 DEF IInv

\* A step that leaves the maps alone keeps the invariant.
LEMMA SameStoreKeepsIInv ==
  ASSUME IInv, UNCHANGED storeVars, now' \in Nat
  PROVE  IInv'
<1>1. \A k : Stored(k)' = Stored(k) /\ Count(k)' = Count(k)
  BY DEF storeVars, Stored, Count
<1> QED
  BY <1>1 DEF IInv, TypeOK, CountsMatchTokens, storeVars

\* The initial state satisfies the invariant.
LEMMA InitIInv == Init => IInv
<1> SUFFICES ASSUME Init PROVE IInv
  OBVIOUS
<1>1. DOMAIN byToken = {} /\ DOMAIN identityCnt = {}
  BY DEF Init
<1>2. \A k : Stored(k) = {} /\ Count(k) = 0
  BY <1>1 DEF Stored, Count
<1>3. TypeOK
  BY <1>1 DEF Init, TypeOK
<1> QED
  BY <1>1, <1>2, <1>3, FS_EmptySet DEF IInv, CountsMatchTokens

\* Every step keeps the invariant, one case per action.
LEMMA NextIInv == IInv /\ [Next]_vars => IInv'
<1> SUFFICES ASSUME IInv, [Next]_vars PROVE IInv'
  OBVIOUS
<1>0. now \in Nat
  BY DEF IInv, TypeOK
<1>1. CASE \E t \in Token, identity \in Identity, ttl \in TTL : IssueToken(t, identity, ttl)
  BY <1>1, IssueKeepsIInv
<1>2. CASE \E identity \in Identity : IssueRefused(identity)
  BY <1>0, <1>2, SameStoreKeepsIInv DEF IssueRefused, vars, storeVars
<1>3. CASE \E t \in Token : VerifyToken(t)
  BY <1>0, <1>3, SameStoreKeepsIInv DEF VerifyToken, vars, storeVars
<1>4. CASE \E t \in Token : RevokeToken(t)
  <2> PICK t \in Token : RevokeToken(t)
    BY <1>4
  <2>1. deleteLocked({t} \cap DOMAIN byToken) /\ now' = now
    BY DEF RevokeToken
  <2> QED
    BY <2>1, DeleteKeepsIInv
<1>5. CASE CleanupExpired
  <2>1. deleteLocked({t \in DOMAIN byToken : Expired(t)}) /\ now' = now
    BY <1>5 DEF CleanupExpired
  <2> QED
    BY <2>1, DeleteKeepsIInv
<1>6. CASE Tick
  BY <1>0, <1>6, SameStoreKeepsIInv DEF Tick
<1>7. CASE UNCHANGED vars
  BY <1>0, <1>7, SameStoreKeepsIInv DEF vars, storeVars
<1> QED
  BY <1>1, <1>2, <1>3, <1>4, <1>5, <1>6, <1>7 DEF Next

\* The invariant holds of every reachable state.
LEMMA AlwaysIInv == Spec => []IInv
  BY InitIInv, NextIInv, PTL DEF Spec

\* The maps of the store keep their types in every execution.
THEOREM TypeCorrect == Spec => []TypeOK
<1>1. IInv => TypeOK
  BY DEF IInv
<1> QED
  BY <1>1, AlwaysIInv, PTL

\* identityCnt is, for every identity and in every execution, the number of its
\* stored tokens: deleteLocked's "delete at <= 1, else decrement" never drifts.
THEOREM CountsCorrect == Spec => []CountsMatchTokens
<1>1. IInv => CountsMatchTokens
  BY DEF IInv
<1> QED
  BY <1>1, AlwaysIInv, PTL

\* The quota is inductive once the counters are right.
QuotaInv == IInv /\ QuotaRespected

LEMMA InitQuota == Init => QuotaInv
<1> SUFFICES ASSUME Init PROVE QuotaInv
  OBVIOUS
<1>1. \A k : Stored(k) = {}
  BY DEF Init, Stored
<1> QED
  BY <1>1, InitIInv, FS_EmptySet, TokenStoreAssumption DEF QuotaInv, QuotaRespected

LEMMA NextQuota == QuotaInv /\ [Next]_vars => QuotaInv'
<1> SUFFICES ASSUME IInv, IInv', QuotaRespected, [Next]_vars,
                    MaxTokensPerIdentity > 0, NEW k \in Key
             PROVE  Cardinality(Stored(k)') <= MaxTokensPerIdentity
  BY NextIInv DEF QuotaInv, QuotaRespected
<1>0. /\ Count(k) = Cardinality(Stored(k)) /\ Count(k)' = Cardinality(Stored(k)')
      /\ Cardinality(Stored(k)) <= MaxTokensPerIdentity
      /\ Cardinality(Stored(k)) \in Nat
      /\ IsFiniteSet(Stored(k))
  <2>1. Stored(k) \subseteq DOMAIN byToken
    BY DEF Stored
  <2>2. IsFiniteSet(Stored(k))
    BY <2>1, FS_Subset DEF IInv
  <2> QED
    BY <2>2, FS_CardinalityType DEF IInv, CountsMatchTokens, QuotaRespected
<1>1. CASE \E t \in Token, identity \in Identity, ttl \in TTL : IssueToken(t, identity, ttl)
  <2> PICK t \in Token, identity \in Identity, ttl \in TTL : IssueToken(t, identity, ttl)
    BY <1>1
  <2>1. CASE k = identityKey(identity)
    <3>1. Count(k)' = Count(k) + 1 /\ Count(k) < MaxTokensPerIdentity
      BY <1>0, <2>1, TokenStoreAssumption DEF IssueToken, Count, AtQuota
    <3> QED
      BY <3>1, <1>0, TokenStoreAssumption
  <2>2. CASE k # identityKey(identity)
    <3>1. Count(k)' = Count(k)
      BY <2>2 DEF IssueToken, Count
    <3> QED
      BY <3>1, <1>0
  <2> QED
    BY <2>1, <2>2
<1>2. ASSUME Stored(k)' \subseteq Stored(k)
      PROVE  Cardinality(Stored(k)') <= MaxTokensPerIdentity
  <2>1. IsFiniteSet(Stored(k)') /\ Cardinality(Stored(k)') <= Cardinality(Stored(k))
    BY <1>0, <1>2, FS_Subset
  <2> QED
    BY <1>0, <2>1, FS_CardinalityType, TokenStoreAssumption
<1>3. ASSUME ~(\E t \in Token, identity \in Identity, ttl \in TTL : IssueToken(t, identity, ttl))
      PROVE  Stored(k)' \subseteq Stored(k)
  BY <1>3 DEF Next, vars, storeVars, IssueRefused, VerifyToken, RevokeToken, CleanupExpired,
              Tick, deleteLocked, Stored
<1> QED
  BY <1>1, <1>2, <1>3

\* An identity's stored tokens never exceed the configured quota, whatever the
\* interleaving of logins, revocations and sweeps.
THEOREM QuotaHolds == Spec => []QuotaRespected
<1>1. QuotaInv => QuotaRespected
  BY DEF QuotaInv
<1> QED
  BY <1>1, InitQuota, NextQuota, PTL DEF Spec

-------------------------------------------------------------------------------

\* The refinement mapping: the leases in force are the entries VerifyToken accepts.
lease == [t \in {u \in DOMAIN byToken : Accepted(u)} |->
            [identity |-> byToken[t].identity, until |-> byToken[t].expiresAt]]

\* Removing entries takes away exactly their leases, so a sweep of expired
\* entries takes away none.
LEMMA DeleteEndsLeases ==
  ASSUME NEW gone \in SUBSET DOMAIN byToken, deleteLocked(gone), now' = now
  PROVE  lease' = [t \in DOMAIN lease \ gone |-> lease[t]]
<1>1. byToken' = [t \in DOMAIN byToken \ gone |-> byToken[t]]
  BY DEF deleteLocked
<1>2. {u \in DOMAIN byToken' : Accepted(u)'} = {u \in DOMAIN byToken : Accepted(u)} \ gone
  BY <1>1 DEF Accepted, Expired
<1> QED
  BY <1>1, <1>2 DEF lease

\* Issuing a token grants its lease: the quota bounds the stored tokens, and so
\* the leases in force among them.
LEMMA IssueGrantsLease ==
  ASSUME IInv,
         NEW token \in Token, NEW identity \in Identity, NEW ttl \in TTL,
         IssueToken(token, identity, ttl)
  PROVE  Lease!Grant(token, identity, ttl)
<1> DEFINE key == identityKey(identity)
           held == Lease!HeldBy(identity.namespace, identity.serviceAccount)
<1>1. token \notin DOMAIN lease
  BY DEF IssueToken, lease
<1>2. MaxTokensPerIdentity > 0 => Cardinality(held) < MaxTokensPerIdentity
  <2> SUFFICES ASSUME MaxTokensPerIdentity > 0
               PROVE  Cardinality(held) < MaxTokensPerIdentity
    OBVIOUS
  <2>1. held \subseteq Stored(key)
    BY DEF Lease!HeldBy, Stored, identityKey
  <2>2. Stored(key) \subseteq DOMAIN byToken
    BY DEF Stored
  <2>3. IsFiniteSet(Stored(key))
    BY <2>2, FS_Subset DEF IInv
  <2>4. IsFiniteSet(held) /\ Cardinality(held) <= Cardinality(Stored(key))
    BY <2>1, <2>3, FS_Subset
  <2>5. key \in Key
    BY DEF Identity, Key, identityKey
  <2>6. Cardinality(Stored(key)) < MaxTokensPerIdentity
    BY <2>3, <2>5, FS_CardinalityType, TokenStoreAssumption
       DEF IssueToken, AtQuota, IInv, CountsMatchTokens
  <2> QED
    BY <2>3, <2>4, <2>6, FS_CardinalityType, TokenStoreAssumption
<1>3. lease' = [u \in DOMAIN lease \cup {token} |->
                  IF u = token THEN [identity |-> identity, until |-> now + ttl] ELSE lease[u]]
  <2>1. DOMAIN byToken' = DOMAIN byToken \cup {token} /\ now' = now
    BY DEF IssueToken
  <2>2. /\ byToken'[token].identity = identity /\ byToken'[token].expiresAt = now + ttl
        /\ \A u \in DOMAIN byToken : byToken'[u] = byToken[u]
    BY DEF IssueToken
  <2>3. now \in Nat /\ ttl \in Nat
    BY TokenStoreAssumption DEF IInv, TypeOK
  <2>4. {u \in DOMAIN byToken' : Accepted(u)'} = {u \in DOMAIN byToken : Accepted(u)} \cup {token}
    BY <2>1, <2>2, <2>3 DEF Accepted, Expired
  <2> QED
    BY <1>1, <2>2, <2>4 DEF lease
<1>4. Lease!Cardinality(held) = Cardinality(held)
  BY DEF Cardinality, Lease!Cardinality
<1> QED
  BY <1>1, <1>2, <1>3, <1>4 DEF Lease!Grant, IssueToken, lease

\* Every step of the store is a step of the abstract specification or leaves
\* its state alone: sweeps and lookups are invisible.
LEMMA StepSimulation ==
  ASSUME IInv, [Next]_vars
  PROVE  [Lease!Next]_(Lease!vars)
<1>0. now \in Nat /\ Lease!vars = <<now, lease>>
  BY DEF IInv, TypeOK, Lease!vars, lease
<1>1. CASE \E t \in Token, identity \in Identity, ttl \in TTL : IssueToken(t, identity, ttl)
  <2> PICK t \in Token, identity \in Identity, ttl \in TTL : IssueToken(t, identity, ttl)
    BY <1>1
  <2>1. Lease!Grant(t, identity, ttl)
    BY IssueGrantsLease
  <2>2. identity \in Lease!Identity
    BY DEF Lease!Identity, Identity
  <2> QED
    BY <2>1, <2>2 DEF Lease!Next
<1>2. ASSUME UNCHANGED vars
      PROVE  UNCHANGED Lease!vars
  BY <1>2 DEF vars, Lease!vars, Accepted, Expired
<1>3. CASE \E t \in Token : RevokeToken(t)
  <2> PICK t \in Token : RevokeToken(t)
    BY <1>3
  <2>1. deleteLocked({t} \cap DOMAIN byToken) /\ now' = now
    BY DEF RevokeToken
  <2>2. lease' = [u \in DOMAIN lease \ ({t} \cap DOMAIN byToken) |-> lease[u]]
    BY <2>1, DeleteEndsLeases
  <2>3. CASE t \in DOMAIN lease
    <3>1. lease' = [u \in DOMAIN lease \ {t} |-> lease[u]]
      BY <2>2, <2>3 DEF lease
    <3> QED
      BY <2>1, <2>3, <3>1 DEF Lease!Next, Lease!End, lease
  <2>4. CASE t \notin DOMAIN lease
    <3>1. lease' = lease
      BY <2>2, <2>4 DEF lease
    <3> QED
      BY <2>1, <3>1 DEF Lease!vars, lease
  <2> QED
    BY <2>3, <2>4
<1>4. CASE CleanupExpired
  <2> DEFINE gone == {t \in DOMAIN byToken : Expired(t)}
  <2>1. deleteLocked(gone) /\ now' = now
    BY <1>4 DEF CleanupExpired
  <2>2. lease' = [u \in DOMAIN lease \ gone |-> lease[u]]
    BY <2>1, DeleteEndsLeases
  <2>3. DOMAIN lease \ gone = DOMAIN lease
    BY DEF lease, Accepted
  <2>4. lease' = lease
    BY <2>2, <2>3 DEF lease
  <2> QED
    BY <2>1, <2>4 DEF Lease!vars, lease
<1>5. CASE Tick
  <2>1. now' = now + 1 /\ byToken' = byToken
    BY <1>5 DEF Tick, storeVars
  <2>2. \A t \in DOMAIN byToken : byToken[t].expiresAt \in Nat
    BY DEF IInv, TypeOK, Entry
  <2>3. {u \in DOMAIN byToken' : Accepted(u)'} = {v \in DOMAIN lease : now' <= lease[v].until}
    BY <1>0, <2>1, <2>2 DEF lease, Accepted, Expired
  <2>4. lease' = [u \in {v \in DOMAIN lease : now' <= lease[v].until} |-> lease[u]]
    BY <2>1, <2>3 DEF lease
  <2> QED
    BY <2>1, <2>4 DEF Lease!Next, Lease!Tick, lease
<1> QED
  BY <1>1, <1>2, <1>3, <1>4, <1>5 DEF Next, IssueRefused, VerifyToken

\* The store implements TokenLease: accepted tokens are leases that are granted
\* under the quota, never renewed, never lost to a sweep and never outlive their
\* instant, for every execution of IssueToken, VerifyToken, RevokeToken and
\* CleanupExpired.
THEOREM StoreImplementsLease == Spec => ImplementsLease
<1>1. Init => Lease!Init
  <2> SUFFICES ASSUME Init PROVE Lease!Init
    OBVIOUS
  <2>1. {u \in DOMAIN byToken : Accepted(u)} = {}
    BY DEF Init
  <2> QED
    BY <2>1 DEF Init, Lease!Init
<1>2. IInv /\ [Next]_vars => [Lease!Next]_(Lease!vars)
  BY StepSimulation
<1> QED
  BY <1>1, <1>2, AlwaysIInv, PTL DEF Spec, ImplementsLease, Lease!Spec
-------------------------------------------------------------------------------
(* The access decision                                                         *)
(*                                                                             *)
(* matchSegments is a recursive function, so two things are shown of it.  The  *)
(* covers of the pattern's and the path's ends, CoversFrom, satisfy its        *)
(* equation, hence the equation has a solution; and all its solutions agree,   *)
(* by induction on the number of pattern segments left.  The induction is on   *)
(* the least counterexample, LeastNatural.                                     *)

-------------------------------------------------------------------------------
(* The least-number principle, for sets *)

\* A set of naturals that is not empty has a least member.
LEMMA LeastNatural ==
  ASSUME NEW B \in SUBSET Nat, B # {}
  PROVE  \E n \in B : \A m \in B : n <= m
<1> DEFINE T == {1 .. n : n \in B}
<1>1. T \subseteq FiniteSubsetsOf(Nat)
  <2> SUFFICES ASSUME NEW n \in B PROVE 1 .. n \in FiniteSubsetsOf(Nat)
    OBVIOUS
  <2>1. n \in Int /\ 1 \in Int
    OBVIOUS
  <2>2. IsFiniteSet(1 .. n)
    BY <2>1, FS_Interval
  <2>3. 1 .. n \in SUBSET Nat
    BY <2>1
  <2> QED BY <2>2, <2>3 DEF FiniteSubsetsOf
<1>2. T # {}
  OBVIOUS
<1>3. PICK x \in T : \A y \in T : ~ (<<y, x>> \in StrictSubsetOrdering(Nat))
  <2> HIDE DEF T
  <2>1. IsWellFoundedOn(StrictSubsetOrdering(Nat), FiniteSubsetsOf(Nat))
    BY FS_StrictSubsetOrderingWellFounded
  <2> QED BY <1>1, <1>2, <2>1, WFMin
<1>4. PICK n \in B : x = 1 .. n
  OBVIOUS
<1>5. ASSUME NEW m \in B, m < n PROVE FALSE
  <2>1. 1 .. m \in T
    OBVIOUS
  <2>2. 1 .. m \in SUBSET Nat /\ 1 .. n \in SUBSET Nat
    OBVIOUS
  <2>3. 1 .. m \subseteq 1 .. n
    BY <1>5
  <2>4. n \in 1 .. n /\ n \notin 1 .. m
    BY <1>5
  <2>5. <<1 .. m, 1 .. n>> \in StrictSubsetOrdering(Nat)
    BY <2>2, <2>3, <2>4 DEF StrictSubsetOrdering
  <2> QED BY <1>3, <1>4, <2>1, <2>5
<1> QED BY <1>5

-------------------------------------------------------------------------------
(* Covers of the ends of a pattern and a path *)

Words == Seq(STRING)

\* The i-th pattern segment may take the path's segments after a and up to c.
Takes(pat, seg, i, a, c) ==
  /\ c > a
  /\ pat[i] # "**" => c = a + 1
  /\ pat[i] \notin {"*", "**"} => seg[c] = pat[i]

Cuts(pat, seg, i) == [i - 1 .. Len(pat) -> 0 .. Len(seg)]

\* A cut of the path from its j-th segment on, for the pattern from its i-th on.
IsCut(pat, seg, i, j, cut) ==
  /\ cut[i - 1] = j - 1 /\ cut[Len(pat)] = Len(seg)
  /\ \A q \in i .. Len(pat) : Takes(pat, seg, q, cut[q - 1], cut[q])

CoversFrom(pat, seg, i, j) == \E cut \in Cuts(pat, seg, i) : IsCut(pat, seg, i, j, cut)

\* Covers is the cover of the whole.
LEMMA CoversIsFromTheStart ==
  ASSUME NEW pat \in Words, NEW seg \in Words
  PROVE  Covers(pat, seg) <=> CoversFrom(pat, seg, 1, 1)
<1>1. Cuts(pat, seg, 1) = [0 .. Len(pat) -> 0 .. Len(seg)]
  BY DEF Cuts
<1>2. DOMAIN pat = 1 .. Len(pat) /\ Len(pat) \in Nat /\ Len(seg) \in Nat
  BY DEF Words
<1>3. ASSUME NEW cut \in [0 .. Len(pat) -> 0 .. Len(seg)]
      PROVE  IsCut(pat, seg, 1, 1, cut) <=>
               /\ cut[0] = 0 /\ cut[Len(pat)] = Len(seg)
               /\ \A i \in DOMAIN pat :
                    /\ cut[i] > cut[i - 1]
                    /\ pat[i] # "**" => cut[i] = cut[i - 1] + 1
                    /\ pat[i] \notin {"*", "**"} => seg[cut[i]] = pat[i]
  BY <1>2 DEF IsCut, Takes
<1> QED BY <1>1, <1>3 DEF Covers, CoversFrom

\* Nothing of the pattern is left: nothing of the path may be.
LEMMA CoverOfNothing ==
  ASSUME NEW pat \in Words, NEW seg \in Words, NEW j \in 1 .. Len(seg) + 1
  PROVE  CoversFrom(pat, seg, Len(pat) + 1, j) <=> j = Len(seg) + 1
<1>1. Len(pat) \in Nat /\ Len(seg) \in Nat
  BY DEF Words
<1>2. ASSUME j = Len(seg) + 1 PROVE CoversFrom(pat, seg, Len(pat) + 1, j)
  <2> DEFINE cut == [q \in Len(pat) .. Len(pat) |-> Len(seg)]
  <2>1. cut \in Cuts(pat, seg, Len(pat) + 1)
    BY <1>1 DEF Cuts
  <2>2. IsCut(pat, seg, Len(pat) + 1, j, cut)
    BY <1>1, <1>2 DEF IsCut
  <2> QED BY <2>1, <2>2 DEF CoversFrom
<1>3. ASSUME CoversFrom(pat, seg, Len(pat) + 1, j) PROVE j = Len(seg) + 1
  BY <1>1, <1>3 DEF CoversFrom, IsCut, Cuts
<1> QED BY <1>2, <1>3

\* Otherwise the first pattern segment takes some segments, and the others cover the rest.
LEMMA CoverUnfolds ==
  ASSUME NEW pat \in Words, NEW seg \in Words,
         NEW i \in 1 .. Len(pat), NEW j \in 1 .. Len(seg) + 1
  PROVE  CoversFrom(pat, seg, i, j) <=>
           \E c \in 0 .. Len(seg) : /\ Takes(pat, seg, i, j - 1, c)
                                     /\ CoversFrom(pat, seg, i + 1, c + 1)
<1>1. Len(pat) \in Nat /\ Len(seg) \in Nat
  BY DEF Words
<1>2. ASSUME NEW cut \in Cuts(pat, seg, i), IsCut(pat, seg, i, j, cut)
      PROVE  \E c \in 0 .. Len(seg) : /\ Takes(pat, seg, i, j - 1, c)
                                       /\ CoversFrom(pat, seg, i + 1, c + 1)
  <2> DEFINE rest == [q \in i .. Len(pat) |-> cut[q]]
  <2>1. cut[i] \in 0 .. Len(seg) /\ rest \in Cuts(pat, seg, i + 1)
    BY <1>1 DEF Cuts
  <2>2. Takes(pat, seg, i, j - 1, cut[i])
    BY <1>1, <1>2 DEF IsCut
  <2>3. ASSUME NEW q \in i + 1 .. Len(pat)
        PROVE  Takes(pat, seg, q, rest[q - 1], rest[q])
    <3>1. rest[q - 1] = cut[q - 1] /\ rest[q] = cut[q]
      BY <1>1
    <3>2. Takes(pat, seg, q, cut[q - 1], cut[q])
      BY <1>1, <1>2 DEF IsCut
    <3> QED BY <3>1, <3>2
  <2>4. rest[(i + 1) - 1] = (cut[i] + 1) - 1 /\ rest[Len(pat)] = Len(seg)
    BY <1>1, <1>2, <2>1 DEF IsCut
  <2>5. IsCut(pat, seg, i + 1, cut[i] + 1, rest)
    BY <2>3, <2>4 DEF IsCut
  <2> QED BY <2>1, <2>2, <2>5 DEF CoversFrom
<1>3. ASSUME NEW c \in 0 .. Len(seg), Takes(pat, seg, i, j - 1, c),
             NEW rest \in Cuts(pat, seg, i + 1), IsCut(pat, seg, i + 1, c + 1, rest)
      PROVE  CoversFrom(pat, seg, i, j)
  <2> DEFINE cut == [q \in i - 1 .. Len(pat) |-> IF q = i - 1 THEN j - 1 ELSE rest[q]]
  <2>1. cut \in Cuts(pat, seg, i)
    BY <1>1 DEF Cuts
  <2>2. cut[i - 1] = j - 1 /\ cut[Len(pat)] = Len(seg) /\ cut[i] = c
    BY <1>1, <1>3 DEF IsCut
  <2>3. ASSUME NEW q \in i .. Len(pat)
        PROVE  Takes(pat, seg, q, cut[q - 1], cut[q])
    <3>1. CASE q = i
      BY <1>3, <2>2, <3>1
    <3>2. CASE q # i
      <4>1. cut[q - 1] = rest[q - 1] /\ cut[q] = rest[q] /\ q \in i + 1 .. Len(pat)
        BY <1>1, <3>2
      <4> QED BY <1>3, <4>1 DEF IsCut
    <3> QED BY <3>1, <3>2
  <2>4. IsCut(pat, seg, i, j, cut)
    BY <2>2, <2>3 DEF IsCut
  <2> QED BY <2>1, <2>4 DEF CoversFrom
<1> QED BY <1>2, <1>3 DEF CoversFrom

-------------------------------------------------------------------------------
(* matchSegments decides Covers *)

Positions(pat) == 1 .. Len(pat) + 1

\* A call of matchSegments is right when the calls it makes are.
LEMMA OneCallIsRight ==
  ASSUME NEW pat \in Words, NEW seg \in Words, NEW m,
         NEW i \in Positions(pat), NEW j \in Positions(seg),
         i # Len(pat) + 1 =>
           \A k \in Positions(seg) : m[i + 1][k] <=> CoversFrom(pat, seg, i + 1, k)
  PROVE  matchFrom(m, pat, seg, i, j) <=> CoversFrom(pat, seg, i, j)
<1>1. Len(pat) \in Nat /\ Len(seg) \in Nat
  BY DEF Words
<1>2. CASE i = Len(pat) + 1
  <2>1. j > Len(seg) <=> j = Len(seg) + 1
    BY <1>1 DEF Positions
  <2>2. i > Len(pat)
    BY <1>1, <1>2
  <2> QED BY <1>1, <1>2, <2>1, <2>2, CoverOfNothing DEF matchFrom, Positions
<1>3. CASE i # Len(pat) + 1
  <2>1. i \in 1 .. Len(pat) /\ ~(i > Len(pat)) /\ i + 1 \in Positions(pat)
    BY <1>1, <1>3 DEF Positions
  <2>2. CoversFrom(pat, seg, i, j) <=>
          \E c \in 0 .. Len(seg) : /\ Takes(pat, seg, i, j - 1, c)
                                    /\ CoversFrom(pat, seg, i + 1, c + 1)
    BY <2>1, CoverUnfolds DEF Positions
  <2>3. \A k \in Positions(seg) : m[i + 1][k] <=> CoversFrom(pat, seg, i + 1, k)
    BY <1>3
  <2>4. CASE pat[i] = "**"
    <3>1. CoversFrom(pat, seg, i, j) <=> \E k \in j + 1 .. Len(seg) + 1 : CoversFrom(pat, seg, i + 1, k)
      <4>1. \A c \in 0 .. Len(seg) : Takes(pat, seg, i, j - 1, c) <=> c + 1 >= j + 1
        BY <1>1, <2>4 DEF Takes, Positions
      <4>2. ASSUME NEW k \in j + 1 .. Len(seg) + 1
            PROVE  k - 1 \in 0 .. Len(seg) /\ (k - 1) + 1 = k
        BY <1>1 DEF Positions
      <4>3. ASSUME NEW k \in j + 1 .. Len(seg) + 1, CoversFrom(pat, seg, i + 1, k)
            PROVE  CoversFrom(pat, seg, i, j)
        <5>1. (k - 1) + 1 >= j + 1
          BY <1>1 DEF Positions
        <5>2. Takes(pat, seg, i, j - 1, k - 1)
          BY <4>1, <4>2, <5>1
        <5>3. CoversFrom(pat, seg, i + 1, (k - 1) + 1)
          BY <4>2, <4>3
        <5> QED BY <2>2, <4>2, <5>2, <5>3
      <4>4. ASSUME NEW c \in 0 .. Len(seg), Takes(pat, seg, i, j - 1, c),
                   CoversFrom(pat, seg, i + 1, c + 1)
            PROVE  \E k \in j + 1 .. Len(seg) + 1 : CoversFrom(pat, seg, i + 1, k)
        <5>1. c + 1 \in j + 1 .. Len(seg) + 1
          BY <1>1, <4>1, <4>4 DEF Positions
        <5> QED BY <4>4, <5>1
      <4> QED BY <2>2, <4>3, <4>4
    <3>2. CASE i = Len(pat)
      <4>1. \A k \in Positions(seg) : CoversFrom(pat, seg, i + 1, k) <=> k = Len(seg) + 1
        BY <1>1, <3>2, CoverOfNothing DEF Positions
      <4>2. CoversFrom(pat, seg, i, j) <=> j <= Len(seg)
        BY <1>1, <3>1, <4>1 DEF Positions
      <4> QED BY <2>1, <2>4, <3>2, <4>2 DEF matchFrom
    <3>3. CASE i # Len(pat)
      <4>1. \A k \in j + 1 .. Len(seg) + 1 : k \in Positions(seg)
        BY <1>1 DEF Positions
      <4> QED BY <2>1, <2>3, <2>4, <3>1, <3>3, <4>1 DEF matchFrom
    <3> QED BY <3>2, <3>3
  <2>5. CASE pat[i] # "**"
    <3>1. \A c \in 0 .. Len(seg) :
            Takes(pat, seg, i, j - 1, c) <=> c = j /\ pat[i] \in {"*", seg[j]}
      BY <1>1, <2>5 DEF Takes, Positions
    <3>2. j \in 0 .. Len(seg) <=> j <= Len(seg)
      BY <1>1 DEF Positions
    <3>3. CoversFrom(pat, seg, i, j) <=>
            /\ j <= Len(seg)
            /\ pat[i] \in {"*", seg[j]}
            /\ CoversFrom(pat, seg, i + 1, j + 1)
      BY <2>2, <3>1, <3>2
    <3>4. j <= Len(seg) => j + 1 \in Positions(seg)
      BY <1>1 DEF Positions
    <3> QED BY <2>1, <2>3, <2>5, <3>3, <3>4 DEF matchFrom
  <2> QED BY <2>4, <2>5
<1> QED BY <1>2, <1>3

Solves(m, pat, seg) ==
  m = [i \in Positions(pat) |-> [j \in Positions(seg) |-> matchFrom(m, pat, seg, i, j)]]

\* The recursive definition has a solution: the covers.
LEMMA CoversSolve ==
  ASSUME NEW pat \in Words, NEW seg \in Words
  PROVE  \E m : Solves(m, pat, seg)
<1> DEFINE m == [i \in Positions(pat) |-> [j \in Positions(seg) |-> CoversFrom(pat, seg, i, j)]]
<1>1. ASSUME NEW i \in Positions(pat), NEW j \in Positions(seg)
      PROVE  matchFrom(m, pat, seg, i, j) = CoversFrom(pat, seg, i, j)
  <2>1. Len(pat) \in Nat
    BY DEF Words
  <2>2. i # Len(pat) + 1 => i + 1 \in Positions(pat)
    BY <2>1 DEF Positions
  <2>3. i # Len(pat) + 1 =>
          \A k \in Positions(seg) : m[i + 1][k] <=> CoversFrom(pat, seg, i + 1, k)
    BY <2>2
  <2> HIDE DEF m
  <2>4. matchFrom(m, pat, seg, i, j) <=> CoversFrom(pat, seg, i, j)
    BY <2>3, OneCallIsRight
  <2>5. matchFrom(m, pat, seg, i, j) \in BOOLEAN
    <3>0. (j > Len(seg)) \in BOOLEAN /\ (j <= Len(seg)) \in BOOLEAN
      BY DEF Words, Positions
    <3>1. CASE i > Len(pat)
      BY <3>0, <3>1, Zenon DEF matchFrom
    <3>2. CASE ~(i > Len(pat)) /\ pat[i] = "**" /\ i = Len(pat)
      BY <3>0, <3>2, Zenon DEF matchFrom
    <3>3. CASE ~(i > Len(pat)) /\ pat[i] = "**" /\ i # Len(pat)
      BY <3>3, Zenon DEF matchFrom
    <3>4. CASE ~(i > Len(pat)) /\ pat[i] # "**"
      BY <3>4, Zenon DEF matchFrom
    <3> QED BY <3>1, <3>2, <3>3, <3>4
  <2>6. CoversFrom(pat, seg, i, j) \in BOOLEAN
    BY Zenon DEF CoversFrom
  <2> QED BY <2>4, <2>5, <2>6
<1>2. m = [i \in Positions(pat) |-> [j \in Positions(seg) |-> matchFrom(m, pat, seg, i, j)]]
  BY <1>1
<1> QED BY <1>2 DEF Solves

\* Every solution is the covers: by the least number of pattern segments left at
\* which one is not.
LEMMA SolutionsAreCovers ==
  ASSUME NEW pat \in Words, NEW seg \in Words, NEW m, Solves(m, pat, seg),
         NEW i \in Positions(pat), NEW j \in Positions(seg)
  PROVE  m[i][j] <=> CoversFrom(pat, seg, i, j)
<1> DEFINE Right(x) == \A y \in Positions(seg) : m[x][y] <=> CoversFrom(pat, seg, x, y)
<1> DEFINE Wrong == {n \in Nat : Len(pat) + 1 - n \in Positions(pat) /\ ~Right(Len(pat) + 1 - n)}
<1>1. Len(pat) \in Nat
  BY DEF Words
<1>2. ASSUME NEW n \in Wrong, \A k \in Wrong : n <= k PROVE FALSE
  <2> DEFINE x == Len(pat) + 1 - n
  <2>1. x \in Positions(pat) /\ ~Right(x) /\ n \in Nat
    OBVIOUS
  <2>2. x # Len(pat) + 1 => Right(x + 1)
    <3>1. SUFFICES ASSUME x # Len(pat) + 1 PROVE n - 1 \notin Wrong => Right(x + 1)
      BY <1>2, <2>1, <1>1
    <3>2. n - 1 \in Nat /\ Len(pat) + 1 - (n - 1) = x + 1 /\ x + 1 \in Positions(pat)
      BY <1>1, <2>1, <3>1 DEF Positions
    <3> QED BY <3>2
  <2>3. ASSUME NEW y \in Positions(seg) PROVE m[x][y] <=> CoversFrom(pat, seg, x, y)
    <3> HIDE DEF x
    <3>1. m[x][y] = matchFrom(m, pat, seg, x, y)
      BY <2>1 DEF Solves
    <3>2. matchFrom(m, pat, seg, x, y) <=> CoversFrom(pat, seg, x, y)
      BY <2>1, <2>2, OneCallIsRight
    <3> QED BY <3>1, <3>2
  <2> QED BY <2>1, <2>3
<1>3. Wrong = {}
  <2>1. Wrong \in SUBSET Nat
    OBVIOUS
  <2> HIDE DEF Wrong
  <2> QED BY <1>2, <2>1, LeastNatural
<1>4. Len(pat) + 1 - i \in Nat /\ Len(pat) + 1 - (Len(pat) + 1 - i) = i
  BY <1>1 DEF Positions
<1> QED BY <1>3, <1>4

\* matchSegments, with its backtracking over how much a "**" takes, finds a cover
\* exactly when there is one, for every pattern and path.
THEOREM MatchSegmentsIsCover ==
  \A pat, seg \in Seq(STRING) : matchSegments(pat, seg) <=> Covers(pat, seg)
<1> SUFFICES ASSUME NEW pat \in Words, NEW seg \in Words
             PROVE  matchSegments(pat, seg) <=> Covers(pat, seg)
  BY DEF Words
<1> DEFINE m == CHOOSE f : Solves(f, pat, seg)
<1>1. Solves(m, pat, seg)
  BY CoversSolve
<1>2. matchSegments(pat, seg) = m[1][1]
  BY DEF matchSegments, Solves, Positions
<1>3. 1 \in Positions(pat) /\ 1 \in Positions(seg)
  BY DEF Positions, Words
<1> HIDE DEF m
<1>4. m[1][1] <=> CoversFrom(pat, seg, 1, 1)
  BY <1>1, <1>3, SolutionsAreCovers
<1> QED BY <1>2, <1>4, CoversIsFromTheStart

-------------------------------------------------------------------------------
(* Trimming *)

\* A bounded set of positive numbers that is not empty has a greatest member.
LEMMA GreatestNatural ==
  ASSUME NEW n \in Nat, NEW B \in SUBSET (1 .. n), B # {}
  PROVE  \E g \in B : \A b \in B : b <= g
<1> DEFINE D == {n - b : b \in B}
<1>0. \A b \in B : b \in 1 .. n /\ n - b \in Nat
  OBVIOUS
<1>1. D \in SUBSET Nat /\ D # {}
  BY <1>0
<1>2. PICK d \in D : \A e \in D : d <= e
  <2> HIDE DEF D
  <2> QED BY <1>1, LeastNatural
<1>3. PICK g \in B : d = n - g
  OBVIOUS
<1>4. ASSUME NEW b \in B PROVE b <= g
  <2>1. n - b \in D
    OBVIOUS
  <2>2. n - g <= n - b
    BY <1>2, <1>3, <2>1
  <2> QED BY <2>2
<1> QED BY <1>4

LEMMA OneSegment == \A S : \A w \in S : <<w>> \in Seq(S)
OBVIOUS

\* Trimming leaves a sequence of strings, as strings.Split makes of any string.
LEMMA TrimGivesWords ==
  ASSUME NEW p \in Words, p # <<>>
  PROVE  Trim(p) \in Words
<1> DEFINE solid == {i \in DOMAIN p : p[i] # ""}
<1>1. DOMAIN p = 1 .. Len(p) /\ Len(p) \in Nat \ {0}
  BY DEF Words
<1>2. CASE solid = {}
  <2>1. Trim(p) = <<"">>
    BY <1>2 DEF Trim
  <2>2. 1 \in DOMAIN p /\ p[1] \in STRING
    BY <1>1 DEF Words
  <2>3. p[1] = ""
    BY <1>2, <2>2
  <2>4. <<p[1]>> \in Seq(STRING)
    BY <2>2, OneSegment
  <2> QED BY <2>1, <2>3, <2>4, Zenon DEF Words
<1>3. CASE solid # {}
  <2> DEFINE first == CHOOSE i \in solid : \A j \in solid : i <= j
             last == CHOOSE i \in solid : \A j \in solid : j <= i
  <2>1. Trim(p) = SubSeq(p, first, last)
    BY <1>3 DEF Trim
  <2>2. solid \in SUBSET Nat /\ solid \in SUBSET (1 .. Len(p))
    <3>1. \A i \in solid : i \in DOMAIN p
      OBVIOUS
    <3>2. \A i \in 1 .. Len(p) : i \in Nat
      BY <1>1
    <3> HIDE DEF solid
    <3> QED BY <1>1, <3>1, <3>2
  <2>3. first \in solid /\ last \in solid
    <3> HIDE DEF solid
    <3>1. \E i \in solid : \A j \in solid : i <= j
      BY <1>3, <2>2, LeastNatural
    <3>2. \E i \in solid : \A j \in solid : j <= i
      BY <1>1, <1>3, <2>2, GreatestNatural
    <3> QED BY <3>1, <3>2
  <2>4. first \in 1 .. Len(p) /\ last \in 1 .. Len(p)
    BY <2>2, <2>3
  <2> HIDE DEF first, last
  <2>5. SubSeq(p, first, last) \in Seq(STRING)
    BY <1>1, <2>4 DEF Words
  <2> QED BY <2>1, <2>5 DEF Words
<1> QED BY <1>2, <1>3

\* A path that Validate accepts has no outer slash left to trim.
LEMMA ValidPathIsTrimmed ==
  ASSUME NEW p \in Words, p # <<>>, Validate(p)
  PROVE  Trim(p) = p
<1> DEFINE solid == {i \in DOMAIN p : p[i] # ""}
<1>1. DOMAIN p = 1 .. Len(p) /\ Len(p) \in Nat \ {0}
  BY DEF Words
<1>2. 1 \in solid /\ Len(p) \in solid /\ solid \subseteq 1 .. Len(p)
  <2>1. p[1] # "" /\ p[Len(p)] # ""
    BY DEF Validate
  <2>2. 1 \in DOMAIN p /\ Len(p) \in DOMAIN p
    BY <1>1
  <2> QED BY <1>1, <2>1, <2>2
<1>3. solid # {}
  BY <1>2
<1> DEFINE first == CHOOSE i \in solid : \A j \in solid : i <= j
           last == CHOOSE i \in solid : \A j \in solid : j <= i
<1>4. Trim(p) = SubSeq(p, first, last)
  BY <1>3 DEF Trim
<1>5. first = 1 /\ last = Len(p)
  <2> HIDE DEF solid
  <2>1. 1 \in solid /\ \A j \in solid : 1 <= j
    BY <1>1, <1>2
  <2>2. Len(p) \in solid /\ \A j \in solid : j <= Len(p)
    BY <1>1, <1>2
  <2>3. first \in solid /\ \A j \in solid : first <= j
    BY <2>1
  <2>4. last \in solid /\ \A j \in solid : j <= last
    BY <2>2
  <2> HIDE DEF first, last
  <2>5. first \in Nat /\ last \in Nat
    BY <1>1, <1>2, <2>3, <2>4
  <2>6. first <= 1 /\ 1 <= first /\ last <= Len(p) /\ Len(p) <= last
    BY <2>1, <2>2, <2>3, <2>4
  <2>7. \A x, y \in Nat : x <= y /\ y <= x => x = y
    OBVIOUS
  <2>8. 1 \in Nat /\ Len(p) \in Nat
    BY <1>1
  <2> QED BY <2>5, <2>6, <2>7, <2>8
<1> HIDE DEF first, last
<1>6. SubSeq(p, 1, Len(p)) = p
  BY <1>1 DEF Words
<1> QED BY <1>4, <1>5, <1>6

-------------------------------------------------------------------------------
(* The decisions *)

\* The configuration and the request stay as they were, and a verdict on access is
\* what Validate, CheckBinding and CheckAccess say of them.
DInv ==
  /\ role.allowedPaths \subseteq Patterns
  /\ caller.role = TheRole
  /\ raw \in RawPaths
  /\ verdict \in {"allowed", "denied"} =>
       /\ CheckBinding(table, TheRole, caller.namespace, caller.serviceAccount)
       /\ Validate(path)
       /\ verdict = "allowed" <=> CheckAccess(table, caller, path)

LEMMA InitDecided == DecisionInit => DInv
<1> SUFFICES ASSUME DecisionInit PROVE DInv
  OBVIOUS
<1>1. role.allowedPaths \subseteq Patterns
  BY DEF DecisionInit
<1> QED BY <1>1 DEF DecisionInit, DInv

LEMMA DecideKeepsDInv == DInv /\ [Decide]_decisionVars => DInv'
<1> SUFFICES ASSUME DInv, [Decide]_decisionVars PROVE DInv'
  OBVIOUS
<1>1. CASE UNCHANGED decisionVars
  BY <1>1 DEF DInv, decisionVars, table, path
<1>2. CASE Decide
  <2>1. role' = role /\ caller' = caller /\ raw' = raw
    BY <1>2 DEF Decide
  <2>2. table' = table /\ path' = path
    BY <2>1 DEF table, path
  <2>3. verdict' \in {"allowed", "denied"} =>
          /\ CheckBinding(table, TheRole, caller.namespace, caller.serviceAccount)
          /\ Validate(path)
          /\ verdict' = "allowed" <=> CheckAccess(table, caller, path)
    BY <1>2, Zenon DEF Decide
  <2> QED BY <2>1, <2>2, <2>3 DEF DInv
<1> QED BY <1>1, <1>2

\* The path the handler works on is not the empty sequence: at most one slash goes.
LEMMA PathIsWords ==
  ASSUME raw \in RawPaths
  PROVE  path \in Words /\ path # <<>>
<1>1. raw \in Seq(STRING) /\ raw # <<>>
  BY AccessAssumption
<1>2. CASE Len(raw) > 1 /\ raw[1] = ""
  <2>1. path = Tail(raw)
    BY <1>2 DEF path, TrimPrefix
  <2>2. Tail(raw) \in Seq(STRING) /\ Len(Tail(raw)) = Len(raw) - 1
    BY <1>1
  <2>3. Len(Tail(raw)) # 0
    <3>1. Len(raw) \in Nat
      BY <1>1
    <3>2. Len(raw) > 1
      BY <1>2
    <3> QED BY <2>2, <3>1, <3>2
  <2>4. Len(<<>>) = 0
    OBVIOUS
  <2> QED BY <2>1, <2>2, <2>3, <2>4 DEF Words
<1>3. CASE ~(Len(raw) > 1 /\ raw[1] = "")
  BY <1>1, <1>3 DEF path, TrimPrefix, Words
<1> QED BY <1>2, <1>3

\* A caller bound to the role is let read a valid path exactly when an allowedPaths
\* entry of the role, its own outer slashes trimmed, covers it.
LEMMA VerdictIsCover == DInv => GlobIsCover
<1> SUFFICES ASSUME DInv, verdict \in {"allowed", "denied"}
             PROVE  verdict = "allowed" <=> \E p \in role.allowedPaths : Covers(Trim(p), path)
  BY DEF GlobIsCover
<1>1. path \in Words /\ path # <<>> /\ Validate(path)
  BY PathIsWords DEF DInv
<1>2. Trim(path) = path
  BY <1>1, ValidPathIsTrimmed
<1>3. ASSUME NEW p \in role.allowedPaths
      PROVE  MatchPath(p, path) <=> Covers(Trim(p), path)
  <2>1. p \in Words /\ p # <<>>
    BY AccessAssumption DEF DInv, Words
  <2>2. Trim(p) \in Seq(STRING) /\ path \in Seq(STRING)
    BY <1>1, <2>1, TrimGivesWords DEF Words
  <2>3. matchSegments(Trim(p), path) <=> Covers(Trim(p), path)
    BY <2>2, MatchSegmentsIsCover
  <2> QED BY <1>2, <2>3 DEF MatchPath
<1>4. table[TheRole] = role /\ caller.role = TheRole
  BY DEF table, DInv
<1>5. CheckAccess(table, caller, path) <=> \E p \in role.allowedPaths : MatchPath(p, path)
  BY <1>4, Zenon DEF CheckAccess, DInv
<1> QED BY <1>3, <1>5 DEF DInv

LEMMA AllowedIsFetched == DInv => AuthorizedPathIsFetched
<1> SUFFICES ASSUME DInv, verdict = "allowed"
             PROVE  /\ Trim(path) = path
                    /\ \A i \in DOMAIN path : path[i] \notin {"", ".", ".."} \cup Forbidden
  BY DEF AuthorizedPathIsFetched
<1>1. path \in Words /\ path # <<>> /\ Validate(path)
  BY PathIsWords DEF DInv
<1>2. Trim(path) = path
  BY <1>1, ValidPathIsTrimmed
<1>3. \A i \in DOMAIN path : path[i] \notin {"", ".", ".."} \cup Forbidden
  BY <1>1, Zenon DEF Validate
<1> QED BY <1>2, <1>3

\* The verdict on every request is the reference definition's: the glob matching of
\* matchSegments neither lets a path through that no entry of the role covers nor
\* refuses one that an entry does.
THEOREM AccessIsByCover == DecisionSpec => []GlobIsCover
<1>1. DInv => GlobIsCover
  BY VerdictIsCover
<1> QED BY <1>1, InitDecided, DecideKeepsDInv, PTL DEF DecisionSpec

\* CheckAccess authorizes the path with its outer slashes trimmed and the backend is
\* given the path as validated: they are the same, and no segment of it is empty,
\* climbs, or holds a forbidden character.
THEOREM FetchesWhatIsAuthorized == DecisionSpec => []AuthorizedPathIsFetched
<1>1. DInv => AuthorizedPathIsFetched
  BY AllowedIsFetched
<1> QED BY <1>1, InitDecided, DecideKeepsDInv, PTL DEF DecisionSpec

-------------------------------------------------------------------------------
(* Logins *)

\* A handler's record, and a service account that may have a token for a role.
LoginField == {"pc", "jwt", "role", "identity", "token", "count", "status"}
IsLogin(q) == q = [f \in LoginField |-> q[f]]

Earned(id) ==
  /\ id \in Identity
  /\ \E jwt \in JWT : /\ WellFormedUsername(Username(jwt))
                      /\ Username(jwt)[3] = id.namespace
                      /\ Username(jwt)[4] = id.serviceAccount
  /\ CheckBinding(roles, id.role, id.namespace, id.serviceAccount)

\* What a handler holds: until it has issued, no token that could be in the store.
HandlerInv(q) ==
  /\ IsLogin(q)
  /\ q.pc = "reviewing" => q.jwt \in JWT
  /\ q.pc \in {"reviewing", "bound"} => q.token = NoToken
  /\ q.pc = "bound" => Earned(q.identity) /\ q.identity.role = q.role

EntryEarned(e) ==
  Earned(e.identity) /\ e.expiresAt = e.createdAt + ttlForRole(e.identity.role)

\* The inductive invariant: without what the handlers hold, an identity still under
\* review could be taken for that of a token.
LoginInv ==
  /\ DOMAIN byToken \subseteq Token
  /\ \A t \in DOMAIN byToken : EntryEarned(byToken[t])
  /\ req = [r \in Request |-> req[r]]
  /\ \A r \in Request : HandlerInv(req[r])
  /\ \A r \in Request :
       req[r].token \in DOMAIN byToken => byToken[req[r].token].identity = req[r].identity

LEMMA IdleLogin ==
  /\ IsLogin(Idle)
  /\ Idle.pc = "idle" /\ Idle.token = NoToken
BY DEF Idle, IsLogin, LoginField

LEMMA InitLogin ==
  ASSUME LoginInit
  PROVE  LoginInv
<1>1. DOMAIN byToken = {}
  BY DEF LoginInit, Init
<1>2. req = [r \in Request |-> Idle]
  BY DEF LoginInit
<1> QED BY <1>1, <1>2, IdleLogin DEF LoginInv, HandlerInv

\* A handler moves, to no token or to the one it had, and the store stays.
LEMMA HandlerMoves ==
  ASSUME LoginInv, byToken' = byToken,
         NEW r \in Request, NEW q, HandlerInv(q), req' = [req EXCEPT ![r] = q],
         \/ q.token = NoToken
         \/ q.token = req[r].token /\ q.identity = req[r].identity
  PROVE  LoginInv'
<1>1. /\ req' = [s \in Request |-> req'[s]]
      /\ req'[r] = q
      /\ \A s \in Request : s # r => req'[s] = req[s]
  BY DEF LoginInv
<1>2. \A s \in Request : HandlerInv(req'[s])
  BY <1>1 DEF LoginInv
<1>3. NoToken \notin DOMAIN byToken
  BY LoginsAssumption DEF LoginInv
<1>4. \A s \in Request :
        req'[s].token \in DOMAIN byToken => byToken[req'[s].token].identity = req'[s].identity
  BY <1>1, <1>3 DEF LoginInv
<1>5. DOMAIN byToken \subseteq Token /\ \A t \in DOMAIN byToken : EntryEarned(byToken[t])
  BY DEF LoginInv
<1>6. (\A s \in Request : HandlerInv(req[s]))'
  BY <1>2 DEF HandlerInv, IsLogin, Earned
<1>7. (\A t \in DOMAIN byToken : EntryEarned(byToken[t]))'
  BY <1>5 DEF EntryEarned, Earned
<1> QED BY <1>1, <1>4, <1>5, <1>6, <1>7 DEF LoginInv

\* Entries leave the store; the handlers stay.
LEMMA TokensLeave ==
  ASSUME LoginInv, req' = req, DOMAIN byToken' \subseteq DOMAIN byToken,
         \A t \in DOMAIN byToken' : byToken'[t] = byToken[t]
  PROVE  LoginInv'
<1>1. (\A r \in Request : HandlerInv(req[r]))'
  BY DEF LoginInv, HandlerInv, IsLogin, Earned
<1>2. (\A t \in DOMAIN byToken : EntryEarned(byToken[t]))'
  BY DEF LoginInv, EntryEarned, Earned
<1> QED BY <1>1, <1>2 DEF LoginInv

LEMMA ReplyKeeps ==
  ASSUME LoginInv, byToken' = byToken,
         NEW r \in Request, NEW status, Reply(r, status)
  PROVE  LoginInv'
<1>1. PICK q : q = [Idle EXCEPT !.pc = "answered", !.status = status]
  OBVIOUS
<1>2. req' = [req EXCEPT ![r] = q]
  BY <1>1 DEF Reply
<1>3. IsLogin(q) /\ q.pc = "answered" /\ q.token = NoToken
  BY <1>1, IdleLogin DEF IsLogin, LoginField
<1>4. HandlerInv(q)
  BY <1>3 DEF HandlerInv
<1> QED BY <1>2, <1>3, <1>4, HandlerMoves

LEMMA BeginKeeps ==
  ASSUME LoginInv,
         NEW r \in Request, NEW jwt \in JWT, NEW name, Begin(r, jwt, name)
  PROVE  LoginInv'
<1>1. byToken' = byToken
  BY DEF Begin, storeVars
<1>2. CASE jwt = "" \/ name = ""
  <2>1. Reply(r, 400)
    BY <1>2 DEF Begin
  <2> QED BY <1>1, <2>1, ReplyKeeps
<1>3. CASE ~(jwt = "" \/ name = "")
  <2>1. PICK q : q = [Idle EXCEPT !.pc = "reviewing", !.jwt = jwt, !.role = name]
    OBVIOUS
  <2>2. req' = [req EXCEPT ![r] = q]
    BY <1>3, <2>1 DEF Begin
  <2>3. IsLogin(q) /\ q.pc = "reviewing" /\ q.jwt = jwt /\ q.token = NoToken
    BY <2>1, IdleLogin DEF IsLogin, LoginField
  <2>4. HandlerInv(q)
    BY <2>3 DEF HandlerInv
  <2> QED BY <1>1, <2>2, <2>3, <2>4, HandlerMoves
<1> QED BY <1>2, <1>3

\* The review vouches for the identity, and the binding is checked on what it says.
LEMMA ReviewKeeps ==
  ASSUME LoginInv, NEW r \in Request, ReviewReplies(r)
  PROVE  LoginInv'
<1> DEFINE o == req[r]
           username == Username(o.jwt)
           good == /\ WellFormedUsername(username)
                   /\ Bound(o.role, username[3], username[4])
           id == [namespace |-> username[3], serviceAccount |-> username[4], role |-> o.role]
<1>1. byToken' = byToken /\ o.pc = "reviewing"
  BY DEF ReviewReplies, storeVars
<1>2. req = [s \in Request |-> req[s]] /\ IsLogin(o) /\ o.jwt \in JWT /\ o.token = NoToken
  BY <1>1 DEF LoginInv, HandlerInv
<1>3. CASE good
  <2>1. PICK q : q = [o EXCEPT !.pc = "bound", !.identity = id]
    OBVIOUS
  <2>2. req' = [req EXCEPT ![r].pc = "bound", ![r].identity = id]
    BY <1>3 DEF ReviewReplies
  <2>3. Earned(id) /\ id.role = o.role
    <3>1. /\ username[3] \in Namespace /\ username[4] \in ServiceAccount
          /\ o.role \in DOMAIN roles
      BY <1>2, <1>3, LoginsAssumption DEF Bound, CheckBinding
    <3>2. id \in Identity
      BY <3>1, LoginsAssumption DEF Identity
    <3> QED BY <1>2, <1>3, <3>2 DEF Earned, Bound
  <2> HIDE DEF id
  <2>4. req' = [req EXCEPT ![r] = q]
    BY <1>2, <2>1, <2>2
  <2>5. /\ IsLogin(q) /\ q.pc = "bound" /\ q.identity = id /\ q.role = o.role
        /\ q.token = NoToken
    BY <1>2, <2>1 DEF IsLogin, LoginField
  <2>6. HandlerInv(q)
    BY <2>3, <2>5 DEF HandlerInv
  <2> QED BY <1>1, <2>4, <2>5, <2>6, HandlerMoves
<1>4. CASE ~good
  <2>1. Reply(r, 403)
    BY <1>4 DEF ReviewReplies
  <2> QED BY <1>1, <2>1, ReplyKeeps
<1> QED BY <1>3, <1>4

\* The new token is none that a handler holds, so it is the issuer's alone.
LEMMA IssueKeeps ==
  ASSUME LoginInv, NEW r \in Request, NEW t \in Token, Issue(r, t)
  PROVE  LoginInv'
<1> DEFINE o == req[r]
           entry == [identity |-> o.identity, createdAt |-> now,
                     expiresAt |-> now + ttlForRole(o.role)]
<1>1. /\ o.pc = "bound" /\ \A s \in Request : req[s].token # t
      /\ byToken' = [u \in DOMAIN byToken \cup {t} |-> IF u = t THEN entry ELSE byToken[u]]
      /\ req' = [req EXCEPT ![r].pc = "issued", ![r].token = t]
  BY DEF Issue, IssueToken
<1>2. /\ req = [s \in Request |-> req[s]] /\ IsLogin(o)
      /\ Earned(o.identity) /\ o.identity.role = o.role
  BY <1>1 DEF LoginInv, HandlerInv
<1>3. EntryEarned(entry) /\ entry.identity = o.identity
  BY <1>2 DEF EntryEarned
<1> HIDE DEF entry
<1>4. PICK q : q = [o EXCEPT !.pc = "issued", !.token = t]
  OBVIOUS
<1>5. /\ req' = [s \in Request |-> req'[s]]
      /\ req'[r] = q
      /\ \A s \in Request : s # r => req'[s] = req[s]
  BY <1>1, <1>2, <1>4
<1>6. IsLogin(q) /\ q.pc = "issued" /\ q.token = t /\ q.identity = o.identity
  BY <1>2, <1>4 DEF IsLogin, LoginField
<1>7. HandlerInv(q)
  BY <1>6 DEF HandlerInv
<1>8. \A s \in Request : HandlerInv(req'[s])
  BY <1>5, <1>7 DEF LoginInv
<1>9. (\A s \in Request : HandlerInv(req[s]))'
  BY <1>8 DEF HandlerInv, IsLogin, Earned
<1>10. /\ DOMAIN byToken' \subseteq Token
       /\ \A u \in DOMAIN byToken' : EntryEarned(byToken'[u])
  BY <1>1, <1>3 DEF LoginInv
<1>11. (\A u \in DOMAIN byToken : EntryEarned(byToken[u]))'
  BY <1>10 DEF EntryEarned, Earned
<1>12. /\ DOMAIN byToken' = DOMAIN byToken \cup {t}
       /\ \A u \in DOMAIN byToken : u # t => byToken'[u] = byToken[u]
  BY <1>1
<1>13. ASSUME NEW s \in Request, req'[s].token \in DOMAIN byToken'
       PROVE  byToken'[req'[s].token].identity = req'[s].identity
  <2>1. CASE s = r
    BY <1>1, <1>3, <1>5, <1>6, <2>1
  <2>2. CASE s # r
    <3>1. req'[s] = req[s] /\ req[s].token # t
      BY <1>1, <1>5, <2>2
    <3>2. req[s].token \in DOMAIN byToken /\ byToken'[req[s].token] = byToken[req[s].token]
      BY <1>12, <1>13, <3>1
    <3> QED BY <3>1, <3>2 DEF LoginInv
  <2> QED BY <2>1, <2>2
<1> QED BY <1>5, <1>9, <1>10, <1>11, <1>13 DEF LoginInv

LEMMA LaterStepKeeps ==
  ASSUME LoginInv, NEW r \in Request,
         CountTokens(r) \/ SetGauge(r) \/ Finish(r)
  PROVE  LoginInv'
<1> DEFINE o == req[r]
<1>1. byToken' = byToken
  BY DEF CountTokens, SetGauge, Finish, storeVars
<1>2. req = [s \in Request |-> req[s]] /\ IsLogin(o)
  BY DEF LoginInv, HandlerInv
<1>3. CASE CountTokens(r)
  <2>1. PICK q : q = [o EXCEPT !.pc = "counted", !.count = TokenCount]
    OBVIOUS
  <2>2. req' = [req EXCEPT ![r] = q]
    BY <1>2, <1>3, <2>1 DEF CountTokens
  <2>3. IsLogin(q) /\ q.pc = "counted" /\ q.token = o.token /\ q.identity = o.identity
    BY <1>2, <2>1 DEF IsLogin, LoginField
  <2>4. HandlerInv(q)
    BY <2>3 DEF HandlerInv
  <2> QED BY <1>1, <2>2, <2>3, <2>4, HandlerMoves
<1>4. CASE SetGauge(r)
  <2>1. PICK q : q = [o EXCEPT !.pc = "answered", !.status = 200, !.count = 0]
    OBVIOUS
  <2>2. req' = [req EXCEPT ![r] = q]
    BY <1>2, <1>4, <2>1 DEF SetGauge
  <2>3. IsLogin(q) /\ q.pc = "answered" /\ q.token = o.token /\ q.identity = o.identity
    BY <1>2, <2>1 DEF IsLogin, LoginField
  <2>4. HandlerInv(q)
    BY <2>3 DEF HandlerInv
  <2> QED BY <1>1, <2>2, <2>3, <2>4, HandlerMoves
<1>5. CASE Finish(r)
  <2>1. PICK q : q = Idle
    OBVIOUS
  <2>2. req' = [req EXCEPT ![r] = q]
    BY <1>5, <2>1 DEF Finish
  <2>3. HandlerInv(q) /\ q.token = NoToken
    BY <2>1, IdleLogin DEF HandlerInv
  <2> QED BY <1>1, <2>2, <2>3, HandlerMoves
<1> QED BY <1>3, <1>4, <1>5

LEMMA NextLogin ==
  ASSUME LoginInv, [LoginNext]_loginVars
  PROVE  LoginInv'
<1>1. CASE \E r \in Request, jwt \in JWT, name \in RoleName : Begin(r, jwt, name)
  BY <1>1, BeginKeeps
<1>2. ASSUME NEW r \in Request, Step(r) PROVE LoginInv'
  <2>1. CASE ReviewReplies(r) BY <2>1, ReviewKeeps
  <2>2. CASE ReviewFails(r)
    BY <2>2, ReplyKeeps DEF ReviewFails, storeVars
  <2>3. CASE \E t \in Token : Issue(r, t) BY <2>3, IssueKeeps
  <2>4. CASE IssueFails(r)
    BY <2>4, ReplyKeeps DEF IssueFails, storeVars
  <2>5. CASE CountTokens(r) \/ SetGauge(r) \/ Finish(r)
    BY <2>5, LaterStepKeeps
  <2> QED BY <1>2, <2>1, <2>2, <2>3, <2>4, <2>5 DEF Step
<1>3. CASE Sweeping
  <2>1. /\ req' = req /\ DOMAIN byToken' \subseteq DOMAIN byToken
        /\ \A t \in DOMAIN byToken' : byToken'[t] = byToken[t]
    BY <1>3 DEF Sweeping, Sweep, SweepCount, SweepSet, storeVars,
                CleanupExpired, deleteLocked
  <2> QED BY <2>1, TokensLeave
<1>4. CASE LoginTick \/ UNCHANGED loginVars
  <2>1. req' = req /\ byToken' = byToken
    BY <1>4 DEF LoginTick, Tick, storeVars, loginVars
  <2> QED BY <2>1, TokensLeave
<1> QED BY <1>1, <1>2, <1>3, <1>4 DEF LoginNext

\* The invariant holds of every reachable state.
LEMMA AlwaysLoginInv == LoginSpec => []LoginInv
<1>1. LoginInit => LoginInv
  BY InitLogin
<1>2. LoginInv /\ [LoginNext]_loginVars => LoginInv'
  BY NextLogin
<1> QED BY <1>1, <1>2, PTL DEF LoginSpec

\* However logins race each other and the sweeper, every token in the store belongs
\* to a service account that a TokenReview vouched for and that may assume the
\* token's role, lives as long as the role's TTL says, and is held by the handler
\* that got it for that very identity.
THEOREM LoginsEarnTokens == LoginSpec => []TokensAreEarned
<1>1. LoginInv => TokensAreEarned
  BY DEF LoginInv, EntryEarned, Earned, TokensAreEarned
<1> QED BY <1>1, AlwaysLoginInv, PTL

\* A step of the handlers or the sweeper is one of the store, or leaves the store
\* alone: a handler issues for an identity and a lifetime the store was made for.
LEMMA LoginStepIsStoreStep ==
  ASSUME LoginInv, [LoginNext]_loginVars
  PROVE  [Next]_vars
<1>1. ASSUME NEW r \in Request, NEW t \in Token, Issue(r, t) PROVE Next
  <2>1. /\ IssueToken(t, req[r].identity, ttlForRole(req[r].role))
        /\ req[r].pc = "bound"
    BY <1>1 DEF Issue
  <2>2. Earned(req[r].identity) /\ req[r].identity.role = req[r].role
    BY <2>1 DEF LoginInv, HandlerInv
  <2>3. req[r].identity \in Identity /\ req[r].role \in Role
    BY <2>2 DEF Earned, Identity
  <2>4. ttlForRole(req[r].role) \in TTL
    BY <2>3, LoginsAssumption
  <2> QED BY <2>1, <2>3, <2>4 DEF Next
<1>2. CASE \E r \in Request : Step(r)
  <2>1. PICK r \in Request : Step(r)
    BY <1>2
  <2>2. CASE \E t \in Token : Issue(r, t)
    BY <1>1, <2>2
  <2>3. CASE ~\E t \in Token : Issue(r, t)
    BY <2>1, <2>3 DEF Step, ReviewReplies, ReviewFails, IssueFails, CountTokens, SetGauge, Finish,
                      vars, storeVars
  <2> QED BY <2>2, <2>3
<1>3. CASE Sweeping
  BY <1>3 DEF Sweeping, Sweep, SweepCount, SweepSet, Next, vars, storeVars
<1>4. CASE LoginTick
  BY <1>4 DEF LoginTick, Next
<1>5. CASE \E r \in Request, jwt \in JWT, name \in RoleName : Begin(r, jwt, name)
  BY <1>5 DEF Begin, vars, storeVars
<1>6. CASE UNCHANGED loginVars
  BY <1>6 DEF loginVars, vars
<1> QED BY <1>2, <1>3, <1>4, <1>5, <1>6 DEF LoginNext

\* Behind the handlers and the sweeper the store is the one that TokenStore
\* specifies, so what is proved of that holds under concurrent logins.
THEOREM LoginsUseTheStore == LoginSpec => Init /\ [][Next]_vars
<1>1. LoginInit => Init
  BY DEF LoginInit
<1>2. LoginInv /\ [LoginNext]_loginVars => [Next]_vars
  BY LoginStepIsStoreStep
<1> QED BY <1>1, <1>2, AlwaysLoginInv, PTL DEF LoginSpec

\* In particular concurrent logins together get no more tokens for an identity than
\* its quota: IssueToken checks and counts under one lock.
THEOREM LoginsKeepTheQuota == LoginSpec => [](CountsMatchTokens /\ QuotaRespected)
<1>1. QuotaInv => CountsMatchTokens /\ QuotaRespected
  BY DEF QuotaInv, IInv
<1> QED BY <1>1, InitQuota, NextQuota, LoginsUseTheStore, PTL
===============================================================================
