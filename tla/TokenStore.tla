------------------------------ MODULE TokenStore ------------------------------
(***************************************************************************)
(* internal/auth/token_store.go: the in-memory store of issued client      *)
(* tokens.  Every method holds the store's mutex for its whole body, so    *)
(* each is one action.  Expired entries stay in the maps, and count        *)
(* against the quota, until the cleanup goroutine of                       *)
(* cmd/vault-gateway/main.go sweeps them.                                  *)
(*                                                                         *)
(* Token values come from randomHex(32): a freshly minted one is assumed   *)
(* to differ from every stored one.  Time is a natural number of ticks,    *)
(* and Horizon bounds the clock (TLC); issuing stops early enough for      *)
(* every issued token to expire within it.                                 *)
(***************************************************************************)
EXTENDS Integers, FiniteSets

CONSTANTS
  Token,                  \* client token values
  Namespace, ServiceAccount, Role,
  TTL,                    \* the lifetimes ttlForRole can return, in ticks
  MaxTokensPerIdentity,   \* auth.maxTokensPerIdentity; <= 0 means unlimited
  Horizon                 \* bound on the clock

ASSUME TokenStoreAssumption ==
  /\ TTL \subseteq Nat
  /\ MaxTokensPerIdentity \in Int
  /\ Horizon \in Nat

VARIABLES
  now,          \* the clock, time.Now
  byToken,      \* token -> tokenEntry, a map: its DOMAIN is the stored tokens
  identityCnt   \* identityKey -> count, a map: an absent key counts 0

storeVars == <<byToken, identityCnt>>
vars == <<now, byToken, identityCnt>>

Identity == [namespace : Namespace, serviceAccount : ServiceAccount, role : Role]
Entry == [identity : Identity, createdAt : Nat, expiresAt : Nat]

\* The quota key: neither the role nor the pod's UID is part of it.
identityKey(identity) == <<identity.namespace, identity.serviceAccount>>
Key == Namespace \X ServiceAccount

Stored(key) == {t \in DOMAIN byToken : identityKey(byToken[t].identity) = key}
Count(key) == IF key \in DOMAIN identityCnt THEN identityCnt[key] ELSE 0

\* time.Time.After is strict: an entry is still good at the instant expiresAt.
Expired(t) == now > byToken[t].expiresAt

\* VerifyToken's answer: whether the token is accepted.
Accepted(t) == t \in DOMAIN byToken /\ ~Expired(t)

-------------------------------------------------------------------------------
(* Plausible bugs, used to show that the properties can fail. *)

MutantAtQuota(key) == MaxTokensPerIdentity > 0 /\ Count(key) > MaxTokensPerIdentity

MutantVerifyToken(t) ==
  /\ byToken' = [u \in DOMAIN byToken |->
                   IF u = t /\ Accepted(t)
                   THEN [byToken[u] EXCEPT !.expiresAt = now + 1]
                   ELSE byToken[u]]
  /\ UNCHANGED <<now, identityCnt>>

\* Forgets the count of an identity whose last token goes.
MutantDeleteLocked(gone) ==
  /\ byToken' = [t \in DOMAIN byToken \ gone |-> byToken[t]]
  /\ identityCnt' = [k \in DOMAIN identityCnt |->
                       LET left == identityCnt[k] - Cardinality(Stored(k) \cap gone)
                       IN  IF left > 0 THEN left ELSE identityCnt[k]]

\* Counts down, and keeps a key whose count is zero.
MutantDeleteKeepsZero(gone) ==
  /\ byToken' = [t \in DOMAIN byToken \ gone |-> byToken[t]]
  /\ identityCnt' = [k \in DOMAIN identityCnt |->
                       identityCnt[k] - Cardinality(Stored(k) \cap gone)]

-------------------------------------------------------------------------------

\* NewTokenStore.
Init ==
  /\ now = 0
  /\ byToken = [t \in {} |-> {}]
  /\ identityCnt = [k \in {} |-> 0]

AtQuota(key) == MaxTokensPerIdentity > 0 /\ Count(key) >= MaxTokensPerIdentity

\* deleteLocked for every entry of `gone`: the count of each key goes down by
\* its removed tokens, and a key that reaches zero leaves the map.
deleteLocked(gone) ==
  LET left == [k \in DOMAIN identityCnt |->
                 identityCnt[k] - Cardinality(Stored(k) \cap gone)]
  IN  /\ byToken' = [t \in DOMAIN byToken \ gone |-> byToken[t]]
      /\ identityCnt' = [k \in {j \in DOMAIN left : left[j] > 0} |-> left[k]]

IssueToken(token, identity, ttl) ==
  LET key == identityKey(identity)
  IN  /\ token \notin DOMAIN byToken
      /\ now + ttl < Horizon
      /\ ~AtQuota(key)
      /\ byToken' = [t \in DOMAIN byToken \cup {token} |->
                       IF t = token
                       THEN [identity |-> identity, createdAt |-> now, expiresAt |-> now + ttl]
                       ELSE byToken[t]]
      /\ identityCnt' = [k \in DOMAIN identityCnt \cup {key} |->
                           IF k = key THEN Count(key) + 1 ELSE identityCnt[k]]
      /\ UNCHANGED now

\* ErrTooManyTokens: nothing is stored.
IssueRefused(identity) == AtQuota(identityKey(identity)) /\ UNCHANGED vars

\* A lookup under the read lock; Accepted(t) is its answer.  Tokens are not
\* renewable: a successful lookup leaves the entry as it was.
VerifyToken(t) == UNCHANGED vars

RevokeToken(t) == deleteLocked({t} \cap DOMAIN byToken) /\ UNCHANGED now

\* The sweep of CleanupExpired, called by the ticker of startTokenCleanup.
CleanupExpired == deleteLocked({t \in DOMAIN byToken : Expired(t)}) /\ UNCHANGED now

Tick == now < Horizon /\ now' = now + 1 /\ UNCHANGED storeVars

Next ==
  \/ \E t \in Token, identity \in Identity, ttl \in TTL : IssueToken(t, identity, ttl)
  \/ \E identity \in Identity : IssueRefused(identity)
  \/ \E t \in Token : VerifyToken(t)
  \/ \E t \in Token : RevokeToken(t)
  \/ CleanupExpired
  \/ Tick

\* The clock advances, and the goroutine of startTokenCleanup runs until the
\* process shuts down, so a sweep that has work to do is eventually made.
Fairness == WF_vars(Tick) /\ WF_vars(CleanupExpired)

Spec == Init /\ [][Next]_vars /\ Fairness

-------------------------------------------------------------------------------
(* Properties *)

\* Every map holds values of its declared types, and no key is kept with a count of
\* zero: the identity map does not grow with identities that are gone.
TypeOK ==
  /\ now \in Nat
  /\ DOMAIN byToken \subseteq Token /\ byToken \in [DOMAIN byToken -> Entry]
  /\ DOMAIN identityCnt \subseteq Key /\ identityCnt \in [DOMAIN identityCnt -> Nat \ {0}]

\* The counter that IssueToken consults is exactly the number of stored tokens
\* of that identity key, across issuing, revoking and sweeping several entries
\* of several identities at once: no leak (which would lock an identity out for
\* ever) and no undercount (which would let it exceed its quota).
CountsMatchTokens == \A k \in Key : Count(k) = Cardinality(Stored(k))

\* IssueToken's quota: no identity ever has more stored tokens than
\* maxTokensPerIdentity, and so never more valid ones.
QuotaRespected ==
  MaxTokensPerIdentity > 0 =>
    \A k \in Key : Cardinality(Stored(k)) <= MaxTokensPerIdentity

Lease == INSTANCE TokenLease WITH
           lease <- [t \in {u \in DOMAIN byToken : Accepted(u)} |->
                       [identity |-> byToken[t].identity, until |-> byToken[t].expiresAt]]

\* The store implements leases: what VerifyToken accepts is granted once, to one
\* identity, ends at its instant or on RevokeToken, is never renewed by a lookup
\* and never lost to a sweep while still valid.
ImplementsLease == Lease!Spec

\* An identity refused with ErrTooManyTokens is not refused for ever: its tokens
\* expire and the periodic CleanupExpired gives the quota back.
QuotaFreed == \A k \in Key : AtQuota(k) ~> ~AtQuota(k)
===============================================================================
