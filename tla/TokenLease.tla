------------------------------ MODULE TokenLease ------------------------------
(***************************************************************************)
(* What the token store promises its callers, with no word on how: a token *)
(* is a lease held by one identity until a fixed instant.  It ends by      *)
(* itself when the clock passes that instant, or earlier when revoked;     *)
(* nothing extends it, and an identity never holds more than the quota.    *)
(* TokenStore (internal/auth/token_store.go) is shown to implement this.   *)
(***************************************************************************)
EXTENDS Integers, FiniteSets

CONSTANTS Token, Namespace, ServiceAccount, Role, TTL, MaxTokensPerIdentity

VARIABLES
  now,    \* the clock
  lease   \* the tokens in force: token -> [identity, until]

vars == <<now, lease>>

Identity == [namespace : Namespace, serviceAccount : ServiceAccount, role : Role]

\* The tokens in force of one service account, whatever role they carry.
HeldBy(namespace, serviceAccount) ==
  {t \in DOMAIN lease : /\ lease[t].identity.namespace = namespace
                        /\ lease[t].identity.serviceAccount = serviceAccount}

Init == now = 0 /\ lease = [t \in {} |-> {}]

Grant(t, identity, ttl) ==
  /\ t \notin DOMAIN lease
  /\ MaxTokensPerIdentity > 0 =>
       Cardinality(HeldBy(identity.namespace, identity.serviceAccount)) < MaxTokensPerIdentity
  /\ lease' = [u \in DOMAIN lease \cup {t} |->
                 IF u = t THEN [identity |-> identity, until |-> now + ttl] ELSE lease[u]]
  /\ UNCHANGED now

End(t) ==
  /\ t \in DOMAIN lease
  /\ lease' = [u \in DOMAIN lease \ {t} |-> lease[u]]
  /\ UNCHANGED now

\* A lease is in force through the instant `until` and not after it.
Tick ==
  /\ now' = now + 1
  /\ lease' = [u \in {v \in DOMAIN lease : now' <= lease[v].until} |-> lease[u]]

Next ==
  \/ \E t \in Token, identity \in Identity, ttl \in TTL : Grant(t, identity, ttl)
  \/ \E t \in Token : End(t)
  \/ Tick

Spec == Init /\ [][Next]_vars
===============================================================================
