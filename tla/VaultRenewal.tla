----------------------------- MODULE VaultRenewal -----------------------------
(***************************************************************************)
(* internal/backend/vault: how the gateway authenticates to the Vault      *)
(* server behind it.  New takes a static token, or logs in with the pod's  *)
(* service-account token and, if the issued token is renewable, starts a   *)
(* LifetimeWatcher and a goroutine that listens to it until Close.         *)
(*                                                                         *)
(* The Vault server and the watcher of its client library are external,    *)
(* and taken at their best: Vault is always reachable, the watcher renews  *)
(* every time before the lease ends, and reports done only when a renewal  *)
(* no longer lengthens the lease because the token's maximum TTL is near.  *)
(***************************************************************************)
EXTENDS Integers

CONSTANTS
  LeaseTTL, MaxTTL,     \* of the issued token, in ticks
  RenewEvery,           \* how long after a renewal the watcher renews again
  Horizon               \* bound on the clock

VARIABLES
  now,
  backend,       \* "new", "ready", "failed" or "closed"
  kind,          \* the client's token: "none", "static", "renewable" or "fixed"
  issuedAt, expiresAt, renewedAt,
  watcher,       \* the LifetimeWatcher: "none", "running", "done" or "stopped"
  listener,      \* the goroutine of startRenewal: "none", "running" or "ended"
  cancelled      \* the context of the goroutine

vars == <<now, backend, kind, issuedAt, expiresAt, renewedAt, watcher, listener, cancelled>>
tokenVars == <<kind, issuedAt, expiresAt, renewedAt>>
renewalVars == <<watcher, listener, cancelled>>

Least(a, b) == IF a <= b THEN a ELSE b
Valid == kind = "static" \/ (kind \in {"renewable", "fixed"} /\ now <= expiresAt)

Init ==
  /\ now = 0 /\ backend = "new" /\ kind = "none"
  /\ issuedAt = 0 /\ expiresAt = 0 /\ renewedAt = 0
  /\ watcher = "none" /\ listener = "none" /\ cancelled = FALSE

\* New with cfg.Token: no login and no renewal.
NewStatic ==
  /\ backend = "new"
  /\ backend' = "ready" /\ kind' = "static"
  /\ UNCHANGED <<now, issuedAt, expiresAt, renewedAt, renewalVars>>

\* login succeeds.  Renewal is started for a renewable token; if the watcher cannot
\* be made, New warns and goes on without.
NewLoggedIn ==
  /\ backend = "new"
  /\ backend' = "ready"
  /\ kind' \in {"renewable", "fixed"}
  /\ issuedAt' = now /\ renewedAt' = now /\ expiresAt' = now + Least(LeaseTTL, MaxTTL)
  /\ \/ kind' = "renewable" /\ watcher' = "running" /\ listener' = "running"
     \/ UNCHANGED <<watcher, listener>>
  /\ UNCHANGED <<now, cancelled>>

\* No service-account token, a refused login, a bad TLS configuration.
NewFails ==
  /\ backend = "new"
  /\ backend' = "failed"
  /\ UNCHANGED <<now, tokenVars, renewalVars>>

\* What a renewal answers with: a full lease, cut at the token's maximum TTL.
Extended == Least(now + LeaseTTL, issuedAt + MaxTTL)
Due == watcher = "running" /\ now = renewedAt + RenewEvery

\* The watcher renews the lease and tells RenewCh.
Renew ==
  /\ Due /\ Extended > expiresAt
  /\ expiresAt' = Extended /\ renewedAt' = now
  /\ UNCHANGED <<now, backend, kind, issuedAt, renewalVars>>

\* A renewal no longer lengthens the lease: DoneCh.
WatcherDone ==
  /\ Due /\ Extended <= expiresAt
  /\ watcher' = "done"
  /\ UNCHANGED <<now, backend, tokenVars, listener, cancelled>>

\* The goroutine's select: the context, or DoneCh; either way it returns for good.
ListenerEnds ==
  /\ listener = "running" /\ (cancelled \/ watcher = "done")
  /\ listener' = "ended" /\ watcher' = "stopped"
  /\ UNCHANGED <<now, backend, tokenVars, cancelled>>

Close ==
  /\ backend = "ready"
  /\ backend' = "closed"
  /\ cancelled' = (listener # "none")
  /\ UNCHANGED <<now, tokenVars, watcher, listener>>

\* Time does not pass a renewal that is due.
Tick ==
  /\ now < Horizon
  /\ ~Due
  /\ now' = now + 1
  /\ UNCHANGED <<backend, tokenVars, renewalVars>>

Next ==
  \/ NewStatic \/ NewLoggedIn \/ NewFails
  \/ Renew \/ WatcherDone \/ ListenerEnds
  \/ Close \/ Tick

Spec == Init /\ [][Next]_vars

--------------------------------------------------------------------------------
(* Properties *)

\* The comment on startRenewal: the goroutine "keeps the login token renewed until
\* ctx is canceled (via Close)".  So a backend for which it was started has a valid
\* token for as long as it is not closed.
RenewedUntilClosed == listener # "none" /\ backend = "ready" => Valid
================================================================================
