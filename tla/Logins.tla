-------------------------------- MODULE Logins --------------------------------
(***************************************************************************)
(* Concurrent logins: K8sLoginHandler (internal/api/auth.go) over the      *)
(* Kubernetes TokenReview API (internal/auth/validator.go), RBAC and the   *)
(* token store, beside the sweeper goroutine of startTokenCleanup          *)
(* (cmd/vault-gateway/main.go).  The active-tokens gauge is written by all *)
(* of them with a count taken earlier, outside the store's lock.           *)
(***************************************************************************)
EXTENDS TokenStore, RBAC

CONSTANTS
  Request,                \* handler goroutines
  JWT,                    \* service-account tokens a caller may present; "" is blank
  Username(_),            \* JWT -> the parts of the user name in the TokenReview
                          \* status, split at ":"; <<>> when not authenticated
  RoleName,               \* roles a caller may name; "" is a missing field
  roles,                  \* the configured table
  RoleTTL, DefaultTTL     \* per-role token TTLs (0: none) and auth.tokenTTL

VARIABLES
  req,                         \* request -> its local state
  sweeper,                     \* the cleanup goroutine: [pc, count]
  gauge                        \* metrics.ActiveTokens

loginVars == <<now, byToken, identityCnt, req, sweeper, gauge>>

\* ttlForRole.
ttlForRole(role) == IF role \in DOMAIN RoleTTL /\ RoleTTL[role] > 0 THEN RoleTTL[role] ELSE DefaultTTL

\* A handler's token before it has one.
NoToken == "no token"

\* parseServiceAccountUsername: "system:serviceaccount:<ns>:<name>", and neither
\* part empty.  (SplitN would give a name with further ":"s whole; Kubernetes
\* names have none, so the user names tried here have at most four parts.)
WellFormedUsername(username) ==
  /\ Len(username) = 4
  /\ SubSeq(username, 1, 2) = <<"system", "serviceaccount">>
  /\ username[3] # "" /\ username[4] # ""

\* The store's roles, lifetimes and accounts are those of the configuration and of the
\* cluster.
ASSUME LoginsAssumption ==
  /\ Role = DOMAIN roles
  /\ TTL = {ttlForRole(r) : r \in Role}
  /\ \A jwt \in JWT : WellFormedUsername(Username(jwt)) =>
       Username(jwt)[3] \in Namespace /\ Username(jwt)[4] \in ServiceAccount
  /\ NoToken \notin Token

NoIdentity == [namespace |-> "", serviceAccount |-> "", role |-> ""]
Idle == [pc |-> "idle", jwt |-> "", role |-> "", identity |-> NoIdentity,
         token |-> NoToken, count |-> 0, status |-> 0]

TokenCount == Cardinality(DOMAIN byToken)

-------------------------------------------------------------------------------
(* Plausible bugs, used to show that the properties can fail. *)

\* The role binding is not checked again against the reviewed service account.
MutantBound(role, namespace, serviceAccount) == role \in DOMAIN roles

\* The sweeper purges but leaves the gauge to the logins.
MutantSweepSet == sweeper.pc = "counted" /\ sweeper' = [pc |-> "waiting", count |-> 0]
                  /\ UNCHANGED <<now, storeVars, req, gauge>>

-------------------------------------------------------------------------------

LoginInit ==
  /\ Init
  /\ req = [r \in Request |-> Idle]
  /\ sweeper = [pc |-> "waiting", count |-> 0]
  /\ gauge = 0

Reply(r, status) == req' = [req EXCEPT ![r] = [Idle EXCEPT !.pc = "answered", !.status = status]]

\* The body: unreadable or not JSON (400), a missing field (400), or a login to check.
Begin(r, jwt, role) ==
  /\ req[r].pc = "idle"
  /\ IF jwt = "" \/ role = ""
     THEN Reply(r, 400)
     ELSE req' = [req EXCEPT ![r] = [Idle EXCEPT !.pc = "reviewing", !.jwt = jwt, !.role = role]]
  /\ UNCHANGED <<now, storeVars, sweeper, gauge>>

Bound(role, namespace, serviceAccount) == CheckBinding(roles, role, namespace, serviceAccount)

\* The TokenReview comes back: not authenticated, not a service account, not
\* bound to the role (all the same 403), or an identity for the role.
ReviewReplies(r) ==
  LET username == Username(req[r].jwt)
  IN  /\ req[r].pc = "reviewing"
      /\ IF WellFormedUsername(username) /\ Bound(req[r].role, username[3], username[4])
         THEN req' = [req EXCEPT ![r].pc = "bound",
                                 ![r].identity = [namespace |-> username[3],
                                                  serviceAccount |-> username[4],
                                                  role |-> req[r].role]]
         ELSE Reply(r, 403)
      /\ UNCHANGED <<now, storeVars, sweeper, gauge>>

\* The TokenReview call fails or times out.
ReviewFails(r) ==
  /\ req[r].pc = "reviewing"
  /\ Reply(r, 403)
  /\ UNCHANGED <<now, storeVars, sweeper, gauge>>

\* randomHex makes a new token: none that the store or a handler still holds.
Issue(r, t) ==
  /\ req[r].pc = "bound"
  /\ \A s \in Request : req[s].token # t
  /\ IssueToken(t, req[r].identity, ttlForRole(req[r].role))
  /\ req' = [req EXCEPT ![r].pc = "issued", ![r].token = t]
  /\ UNCHANGED <<sweeper, gauge>>

\* ErrTooManyTokens, or the random source failed: the same 403.
IssueFails(r) ==
  /\ req[r].pc = "bound"
  /\ Reply(r, 403)
  /\ UNCHANGED <<now, storeVars, sweeper, gauge>>

\* TokenCount takes the lock again, and the gauge is set after it is released.
CountTokens(r) ==
  /\ req[r].pc = "issued"
  /\ req' = [req EXCEPT ![r].pc = "counted", ![r].count = TokenCount]
  /\ UNCHANGED <<now, storeVars, sweeper, gauge>>

SetGauge(r) ==
  /\ req[r].pc = "counted"
  /\ gauge' = req[r].count
  /\ req' = [req EXCEPT ![r].pc = "answered", ![r].status = 200, ![r].count = 0]
  /\ UNCHANGED <<now, storeVars, sweeper>>

\* The response is written, and the goroutine is done.
Finish(r) ==
  /\ req[r].pc = "answered"
  /\ req' = [req EXCEPT ![r] = Idle]
  /\ UNCHANGED <<now, storeVars, sweeper, gauge>>

-----------------------------------------------------------------------------
(* startTokenCleanup: on each tick of its ticker, purge, count, set the gauge. *)

Sweep ==
  /\ sweeper.pc = "waiting"
  /\ CleanupExpired
  /\ sweeper' = [sweeper EXCEPT !.pc = "swept"]
  /\ UNCHANGED <<req, gauge>>

SweepCount ==
  /\ sweeper.pc = "swept"
  /\ sweeper' = [pc |-> "counted", count |-> TokenCount]
  /\ UNCHANGED <<now, storeVars, req, gauge>>

SweepSet ==
  /\ sweeper.pc = "counted"
  /\ gauge' = sweeper.count
  /\ sweeper' = [pc |-> "waiting", count |-> 0]
  /\ UNCHANGED <<now, storeVars, req>>

LoginTick == Tick /\ UNCHANGED <<req, sweeper, gauge>>

Sweeping == Sweep \/ SweepCount \/ SweepSet

Step(r) ==
  \/ ReviewReplies(r) \/ ReviewFails(r)
  \/ (\E t \in Token : Issue(r, t)) \/ IssueFails(r)
  \/ CountTokens(r) \/ SetGauge(r) \/ Finish(r)

LoginNext ==
  \/ \E r \in Request, jwt \in JWT, role \in RoleName : Begin(r, jwt, role)
  \/ \E r \in Request : Step(r)
  \/ Sweeping
  \/ LoginTick

\* A started handler runs on (the review has a timeout), the ticker keeps firing.
LoginFairness ==
  /\ \A r \in Request : WF_loginVars(Step(r))
  /\ WF_loginVars(Sweeping)
  /\ WF_loginVars(LoginTick)

LoginSpec == LoginInit /\ [][LoginNext]_loginVars /\ LoginFairness

-------------------------------------------------------------------------------
(* Properties *)

\* Every token in the store belongs to a service account that a TokenReview
\* vouched for and that the configuration lets assume the token's role, and the
\* handler that got it holds it for that very identity.
TokensAreEarned ==
  /\ \A t \in DOMAIN byToken :
       LET id == byToken[t].identity
       IN  /\ \E jwt \in JWT : /\ WellFormedUsername(Username(jwt))
                               /\ Username(jwt)[3] = id.namespace
                               /\ Username(jwt)[4] = id.serviceAccount
           /\ CheckBinding(roles, id.role, id.namespace, id.serviceAccount)
           /\ byToken[t].expiresAt = byToken[t].createdAt + ttlForRole(id.role)
  /\ \A r \in Request :
       req[r].token \in DOMAIN byToken => byToken[req[r].token].identity = req[r].identity

\* Logins that race each other and the sweeper may leave a wrong count in the
\* gauge, but not for good: once logins stop, the next sweeps make it the number
\* of stored tokens and it stays so.
GaugeConverges == <>[](gauge = TokenCount)
===============================================================================
