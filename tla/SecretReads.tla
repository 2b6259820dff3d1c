------------------------------ MODULE SecretReads ------------------------------
(***************************************************************************)
(* Concurrent secret reads: SecretReadHandler (internal/api/secrets.go)    *)
(* over the token store, RBAC and a backend's GetSecret, which looks in    *)
(* its cache, asks the provider on a miss and fills the cache.             *)
(*                                                                         *)
(* One process per request in flight.  No lock is held between the steps   *)
(* of a read, so two requests for the same path may both miss, both ask    *)
(* the provider and fill the cache in either order, while the provider's   *)
(* secrets change and the token expires.                                   *)
(*                                                                         *)
(* The key/value map of a secret is mutable and shared by reference, and   *)
(* the handler wipes the one it got after writing the response.  So the    *)
(* maps are objects: cache entries and requests hold references (Obj), and *)
(* heap gives the contents.  An object nothing refers to is garbage and    *)
(* may be allocated again.                                                 *)
(***************************************************************************)
EXTENDS Integers, FiniteSets, Sequences

CONSTANTS
  Request,                \* handler goroutines
  Path,                   \* the paths asked for (sequences of segments)
  Used,                   \* those of them the provider may hold a secret under
  Value,                  \* contents of secrets
  Obj,                    \* map objects
  Absent,                 \* the provider has no such secret; the nil map
  Scrubbed,               \* the contents of a map after clearMap
  Token, Namespace, ServiceAccount, roles,
  TokenTTL, MaxTokensPerIdentity,
  TTL, NegativeTTL, MaxEntries,
  Forbidden, Width(_), MaxLength,
  MaxFetch,               \* the longest a provider call takes, in ticks
  MaxChanges,             \* bound on changes at the provider
  Horizon                 \* bound on the clock

VARIABLES
  now,
  byToken, identityCnt,   \* the token store
  items, lru,             \* the backend's cache; values are objects
  heap,                   \* object -> contents
  secret,                 \* the provider: path -> contents, or Absent
  changes,                \* how often the provider's secrets changed
  lastHeld,               \* history: path -> contents -> when it last was current
  req                     \* request -> its local state

storeVars == <<byToken, identityCnt>>
cacheVars == <<items, lru>>
providerVars == <<secret, changes, lastHeld>>
vars == <<now, byToken, identityCnt, items, lru, heap, secret, changes, lastHeld, req>>

Store == INSTANCE TokenStore WITH Role <- DOMAIN roles, TTL <- {TokenTTL}
Cached == INSTANCE Cache WITH Value <- Obj, NoValue <- Absent, Enabled <- TRUE
Access == INSTANCE RBAC

Contents == Value \cup {Scrubbed}
Held == Value \cup {Absent}

\* The paths asked for include them without their leading slash, and allocation never
\* fails: there is a map object for every cache entry and every request, and one more.
ASSUME SecretReadsAssumption ==
  /\ Absent \notin Value \cup Obj
  /\ Used \subseteq Path /\ \A p \in Path : Access!TrimPrefix(p) \in Path
  /\ TTL \in Nat /\ NegativeTTL \in Nat /\ MaxFetch \in Nat
  /\ IsFiniteSet(Path) /\ IsFiniteSet(Request) /\ IsFiniteSet(Obj)
  /\ Cardinality(Obj) > Cardinality(Path) + Cardinality(Request)

\* A request: where it is, its path, the map it holds, the answer it is about to
\* give, when it got that answer (asOf), and what it sent.
NoIdentity == [namespace |-> "", serviceAccount |-> "", role |-> ""]
Idle == [pc |-> "idle", path |-> Absent, obj |-> Absent, status |-> 0, asOf |-> 0, sent |-> Absent,
         identity |-> NoIdentity]

\* The maps that are reachable: from the cache and from the requests.
Referenced == ({items[p].value : p \in DOMAIN items} \cup {req[r].obj : r \in Request}) \ {Absent}
FreshObj == CHOOSE o \in Obj : o \notin Referenced
\* The heap after a step: garbage has no contents.
Collected(h) == [o \in Obj |-> IF o \in Referenced' THEN h[o] ELSE Absent]

--------------------------------------------------------------------------------
(* Plausible bugs, used to show that the properties can fail. *)

\* Stores the caller's own map in the cache, not a copy of it.
MutantCloneForCache(r) == req[r].obj

\* Hands out the cached map itself, not a copy of it.
MutantCloneOfCached(p) == items[p].value

\* Takes an unreachable provider for a missing secret.
MutantFetchFails(r) ==
  /\ req[r].pc = "fetching"
  /\ req' = [req EXCEPT ![r].pc = "fetched", ![r].status = 404, ![r].asOf = now]
  /\ UNCHANGED <<now, storeVars, cacheVars, heap, providerVars>>

\* Forgets the role's paths: any valid token will do.
MutantAuthorized(token, path) == Store!Accepted(token)

--------------------------------------------------------------------------------

Init ==
  /\ Store!Init
  /\ Cached!Init
  /\ heap = [o \in Obj |-> Absent]
  /\ secret \in {f \in [Path -> Held] : \A p \in Path \ Used : f[p] = Absent}
  /\ changes = 0
  /\ lastHeld = [p \in Path |-> [c \in Held |-> IF c = secret[p] THEN 0 ELSE -1]]
  /\ req = [r \in Request |-> Idle]

\* A login (Logins models it in full) hands a fresh token to a service account.
Login(t, identity) ==
  /\ Store!IssueToken(t, identity, TokenTTL)
  /\ UNCHANGED <<cacheVars, heap, providerVars, req>>

CleanupExpired ==
  /\ Store!CleanupExpired
  /\ UNCHANGED <<cacheVars, heap, providerVars, req>>

\* Somebody writes, replaces or deletes a secret at the provider.
Change(p, c) ==
  /\ changes < MaxChanges
  /\ c # secret[p]
  /\ secret' = [secret EXCEPT ![p] = c]
  /\ changes' = changes + 1
  /\ lastHeld' = [lastHeld EXCEPT ![p][c] = now]
  /\ UNCHANGED <<now, storeVars, cacheVars, heap, req>>

\* The clock does not run ahead of a provider call for more than MaxFetch.
Tick ==
  /\ Store!Tick
  /\ \A r \in Request : req[r].pc \in {"fetching", "fetched"} => now < req[r].asOf + MaxFetch
  /\ lastHeld' = [p \in Path |-> [lastHeld[p] EXCEPT ![secret[p]] = now + 1]]
  /\ UNCHANGED <<cacheVars, heap, secret, changes, req>>

-----------------------------------------------------------------------------
(* SecretReadHandler *)

Authorized(token, path) ==
  Store!Accepted(token) /\ Access!CheckAccess(roles, byToken[token].identity, path)

Reply(r, status) == req' = [req EXCEPT ![r].pc = "answered", ![r].status = status, ![r].asOf = now]

\* The handler up to GetSecret: the path without its leading slash, its form, the
\* token, the role's paths.  Only VerifyToken reads shared state, under the
\* store's lock.
Begin(r, token, raw) ==
  /\ req[r].pc = "idle"
  /\ LET path == Access!TrimPrefix(raw)
         start == [Idle EXCEPT !.path = path, !.asOf = now]
     IN  req' = [req EXCEPT ![r] =
           IF ~Access!Validate(path) THEN [start EXCEPT !.pc = "answered", !.status = 400]
           ELSE IF ~Authorized(token, path) THEN [start EXCEPT !.pc = "answered", !.status = 403]
           ELSE [start EXCEPT !.pc = "authorized", !.identity = byToken[token].identity]]
  /\ UNCHANGED <<now, storeVars, cacheVars, heap, providerVars>>

\* cloneMap: the object a copy is written to.
CloneOfCached(p) == FreshObj
CloneForCache(r) == FreshObj

\* GetSecret's cache.Get.
LookupHit(r) ==
  LET p == req[r].path
      copy == CloneOfCached(p)
  IN  /\ req[r].pc = "authorized"
      /\ Cached!GetHit(p)
      /\ IF items[p].isNegative
         THEN Reply(r, 404) /\ UNCHANGED heap
         ELSE /\ req' = [req EXCEPT ![r].pc = "answered", ![r].status = 200,
                                    ![r].asOf = now, ![r].obj = copy]
              /\ heap' = [heap EXCEPT ![copy] = heap[items[p].value]]
      /\ UNCHANGED <<storeVars, providerVars>>

LookupMiss(r) ==
  /\ req[r].pc = "authorized"
  /\ Cached!GetMiss(req[r].path)
  /\ req' = [req EXCEPT ![r].pc = "fetching", ![r].asOf = now]
  /\ heap' = Collected(heap)
  /\ UNCHANGED <<storeVars, providerVars>>

\* The provider answers with what it holds at that instant; parseSecret and its
\* like build a new map from it.
FetchReplies(r) ==
  LET c == secret[req[r].path]
  IN  /\ req[r].pc = "fetching"
      /\ IF c = Absent
         THEN /\ req' = [req EXCEPT ![r].pc = "fetched", ![r].status = 404, ![r].asOf = now]
              /\ UNCHANGED heap
         ELSE /\ req' = [req EXCEPT ![r].pc = "fetched", ![r].status = 200, ![r].asOf = now,
                                    ![r].obj = FreshObj]
              /\ heap' = [heap EXCEPT ![FreshObj] = c]
      /\ UNCHANGED <<now, storeVars, cacheVars, providerVars>>

\* Any other error (ErrBackendUnavailable, or the request's context ended): not cached.
FetchFails(r) ==
  /\ req[r].pc = "fetching"
  /\ Reply(r, 502)
  /\ UNCHANGED <<now, storeVars, cacheVars, heap, providerVars>>

\* cache.Set with a copy of the fetched map.
Fill(r) ==
  LET p == req[r].path
      copy == CloneForCache(r)
  IN  /\ req[r].pc = "fetched" /\ req[r].status = 200
      /\ Cached!Set(p, copy)
      /\ req' = [req EXCEPT ![r].pc = "answered"]
      /\ heap' = Collected([heap EXCEPT ![copy] = heap[req[r].obj]])
      /\ UNCHANGED <<storeVars, providerVars>>

\* cache.SetNegative.
FillNegative(r) ==
  /\ req[r].pc = "fetched" /\ req[r].status = 404
  /\ Cached!SetNegative(req[r].path)
  /\ req' = [req EXCEPT ![r].pc = "answered"]
  /\ heap' = Collected(heap)
  /\ UNCHANGED <<storeVars, providerVars>>

\* writeJSON: the response is written from the map the request holds.
Respond(r) ==
  /\ req[r].pc = "answered"
  /\ req' = [req EXCEPT ![r].pc = "responded",
                        ![r].sent = IF req[r].status = 200 THEN heap[req[r].obj] ELSE Absent]
  /\ UNCHANGED <<now, storeVars, cacheVars, heap, providerVars>>

\* clearMap, and the goroutine is done.
Finish(r) ==
  /\ req[r].pc = "responded"
  /\ req' = [req EXCEPT ![r] = Idle]
  /\ UNCHANGED <<now, storeVars, cacheVars, providerVars>>
  /\ heap' = Collected(IF req[r].obj = Absent THEN heap
                       ELSE [heap EXCEPT ![req[r].obj] = Scrubbed])

Step(r) ==
  \/ LookupHit(r) \/ LookupMiss(r)
  \/ FetchReplies(r) \/ FetchFails(r)
  \/ Fill(r) \/ FillNegative(r)
  \/ Respond(r) \/ Finish(r)

Next ==
  \/ \E t \in Token, identity \in Store!Identity : Login(t, identity)
  \/ CleanupExpired
  \/ \E p \in Used, c \in Held : Change(p, c)
  \/ \E r \in Request, t \in Token, p \in Path : Begin(r, t, p)
  \/ \E r \in Request : Step(r)
  \/ Tick

Spec == Init /\ [][Next]_vars

--------------------------------------------------------------------------------
(* Properties *)

\* No map is reachable from two places: the map a handler is about to wipe with
\* clearMap is neither cached nor in the hands of another request.
NoSharedMaps ==
  /\ \A r, s \in Request : r # s /\ req[r].obj # Absent => req[r].obj # req[s].obj
  /\ \A r \in Request, p \in DOMAIN items : req[r].obj # Absent => req[r].obj # items[p].value
  /\ \A p, q \in DOMAIN items : p # q /\ items[p].value # Absent => items[p].value # items[q].value

\* A 200 response carries a secret, never a map some other request has wiped.
ServedIntact ==
  \A r \in Request : req[r].pc = "responded" /\ req[r].status = 200 => req[r].sent \in Value

\* What the handler says about a secret was true at the provider not long before
\* it read its answer: a 200 within cache.ttl, a 404 within cache.negativeTTL,
\* each plus the longest provider call.  Racing fills may put an older value
\* over a newer one, but not an older one than that; failures are never cached
\* as 404s.
BoundedStaleness ==
  \A r \in Request :
    req[r].pc = "responded" =>
      /\ req[r].status = 200 =>
           lastHeld[req[r].path][req[r].sent] >= req[r].asOf - TTL - MaxFetch
      /\ req[r].status = 404 =>
           lastHeld[req[r].path][Absent] >= req[r].asOf - NegativeTTL - MaxFetch

\* RBAC comes before the cache, which is keyed by path alone: a request gets to the
\* cache, and so to an entry that the read of another role has filled, only for a path
\* its own role allows, and nothing is cached but what some role allows.
OnlyAllowedPathsReachTheCache ==
  /\ \A r \in Request :
       req[r].pc # "idle" /\ req[r].status \notin {400, 403} =>
         Access!CheckAccess(roles, req[r].identity, req[r].path)
  /\ \A p \in DOMAIN items :
       \E identity \in Store!Identity : Access!Validate(p) /\ Access!CheckAccess(roles, identity, p)
================================================================================
