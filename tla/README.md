# vault-gateway in TLA+

vault-gateway is a small HTTP service that speaks the part of the Vault API that
applications need (Kubernetes login, KV v2 read) and answers from one of four
secret stores: AWS Secrets Manager, Azure Key Vault, GCP Secret Manager, or a
real Vault. `vault-inject` is the wrapper that runs in an application's
container, resolves `vault:` references through the gateway, and replaces itself
by the application.

This directory holds TLA+ modules of both programs, TLC configurations that
check them on small instances, and TLAPS proofs. `PROJECT.json` lists every run,
the source lines behind each definition, and the hazards the properties are for.

## Inventory

| Component | State | Operations | Hard behaviour |
|---|---|---|---|
| Token store `internal/auth/token_store.go` | `byToken`, `identityCnt` | IssueToken, VerifyToken, RevokeToken, CleanupExpired, TokenCount | two maps that must agree; lifetime at its boundary; the quota given back |
| Cache `internal/cache/cache.go` | `items`, the LRU list | Get, Set, SetNegative, Invalidate, Flush | map and list must agree; eviction order; no prolonging |
| Path validation and RBAC `internal/secretpath`, `internal/auth/rbac.go` | none | Validate, MatchPath, CheckBinding, CheckAccess | backtracking glob; the path decided on is the path fetched |
| Read handler `internal/api/secrets.go` | per request | SecretReadHandler | lookup, fetch and fill without a common lock; wiping of maps |
| Login handler `internal/api/auth.go`, validator `internal/auth/validator.go` | per request, the active-tokens gauge | K8sLoginHandler, ValidateK8sJWT | concurrent logins; the gauge written from counts taken earlier |
| Token cleanup `cmd/vault-gateway/main.go` | a goroutine | startTokenCleanup | races with logins |
| Rate limiter `internal/server/middleware.go` | IP to limiter | allow, cleanup | limiter used after unlocking; cutoff computed before locking |
| Lifecycle `cmd/vault-gateway/main.go`, `internal/server/server.go` | two servers, context, error channel, backend | run, Start, shutdown | signals and failures at any point; one grace period for two drains |
| Backends `internal/backend/*` | a cache, a provider client, the cache-entries gauge | GetSecret, HealthCheck, Close | list-then-get (Azure); paths whose names meet (Azure, GCP); the gateway's own Vault token |
| vault-inject `cmd/vault-inject/main.go` | environment, path cache | copyBinary, run, withRetry, resolveEnviron | a copy cut short; retries, lost answers, one context for everything, secrets that change |
| Middleware and routes `internal/server/middleware.go`, `routes.go` | per request: response writer, status recorder, context | recover, requestID, logging, rate limit, maxBody, CORS, headers, the mux | early answers skip inner layers; panics skip outer ones |
| Configuration `internal/config/config.go` | the loaded configuration | Load, applyDefaults, applyEnvOverrides, Validate | the order of defaults and overrides; what Validate lets through to the parts |
| Health `internal/api/health.go`, `/readyz` in `server.go` | none | HealthHandler, SealStatusHandler | two endpoints, two timeouts, one backend |
| Metrics, response types | gauges and counters | | only the gauges can be wrong |

Interactions. A login calls the TokenReview API, then RBAC, then the token store.
A read calls the token store, RBAC, and the backend, whose GetSecret uses the
cache and the provider. No lock is held from one of these calls to the next; each
of store, cache and limiter set protects only itself with a mutex. The sweeper
shares the store and the gauge with the handlers. The middleware chain, with the rate
limiter in it, stands before all handlers. The configuration is read once, before
anything is built, and handed to the parts. The lifecycle owns all of them. vault-inject meets the gateway only
over HTTP. What makes each component correct is stated as the properties of its
module, below.

## Modules

| Module | Models | Abstract specification |
|---|---|---|
| `TokenStore` | the token store; one action per method, each under the mutex | `TokenLease`: tokens are leases |
| `Cache`, `CacheRecency` | the cache; the second adds a history of uses | `CacheContract`: answers good until an instant, that may be forgotten |
| `RBAC` | Validate, MatchPath, CheckBinding, CheckAccess as operators | `Covers` in `AccessDecision` |
| `AccessDecision` | the decision about one caller and one path | |
| `SecretReads` | concurrent reads; composes `TokenStore`, `Cache`, `RBAC` | |
| `Logins` | concurrent logins and the sweeper; extends `TokenStore` and `RBAC` | |
| `RateLimiter` | ipLimiterSet and its cleanup | `RateContract`: one bucket per address for ever |
| `Lifecycle` | boot, serving, shutdown | |
| `CloudBackends` | GetSecret of AWS, Azure (both strategies) and GCP: naming, listing, cache keys, the gauge | |
| `Config` | defaults, overrides and validation as operators | |
| `Gateway` | from the configuration to the parts' parameters, then each request through the chain and its route; uses `Config` | |
| `VaultRenewal` | login and renewal of the gateway's own Vault token | |
| `VaultInject` | the startup wrapper, and its copying by the init container | |
| `MC...` | values of constants for TLC | |
| `AuthProofs` | theorems about `TokenStore`, `AccessDecision` (with `RBAC`) and `Logins` | |
| other `...Proofs` | theorems about the module they are named after; `CacheProofs` also about `CacheRecency` | |

How the code maps to the models:

- A method that holds its mutex for its whole body is one action. A handler is a
  process with a `pc`, cut wherever it leaves a lock, calls out, or reads shared
  state again. So `allow` is two actions (find under the lock, ask after it), the
  gauge update is two (count, set), and GetSecret is lookup, fetch, fill.
- Go maps that are keyed dynamically are functions whose DOMAIN is the key set.
- Maps of secrets are objects in `SecretReads`, because the handler wipes the one
  it holds with `clearMap`: cache entries and requests refer to objects in `heap`,
  and `cloneMap` allocates. In `Cache` alone a secret is one value.
- A path is its sequence of segments in `RBAC`, and a sequence of characters in
  `CloudBackends`, where the naming is at issue. JWTs, tokens and secrets are
  opaque.
- `CloudBackends` takes the cache by its contract with the clock left out: it holds
  the last answer filled in and may forget it at any moment. The entries
  gauge is counted and written as in the code; no property is about its value.
- A configuration is a function from the names of fields, with the zero value where
  YAML leaves a field unset, so that a zero in the file and no mention of the field
  are the same, as they are in the code. Fields that nothing is decided by (cache
  settings, secret prefixes, cipher suites) are left out of it.
- The middleware chain is a sequence of layers. A request moves inwards layer by
  layer until one answers, then outwards; a panic moves outwards too, past every
  layer but recover. The response writer keeps what the first WriteHeader sent. Layers
  share nothing between requests but the rate limiter, so one request at a time is
  enough.
- Time is a count of ticks. `Expired` is strict, as `time.Time.After` is.
- Left out everywhere: log lines, audit records, counters and histograms, and the
  layout of responses. Statuses are kept.
- The `Mutant...` definitions are plausible bugs. Each replaces one definition to
  show that a property can fail; no specification uses them.

External parts, modelled from how the code uses them: `net/http` servers and
`Shutdown`, `rate.Limiter`, `container/list`, Vault's LifetimeWatcher, and
whoever writes secrets at a provider.

## Runs

Each passing run fires all its actions; distinct states in parentheses.

- **token_store** (`TokenStore.cfg`). Three tokens, two accounts, two roles,
  lifetimes 1 and 2, quota 2. `CountsMatchTokens`: the counters equal the stored
  tokens. `QuotaRespected`. `ImplementsLease`: refinement of `TokenLease`.
  `QuotaFreed`: an identity at its quota does not stay there.
- **cache** (`Cache.cfg`, 5.7k). Three paths in a cache of two, so that eviction,
  expiry and hits interact. `LruMatchesItems`, `SizeBounded`, `KeepsMostRecent`
  (against the history of uses), `ImplementsContract`.
- **path_globs** (`PathGlobs.cfg`). All patterns of up to three segments over
  `a`, `b`, `*`, `**`, against all paths of up to four segments over `a`, `b`,
  `..` and the empty segment, and some longer or forbidden ones; some patterns have
  outer slashes, which the code trims, or are empty. `GlobIsCover`:
  the recursion agrees with a definition by cuts, where `**` takes one segment or
  more, as the comment on MatchPath says and two documents do not (see below).
  `AuthorizedPathIsFetched`.
  A decision is taken once and the run then stops, so deadlock is not checked.
- **read_races** (`ReadRaces.cfg`, 2.2M). Two reads of a path one role allows, one
  none allows and a malformed one, by tokens of two roles; two contents, two changes
  at the provider, TTLs of one tick. `NoSharedMaps`, `ServedIntact`,
  `BoundedStaleness`, `OnlyAllowedPathsReachTheCache`. Symmetric in requests and
  contents (no liveness here).
- **logins** (`Logins.cfg`, 0.6M). Two logins with good, malformed, unauthenticated and
  missing credentials, and the sweeper. `TokensAreEarned`: every stored token is of a
  well-formed service account that a review named and that the role admits.
  `GaugeConverges`.
- **vault_inject** (`VaultInject.cfg`, 77k). Four containers: two environments,
  with and without ignoring missing secrets, after a copy that may fail or be cut
  short any number of times. `StartsResolved`, `VariablesKept`,
  `OneVersionPerPath`, `StartupBounded`, `StartupEnds`.
- **rate_limiter** (`RateLimiter.cfg`, 1.1M). Two addresses, two requests,
  cleanup with its cutoff taken early. `OneBucketPerAddress`,
  `ImplementsContract`.
- **lifecycle** (`Lifecycle.cfg`, 27k). Two handlers on either server, a grace
  period of two ticks. Start launches the servers one after the other and the limiter
  cleanup after them, so requests may be served before it runs.
  `CleanExitMeansDrained`, `BackendOutlivesHandlers`, `ShutdownBounded`,
  `CauseEndsProcess`, and `SuccessSwallowsNoError`: the process reports success only
  when it was told to stop and Start had received no error. It does not say that no
  server had failed: when a signal and an error are both ready the select may take the
  signal, and a server may still fail before Shutdown reaches it; such an error stays
  unread and the exit is a success.
- **cloud_backends** (`CloudBackends.cfg`, 0.95M). Each backend in turn. Under Azure's
  flat strategy one read at a time of two paths whose names begin alike, with up to
  three writes or deletions in between; under the others two reads at once of two
  paths that GCP takes for one secret (ids are cut at three characters, for 255) and
  AWS and Azure's json strategy do not. `EveryKeyWasSo`: what a read is about to cache
  was so, key by key, while it read. `OwnKeysOnly`: a path gets the keys of the paths
  kept where it is, and no others. `AnsweredFromOwnSecrets`. Symmetric in requests. The first two need conditions
  on names, which the instance meets and the theorems state: `FlatKeys` (a flat key has
  no hyphen and no slash) and `FlatPaths` (separators neither meet in a path nor end it).
- **gateway** (`Gateway.cfg`, 0.8M). Every file that differs from a working one in up
  to two fields, with up to one `VG_` variable under the name the code looks up, or
  under the documented one that it does not (`VG_LOGGING_LEVEL`); then every method, route, origin and
  client id, with every outcome of a handler, a panic included. `Precedence`
  (of the thirteen variables the code reads), `ValidatedConfigsConstruct` (no backend's
  constructor refuses what Validate let through; the panic of a bad `metrics.path` and
  Vault's login are apart), `ServesWithUsableParameters`: of the way from the
  file to the parts. `IdOnEveryAnswer`, `OneTrueRecord`,
  `HandlersAnswersAreProtected`: of the chain. Routes for GET match HEAD too, as the
  mux has it. A refused
  configuration ends the process, so deadlock is not checked.

Two runs show a disagreement between the code and what it says of itself:

- **namespace_wildcard**: `docs/authentication.md:117` gives both lists of a role
  a `*` wildcard; `CheckBinding` and `CheckAccess` know it for service accounts
  only.
- **token_renewal**: `startRenewal` is said to keep the token renewed until Close
  (`internal/backend/vault/backend.go:190`). The goroutine also returns when the
  watcher is done, at the token's maximum TTL, and nothing logs in again. The
  model is generous: Vault always answers and renewals are always in time. The
  clock stops at `Horizon`, and a failed or closed backend does nothing more, so
  deadlock is not checked.

### Bounds

`Horizon` bounds clocks, `MaxChanges` writes at a provider, `MaxFetch` the length
of a provider call, `MaxStall` how long a goroutine is held up between two steps
of `allow`. They are large enough for the interesting cases: every token can
expire and be reissued; a cache entry can be filled, expire and be filled by a
slower, older read; the backoff can outlast the login timeout; an idle limiter can
be dropped and made anew. In `CloudBackends` a secret can be listed, deleted before
it is got, and come back (three changes, one read), and racing reads can fill one cache
key in either order (two reads). Two unusual fields at once
reach every pair of conditions of Validate. `TokenStore` issues only tokens that expire before the
horizon, so that liveness is not refuted by the end of time.

Two bounds are also assumptions about the environment. `BoundedStaleness` holds
up to `MaxFetch`: the gateway sets no limit of its own on a provider call, so the
age of an answer is the TTL plus the longest call. `RateLimiterAssumption` says
that a bucket left idle for `MaxIdle - MaxStall` is full again; with the code's
10 minutes this holds when burst / rate is below ten minutes. A configuration
with a burst that takes longer to refill would make the cleanup visible.

### Fairness

- `TokenStore`: the clock and the sweep. startTokenCleanup loops on a ticker until
  the process ends.
- `Logins`: each started login takes its next step. Handlers do not wait for each
  other, and the TokenReview has a timeout. No fairness is assumed for new requests.
- `VaultInject`: the one thread, once it is copied, and the clock. Each call has a
  deadline. That the init container ever succeeds is not assumed.
- `Lifecycle`: the main goroutine and the clock. Handlers may hang for ever and
  servers need not start.
- The other runs check safety only and assume none. In particular `Gateway` does not
  assume that a handler ends: backend calls have only the request's context
  (`api/secrets.go:60`).

## Proofs

Every theorem is about the specification that a run checks, for every value of the
constants the named assumptions allow; TLC evaluates the assumptions on each run.
Each rests on an inductive invariant, kept by every action, that is stronger than
what it proves. These are the invariants and why they are needed.

**`AuthProofs`** has three parts, for who gets a token and what it opens.

*The token store* (`TokenStoreAssumption`: lifetimes are naturals, the quota an integer).
`TypeCorrect`, `CountsCorrect`, `QuotaHolds`, `StoreImplementsLease`.
`IInv` is the types, the finiteness of the store and `CountsMatchTokens`. The
counters' equality is not inductive alone: cardinalities say nothing of an infinite
set, and with a zero stored in `identityCnt` the removal of a key could not be told
from a decrement. `DeleteKeepsIInv` is the heart: removing any set of entries takes
as much off each counter as it takes out of the store. RevokeToken and
CleanupExpired both follow from it. The quota is then inductive relative to `IInv`.
The refinement maps the entries VerifyToken accepts to leases: an issue is a grant, a
revocation an end, or a stutter when the token had expired already; sweeps and
lookups are stutters, because a sweep removes only what is no longer accepted; a
tick ends what it passes.

*The access decision* (`AccessAssumption`: patterns and paths are nonempty
sequences of strings, as `strings.Split` returns them). `MatchSegmentsIsCover`: for all
sequences of strings, the backtracking of `matchSegments` finds a match exactly when
`Covers` says that there is one. `AccessIsByCover` and `FetchesWhatIsAuthorized` are
the two properties of the run, now for all patterns and paths. A recursive function is
whatever solves its equation, so two things are shown: that `CoversFrom` (the covers
of the ends of pattern and path) solves the equation, and that all its solutions
agree. The second is an induction on the number of pattern segments left, by way of a
least counterexample: `LeastNatural` gives every nonempty set of naturals a least
member.

*Logins* (`LoginsAssumption`: the store is made for the roles and lifetimes of the
configuration and the service accounts of the cluster; the mark for no token is not a
token). `LoginsEarnTokens`, `LoginsUseTheStore`, `LoginsKeepTheQuota`.
`LoginInv` says what the place of a handler implies: under review it holds a JWT and no
token; when bound, its identity has been vouched for and the role admits it; and the
token a handler holds, if it is stored, is of the handler's identity. Without the first
two, a token could be issued for an identity that was never reviewed. The last survives
another handler's issue because the new token is one that nobody holds (256 random bits
in the code). Sweeps only remove tokens (`TokensLeave`). What a bound handler holds is
also what makes its issue a step of `TokenStore`, so that a login is a step of the store
or leaves it alone, and the counters and the quota hold under concurrent logins too.

**`CacheProofs`** (`CacheAssumption`: any TTLs and any limit, positive or not).
`ListAndMapAgree`, `CacheIsBounded`, `EvictsLeastRecent`, `CacheImplementsContract`.
The lemmas say what removing, moving and pushing do to a list without duplicates.
`IInv` is the types, the finiteness of the map, `LruMatchesItems` and `SizeBounded`:
the limit is on the map and eviction takes from the list, so each needs the other.
`RecencyInv` adds that the history names no path twice. The refinement maps the
entries that a Get would answer to the answers of the contract.

**`SecretReadsProofs`** (`SecretReadsAssumption`: TTLs and the longest provider call
are naturals; paths, requests and maps are finitely many, with a map to spare, so that
allocation never fails). `MapsAreNotShared`, `ServesIntactSecrets`, `AnswersAreRecent`,
`AccessBeforeCache`. `SInv` says of each request what its place in the handler implies
(`Control`), that what it holds was true at the provider within its time (`Fresh`),
and the same of each cache entry (`Sound`, `Allowed`). They depend on each other: a
map is intact only as long as nobody else holds it, a hit is as recent as the entry
and the entry as recent as the read that filled it, which may have been slow.

**`RateLimiterProofs`** (`RateLimiterAssumption`: an idle bucket refills within
`MaxIdle - MaxStall`; `LimiterAssumption`: there is a limiter to allocate).
`OneBucket`, `LimiterImplementsContract`. The invariant adds that no two addresses
share a limiter, that a request between the two steps of `allow` has noted its use at
most `MaxStall` ago, and that the cutoff of the cleanup is at least `MaxIdle` old. So
what cleanup removes is held by nobody and is full: making it anew changes no level.

**`LifecycleProofs`** (`LifecycleAssumption`: a positive grace period). `CleanExit`,
`OneGracePeriod`, `BackendClosedLast`, `NoErrorSwallowed`, and `ErrorsNeverBlock`: the
error channel never holds more than the two errors it has room for, so neither
server's goroutine blocks on it. The invariant ties the place of the main goroutine to
what the servers and their handlers may be doing there, an unreported drain to no
handler left on that server, and the failure of a server to its error, which is unread
in the channel or is what Start will return.

**`CloudBackendsProofs`** (`CloudBackendsAssumption`: paths and keys are nonempty strings
of characters, finitely many, and every path has a key). `AnswersAreOwn`,
`ReadsWereSo`, `KeysAreOwn`. `BackendInv` says of the cache that each
entry is right for every path that has its key, of the provider that a version is kept
under the name it was written under, and of each read (`ReadInv`):

- `OwnRead`: all it holds comes from where its path is kept;
- `TrueRead`: for each key of its path, either the read has still to come to it (its
  name is further on in the listing, or among the names listed and not yet got) or what
  the result says of it was so since the read began. A key that is not listed was gone
  when its page was made, a listed one that is gone when it is got was deleted
  meanwhile; both are in `seen`;
- `PlainRead`: the keys gathered so far are keys of the paths kept here.

The last two are about flat names and need lemmas on the naming. `EncodeOfDecoded`: a
name that belongs to a path is the encoding of its decoded key, for all paths and keys;
so what is served under a key does come from the key's own secret, with no condition.
`DecodeOfEncoded`: a key without hyphens and slashes is given back as it was written;
`ReadsWereSo` assumes this (`FlatKeys`). `SamePrefix`: when neither path has two
separators together, or one at its end, a name of one path carries another's prefix
only if both encode alike; `KeysAreOwn` assumes this too (`FlatPaths`). The conditions
are needed: the names of `a--b` and of `a/_b` carry the prefix of `a`, so a read of `a`
would have their keys too, and a key with a hyphen is answered under the name
with an underscore, as `naming.go:79` says.

**`GatewayProofs`** (`GatewayAssumption`: fields that are numbers hold numbers or
something YAML refuses; variables may have any names, and only a port's can be the text
that is not a number). `VariablesTakePrecedence`,
`BackendsAcceptValidated`, `ParametersAreUsable`, `AnswersCarryTheId`, `RecordsAreTrue`,
`AnswersAreProtected`. `GInv` has one conjunct for each way a request moves: on the
way in, what the layers passed so far have given it; on the way out, what it was
answered and what is in the log; in a panic, the same without an answer yet. The
number of the layer decides how much of it holds.

**`VaultInjectProofs`** (`VaultInjectAssumption`: environments and from-paths are
sequences, secrets have finitely many keys, timeouts and attempts are positive).
`StartsOnlyResolved`, `VariablesAreKept`, `PathsAreReadOnce`, `StartupIsBounded`.
`VInv` says which part of the work list is done and what it left in the new
environment (`ResolvedSoFar`, `KeptSoFar`), that every value in it is of the version
cached for its path (`Fetched`), and how much of the time each attempt can have used
(`InTime`). The last needs that the pauses double, which `Pause`, being recursive,
does by an induction like the one above.

Only model-checked:

- All liveness: `QuotaFreed`, `GaugeConverges`, `StartupEnds` and `CauseEndsProcess`.
  Fairness and ENABLED are out of the prover's reach.
- The two runs that expect a violation are refutations, and TLC's.

Every other property of a passing run is a theorem.

## Not modelled

- Response types and their layout, counters and histograms, log and audit lines
  (but for the request's one record), banners, cluster and request id generation.
- TLS itself, cipher suites and HTTP client construction beyond its failing; YAML
  parsing and `time.ParseDuration` beyond rejecting a value.
- `sourceIP`: the rate limiter's address is an input of `RateLimiter`.
- The mux's own redirects of unclean paths, which precede the routes.
- A json secret `null`, which Azure takes for an empty secret and GCP refuses; in
  `CloudBackends` a payload is an object of strings or is not.
- Deployment files, the development environment and the end-to-end tests.
- Timing side channels and memory wiping as such: not state of the program.

## Other disagreements met while reading

Not the subject of a run:

- `docs/authentication.md:172` and `docs/security-model.md:96` say that `**` "matches
  any number of segments". In the code (`rbac.go:118`) and in its comment it takes one
  or more: `a/**` does not match `a`, nor `a/**/b` the path `a/b`. `GlobIsCover` and
  `MatchSegmentsIsCover` are about the code's meaning.
- `README.md:117` says that vault-inject "retries 3x on transient errors (500ms -> 1s ->
  2s)". `withRetry` makes three attempts in all, with pauses of 500ms and 1s
  (`cmd/vault-inject/main.go:345`). `StartupBounded` states the bound of the code; three
  retries after the first attempt would exceed it in time and in tokens.
- `docs/configuration.md:34` names `VG_LOGGING_LEVEL` as the variable of `logging.level`.
  The code reads `VG_LOG_LEVEL` (`config.go:313`); the documented one changes nothing.
  The same page says "Any field can be overridden" (`:24`); thirteen can. `Precedence`
  is about the thirteen names of the code.
- `README.md:420` says "All `VAULT_*` vars are stripped from the child process". The code
  strips a fixed list (`cmd/vault-inject/main.go:76`); `VariablesKept` counts any other
  `VAULT_` variable as the application's own.
- `docs/configuration.md:224` calls `maxTokensPerIdentity` a cap on "live" tokens.
  Expired tokens count until the next sweep (`token_store.go:85`).
- `README.md:417-418` describes separate login and read timeouts. All reads share
  the login's context (`cmd/vault-inject/main.go:161`, `247`).
- `cmd/vault-inject/main.go:200-201` says a path is fetched at most once. A failed
  fetch is not remembered and is repeated for the next variable.
- `cmd/vault-inject/main.go:342-344` says a 4xx stops the retries. One whose body
  is not JSON fails in the decoder first and is retried.
- `middleware.go:213` sets headers "on every response". 429s and CORS preflights
  are answered by outer layers. `HandlersAnswersAreProtected` is what remains true.
- A panicking request is recovered outside the logging layer and gets no access
  log line. The record of the panic asks the outer request's context for the id
  (`middleware.go:117`), which does not have it, so its `request_id` is empty.
- `docs/configuration.md` gives defaults the code does not have: TLS, caches, metrics
  and backend checks are off unless enabled (`config.go:228` sets no flag), the read
  and idle timeouts, `tokenTTL`, `maxTokensPerIdentity` and `backendCheckTimeout`
  differ.
- `metrics.path` is not validated; `/healthz`, `/readyz` or a path that is no mux
  pattern panics when the side server is built (`server.go:111`).
- A negative `backendCheckTimeout` passes Validate. `/v1/sys/health` falls back to
  five seconds, `/readyz` (`server.go:120`) is never ready.
- `backendCheckInterval` is parsed and defaulted and never used.
- `docs/configuration.md:190` says of GCP that "a plain string is returned as
  `{"value":"..."}`". AWS does so; GCP (`gcp/backend.go:184`) and Azure's json strategy
  fail the read.
- The active-tokens gauge may be wrong between two sweeps when logins race
  (`api/auth.go:89`); `GaugeConverges` is what remains true.
- `metrics.go:90` calls the cache-entries gauge the "Current number of cache entries".
  Negative fills, expiry and removals do not update it, and of two racing fills the
  older count may be written last. Nothing is claimed of its value.
- An Azure json secret `null` is cached and served as an empty secret; GCP refuses
  the same payload.

## Plan

Nothing of the plan is open: the components named above are modelled, every safety
property that a run checks is proved, and liveness is checked by TLC. A change in the code
touches the definition that `map` in `PROJECT.json` gives for its lines; then the run
first, and the `...Keeps` lemma of the action in the module's proofs. Worth adding when
the code grows: the outcome of registering `metrics.path` with the mux, once it is
validated, and a login of the Vault backend after the maximum TTL, which would turn
`token_renewal` into a passing run.
