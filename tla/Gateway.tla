------------------------------- MODULE Gateway -------------------------------
(***************************************************************************)
(* From the configuration to the answer: run loads and checks the          *)
(* configuration and hands every part its parameters (cmd/vault-gateway),  *)
(* and then each request goes through the middleware chain to its route    *)
(* (internal/server) and back.                                             *)
(*                                                                         *)
(* The chain is a stack of layers.  A request goes in layer by layer until *)
(* one answers; then the layers return outwards, or a panic unwinds them   *)
(* as far as recover.  The response writer is shared by all of them: the   *)
(* first WriteHeader sends the status with the headers set by then.        *)
(*                                                                         *)
(* What the handlers do is in Logins and SecretReads and only its outcome  *)
(* is here; so is the rate limiter's verdict (RateLimiter), the backend's  *)
(* reply to a health check, and whether the process ends (Lifecycle).      *)
(***************************************************************************)
EXTENDS Config, Sequences

CONSTANTS
  Files, Envs,      \* the configuration files and the VG_ variables tried
  BadPatterns,      \* metrics paths that http.ServeMux refuses as a pattern
  AllowedOrigins,   \* cors.allowedOrigins
  Requests          \* [method, route, origin, id, large]

\* Every field of the file's numbers has a number, unless YAML rejects it; NotANumber
\* stands for the text of a port's variable.  The variables may have any names.
ASSUME GatewayAssumption ==
  /\ \A c \in Files : \A f \in DOMAIN Defaults \ Text : f \in DOMAIN c /\ c[f] \in Int \cup {Malformed}
  /\ \A e \in Envs, f \in Overridable \ Ports :
       VariableOf(f) \in DOMAIN e => e[VariableOf(f)] # NotANumber

VARIABLES
  file, env,        \* what the process is started with
  cfg,              \* the loaded configuration
  phase,            \* "starting", "loaded", "serving", or how the process ended
  params,           \* what the parts were given
  q,                \* the request
  at, way,          \* the layer it is at; "in", "out", "panic", or "idle"
  w,                \* the response writer: headers set; status and headers sent
  rec,              \* the statusRecorder of the logging layer
  capped,           \* whether the body is limited
  idAt,             \* the layer that put the request id into the context
  log               \* the records written about the request

startVars == <<file, env, cfg, phase, params>>
vars == <<file, env, cfg, phase, params, q, at, way, w, rec, capped, idAt, log>>

None == [x \in {} |-> 0]

\* http.Header.Set.
SetHeader(h, name, value) == [x \in DOMAIN h \cup {name} |-> IF x = name THEN value ELSE h[x]]

Unanswered == [headers |-> None, status |-> 0, sent |-> None]
NoRecorder == [on |-> FALSE, status |-> 200, wrote |-> FALSE]

Resting ==
  /\ q = None /\ at = 0 /\ way = "idle" /\ w = Unanswered /\ rec = NoRecorder
  /\ capped = FALSE /\ idAt = 0 /\ log = <<>>

Init ==
  /\ file \in Files /\ env \in Envs
  /\ cfg = None /\ phase = "starting" /\ params = None
  /\ Resting

-------------------------------------------------------------------------------
(* run *)

\* config.Load.
Load ==
  /\ phase = "starting"
  /\ IF Parses(file) /\ Validate(Effective(file, env))
     THEN phase' = "loaded" /\ cfg' = Effective(file, env)
     ELSE phase' = "refused" /\ cfg' = cfg
  /\ UNCHANGED <<file, env, params, q, at, way, w, rec, capped, idAt, log>>

\* buildBackend: the constructors' own checks of their arguments.  Those of AWS and
\* Vault check none; Vault's login may fail for other reasons (VaultRenewal begins
\* after it).
Constructs(c) ==
  CASE c["backend"] = "azure" -> c["azure.vaultURL"] # "" /\ c["azure.namingStrategy"] \in {"", "flat", "json"}
    [] c["backend"] = "gcp" -> c["gcp.projectID"] # ""
    [] OTHER -> TRUE

\* metricsMux: registering two handlers for one pattern panics.
MetricsPathTaken(c) ==
  c["metrics.enabled"] /\ c["metrics.path"] \in {"/healthz", "/readyz"} \cup BadPatterns

\* roleTTLs, and ttlForRole on the result.
roleTTLs(c) ==
  LET roles == c["auth.roles"] IN
  [r \in {s \in DOMAIN roles : roles[s].tokenTTL > 0} |-> roles[r].tokenTTL]
ttlForRole(c, r) == IF r \in DOMAIN roleTTLs(c) THEN roleTTLs(c)[r] ELSE c["auth.tokenTTL"]

\* The constructors replace what they cannot use: NewHandlers the timeout of
\* /v1/sys/health, newIPLimiterSet the burst, startTokenCleanup the ticker's period.
checkTimeout(d) == IF d <= 0 THEN 5 ELSE d
limiterBurst(n) == IF n <= 0 THEN 1 ELSE n
cleanupInterval(d) == IF d <= 0 THEN 60 ELSE d

\* What NewHandlers, NewMiddleware and New keep of the configuration.
Given(c) ==
  [backend |-> c["backend"],
   limited |-> c["rateLimit.enabled"],
   burst |-> limiterBurst(c["rateLimit.burst"]),
   maxBody |-> c["server.maxRequestBodySize"],
   cors |-> c["cors.enabled"],
   tls |-> c["server.tls.enabled"],
   tlsMin |-> TLSMinVersion(c),
   ttls |-> {ttlForRole(c, r) : r \in DOMAIN c["auth.roles"]},
   interval |-> cleanupInterval(c["auth.tokenCleanupInterval"]),
   checked |-> c["healthCheck.backendCheck"],
   healthTimeout |-> checkTimeout(c["healthCheck.backendCheckTimeout"]),
   readyTimeout |-> c["healthCheck.backendCheckTimeout"]]

\* The rest of run up to Start.  Nothing looks at the file again.
Construct ==
  /\ phase = "loaded"
  /\ phase' = IF ~Constructs(cfg) THEN "failed"
              ELSE IF MetricsPathTaken(cfg) THEN "panicked" ELSE "serving"
  /\ params' = IF phase' = "serving" THEN Given(cfg) ELSE None
  /\ IF phase' = "serving" THEN file' = None /\ env' = None /\ cfg' = None
     ELSE UNCHANGED <<file, env, cfg>>
  /\ UNCHANGED <<q, at, way, w, rec, capped, idAt, log>>

-------------------------------------------------------------------------------
(* The chain *)

\* Plausible bugs: other orders.
MutantChainIdInside == <<"recover", "logging", "rateLimit", "requestID", "maxBody", "cors", "securityHeaders">>
MutantChainLogInside == <<"recover", "requestID", "rateLimit", "logging", "maxBody", "cors", "securityHeaders">>

\* Chain, outermost first; the mux is inside them all.
Chain == <<"recover", "requestID", "logging", "rateLimit", "maxBody", "cors", "securityHeaders">>
Layer == IF at \in DOMAIN Chain THEN Chain[at] ELSE "mux"
Entering(layer) == phase = "serving" /\ way = "in" /\ Layer = layer

\* http.ResponseWriter.WriteHeader: only the first one counts.
WriteHeader(x, code) ==
  IF x.status # 0 THEN x ELSE [x EXCEPT !.status = code, !.sent = x.headers]

\* statusRecorder.WriteHeader, for the layers inside logging.
Recorded(code) ==
  IF rec.on /\ ~rec.wrote THEN [rec EXCEPT !.status = code, !.wrote = TRUE] ELSE rec

\* A layer or handler answers and returns.
Answer(x, code) ==
  /\ w' = WriteHeader(x, code)
  /\ rec' = Recorded(code)
  /\ way' = "out"
  /\ at' = at - 1
Json(x) == [x EXCEPT !.headers = SetHeader(@, "Content-Type", "application/json")]

\* A layer calls the next one.
Call == at' = at + 1 /\ way' = "in"

Arrive(request) ==
  /\ phase = "serving" /\ way = "idle"
  /\ q' = request /\ at' = 1 /\ way' = "in"
  /\ UNCHANGED <<startVars, w, rec, capped, idAt, log>>

recoverIn ==
  /\ Entering("recover")
  /\ Call
  /\ UNCHANGED <<startVars, q, w, rec, capped, idAt, log>>

\* The id of the request: the client's, or a new one.
Id == IF q.id = "" THEN "new" ELSE q.id

requestID ==
  /\ Entering("requestID")
  /\ w' = [w EXCEPT !.headers = SetHeader(@, "X-Request-Id", Id)]
  /\ idAt' = at
  /\ Call
  /\ UNCHANGED <<startVars, q, rec, capped, log>>

logging ==
  /\ Entering("logging")
  /\ rec' = [NoRecorder EXCEPT !.on = TRUE]
  /\ Call
  /\ UNCHANGED <<startVars, q, w, capped, idAt, log>>

rateLimitAllows ==
  /\ Entering("rateLimit")
  /\ Call
  /\ UNCHANGED <<startVars, q, w, rec, capped, idAt, log>>

rateLimitRefuses ==
  /\ Entering("rateLimit")
  /\ params.limited
  /\ Answer(Json(w), 429)
  /\ UNCHANGED <<startVars, q, capped, idAt, log>>

maxBody ==
  /\ Entering("maxBody")
  /\ capped' = (params.maxBody > 0)
  /\ Call
  /\ UNCHANGED <<startVars, q, w, rec, idAt, log>>

\* The headers of an allowed origin; then OPTIONS is answered here.
corsMiddleware ==
  /\ Entering("cors")
  /\ LET x == IF params.cors /\ q.origin \in AllowedOrigins
              THEN [w EXCEPT !.headers = SetHeader(@, "Access-Control-Allow-Origin", q.origin)]
              ELSE w
     IN  IF params.cors /\ q.method = "OPTIONS"
         THEN Answer(x, 204)
         ELSE w' = x /\ Call /\ UNCHANGED rec
  /\ UNCHANGED <<startVars, q, capped, idAt, log>>

\* A plausible bug: the headers are set once the handler has answered.
MutantSecurityHeaders ==
  /\ phase = "serving" /\ way \in {"in", "out"} /\ Layer = "securityHeaders"
  /\ IF way = "in" THEN Call /\ UNCHANGED w
     ELSE /\ w' = [w EXCEPT !.headers = SetHeader(@, "Cache-Control", "no-store")]
          /\ way' = "out" /\ at' = at - 1
  /\ UNCHANGED <<startVars, q, rec, capped, idAt, log>>

securityHeaders ==
  /\ Entering("securityHeaders")
  /\ LET h == SetHeader(w.headers, "Cache-Control", "no-store")
     IN  w' = [w EXCEPT !.headers =
                 IF params.tls THEN SetHeader(h, "Strict-Transport-Security", "max-age") ELSE h]
  /\ Call
  /\ UNCHANGED <<startVars, q, rec, capped, idAt, log>>

-------------------------------------------------------------------------------
(* Routes *)

\* NewRouter: a GET pattern takes HEAD too, and the pattern "/" every other path and
\* every other method.
Route(r) ==
  CASE r.method \in {"GET", "HEAD"} /\ r.route \in {"health", "seal-status", "secret"} -> r.route
    [] r.method = "POST" /\ r.route = "login" -> "login"
    [] OTHER -> "not found"

\* HealthCheck of the backends: GCP asks for a secret that should not exist.
HealthCheck(b, reply) == reply = "ok" \/ (b = "gcp" /\ reply = "not found")
BackendReplies == {"ok", "not found", "error"}

\* HealthHandler; its timeout is positive (NewHandlers), so a reply may come in time.
HealthStatus(reply) ==
  IF params.checked /\ ~HealthCheck(params.backend, reply) THEN 503 ELSE 200

\* /readyz of the side server, which takes the timeout as configured: a context that
\* has expired fails the check.
ReadyStatus(reply) ==
  IF params.readyTimeout <= 0 \/ ~HealthCheck(params.backend, reply) THEN 503 ELSE 200

\* The statuses a handler may answer with: login's from K8sLoginHandler, where a
\* body over the limit cannot be read, and the read's from SecretReadHandler.
Outcomes(route) ==
  CASE route = "health" -> {HealthStatus(reply) : reply \in BackendReplies}
    [] route = "seal-status" -> {200}
    [] route = "login" -> IF q.large /\ capped THEN {400} ELSE {200, 400, 403}
    [] route = "secret" -> {200, 400, 403, 404, 502}
    [] OTHER -> {404}

Handle ==
  /\ Entering("mux")
  /\ \E status \in Outcomes(Route(q)) : Answer(Json(w), status)
  /\ UNCHANGED <<startVars, q, capped, idAt, log>>

\* A handler panics before it answers.  (Handlers write last.)
HandlerPanics ==
  /\ Entering("mux")
  /\ Route(q) \in {"health", "login", "secret"}
  /\ way' = "panic" /\ at' = at - 1
  /\ UNCHANGED <<startVars, q, w, rec, capped, idAt, log>>

-------------------------------------------------------------------------------
(* The way out *)

\* The id in the context of a layer: only the layers inside requestID have it.
ContextId == IF idAt # 0 /\ at > idAt THEN Id ELSE ""

\* logging writes its record when next returns, and not when a panic unwinds it.
loggingOut ==
  /\ way = "out" /\ Layer = "logging"
  /\ log' = Append(log, [kind |-> "request", status |-> rec.status, id |-> ContextId])
  /\ at' = at - 1
  /\ UNCHANGED <<startVars, q, way, w, rec, capped, idAt>>

\* recover's deferred function; its record has no status, and it writes to the outer
\* response writer.
recoverOut ==
  /\ way = "panic" /\ Layer = "recover"
  /\ log' = Append(log, [kind |-> "panic", id |-> ContextId])
  /\ w' = WriteHeader(Json(w), 500)
  /\ way' = "out" /\ at' = at - 1
  /\ UNCHANGED <<startVars, q, rec, capped, idAt>>

\* The other layers do nothing more.
Unwind ==
  /\ way \in {"out", "panic"} /\ at > 0
  /\ ~(way = "out" /\ Layer = "logging") /\ ~(way = "panic" /\ Layer = "recover")
  /\ at' = at - 1
  /\ UNCHANGED <<startVars, q, way, w, rec, capped, idAt, log>>

\* ServeHTTP has returned; net/http ends the response.
Finish ==
  /\ way = "out" /\ at = 0
  /\ q' = None /\ way' = "idle" /\ w' = Unanswered /\ rec' = NoRecorder
  /\ capped' = FALSE /\ idAt' = 0 /\ log' = <<>> /\ UNCHANGED <<at, startVars>>

-------------------------------------------------------------------------------

Step ==
  \/ recoverIn \/ requestID \/ logging \/ rateLimitAllows \/ rateLimitRefuses \/ maxBody
  \/ corsMiddleware \/ securityHeaders \/ Handle \/ HandlerPanics
  \/ loggingOut \/ recoverOut \/ Unwind \/ Finish

Next == Load \/ Construct \/ (\E request \in Requests : Arrive(request)) \/ Step

\* No fairness: a handler may wait for the backend for ever.
Spec == Init /\ [][Next]_vars

-------------------------------------------------------------------------------
(* Properties *)

\* docs/configuration.md:36: "VG_ environment variable -> config file -> built-in
\* default".  An empty or zero variable is a value like any other and is not
\* replaced by the default.  This holds of the thirteen variables that the code reads;
\* the docs promise more, "any field can be overridden" (24), and call the variable of
\* logging.level VG_LOGGING_LEVEL (34), which is not read: what it is set to changes
\* nothing.
Precedence ==
  phase = "loaded" =>
    \A f \in DOMAIN cfg :
      cfg[f] = IF /\ f \in Overridable /\ VariableOf(f) \in DOMAIN env
                  /\ env[VariableOf(f)] # NotANumber
               THEN env[VariableOf(f)]
               ELSE IF f \in DOMAIN Defaults /\ Unset(file, f) THEN Defaults[f]
               ELSE file[f]

\* What Validate accepts, the backend constructors accept: they check the same
\* fields again, and a disagreement shows only when the pod starts.  Of the backend
\* constructors only: metricsMux panics for a metrics.path that Validate accepts, and
\* Vault's login may fail.
ValidatedConfigsConstruct == phase # "failed"

\* A gateway that serves works with parameters its parts can use, whatever mixture
\* of file, variables and defaults they come from: every role's tokens live for a
\* while, the cleanup ticker has a positive period (time.NewTicker panics
\* otherwise), the limiter lets a first request through, health checks have time to
\* answer, and TLS is 1.2 or later.  And /v1/sys/health and /readyz tell of one and
\* the same reply of the backend the same (unless backendCheckTimeout is negative,
\* which Validate accepts: then /readyz never is ready).
ServesWithUsableParameters ==
  phase = "serving" =>
    /\ \A ttl \in params.ttls : ttl > 0
    /\ params.interval > 0 /\ params.burst > 0 /\ params.healthTimeout > 0
    /\ params.tlsMin \in {12, 13}
    /\ params.checked /\ params.readyTimeout > 0 =>
         \A reply \in BackendReplies : HealthStatus(reply) = ReadyStatus(reply)

\* Every answer carries the request id: the early answers of outer layers and the
\* 500 of a recovered panic too, and the access log has the same id.
IdOnEveryAnswer ==
  way = "out" /\ at = 0 =>
    /\ "X-Request-Id" \in DOMAIN w.sent /\ w.sent["X-Request-Id"] = Id
    /\ \A i \in DOMAIN log : log[i].kind = "request" => log[i].id = Id

\* A request leaves exactly one record: an access record of the status its client was
\* sent or, when a panic skipped the access record and the client was sent a 500, the
\* record of the panic.
OneTrueRecord ==
  way = "out" /\ at = 0 =>
    /\ Len(log) = 1
    /\ \/ log[1].kind = "request" /\ log[1].status = w.status /\ w.status # 500
       \/ log[1].kind = "panic" /\ w.status = 500

\* An answer that comes from a handler, or from recover for it, carries the security
\* headers; the answers given before that layer (429, and 204 to a preflight) are
\* the only ones that do not.
HandlersAnswersAreProtected ==
  way = "out" /\ at = 0 /\ w.status \notin {204, 429} =>
    /\ "Cache-Control" \in DOMAIN w.sent
    /\ params.tls => "Strict-Transport-Security" \in DOMAIN w.sent
===============================================================================
