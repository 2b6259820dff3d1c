----------------------------- MODULE GatewayProofs -----------------------------
(***************************************************************************)
(* Gateway for every configuration file, every set of VG_ variables and    *)
(* every request: what a loaded configuration says, that the backends      *)
(* accept it and it is usable, and what every answer carries and leaves in *)
(* the log.                                                                *)
(***************************************************************************)
EXTENDS Gateway, SequenceTheorems, TLAPS

\* What is known of the start of the process.
Started ==
  /\ phase \in {"starting", "loaded"} => file \in Files /\ env \in Envs
  /\ phase = "loaded" => Parses(file) /\ cfg = Effective(file, env) /\ Validate(cfg)
  /\ ValidatedConfigsConstruct
  /\ ServesWithUsableParameters

HasId(h) == "X-Request-Id" \in DOMAIN h /\ h["X-Request-Id"] = Id
Protected(h) ==
  /\ "Cache-Control" \in DOMAIN h
  /\ params.tls => "Strict-Transport-Security" \in DOMAIN h
Unsent == w = [headers |-> w.headers, status |-> 0, sent |-> None]

\* Between requests.
AtRest == way = "idle" => at = 0 /\ w = Unanswered /\ log = <<>>

\* On the way in, a request has been given what the layers it has passed give it.
GoingIn ==
  way = "in" =>
    /\ at \in 1 .. 8 /\ Unsent /\ log = <<>>
    /\ at > 2 => HasId(w.headers) /\ idAt = 2
    /\ at > 3 => rec = [on |-> TRUE, status |-> 200, wrote |-> FALSE]
    /\ at > 7 => Protected(w.headers)

\* A panic starts in the mux, inside all the layers, before anything was sent.
Panicking ==
  way = "panic" =>
    /\ at \in 1 .. 7 /\ Unsent /\ log = <<>>
    /\ HasId(w.headers) /\ idAt = 2 /\ Protected(w.headers)

\* The access record of what was sent, or the record of the panic behind a 500.
TrueRecord(entry) ==
  \/ entry.kind = "request" /\ entry.status = w.status /\ w.status # 500 /\ entry.id = Id
  \/ entry.kind = "panic" /\ w.status = 500

\* On the way out the answer is complete; its record is written at the third layer.
GoingOut ==
  way = "out" =>
    /\ at \in 0 .. 7 /\ HasId(w.sent) /\ idAt = 2
    /\ w.status \notin {204, 429} => Protected(w.sent)
    /\ at >= 3 => log = <<>> /\ rec.status = w.status /\ w.status # 500
    /\ at < 3 => \E entry : log = <<entry>> /\ TrueRecord(entry)

\* The inductive invariant.  The properties speak of an answer that has left the
\* outermost layer; what it carries was put on it layer by layer on the way in.
GInv ==
  /\ Started
  /\ way \in {"idle", "in", "panic", "out"}
  /\ way # "idle" => phase = "serving"
  /\ AtRest /\ GoingIn /\ Panicking /\ GoingOut

--------------------------------------------------------------------------------
(* The configuration *)

\* The fields that no variable overrides are what the file says, or the default.
LEMMA NumbersStayNumbers ==
  ASSUME NEW c \in Files, NEW e \in Envs, Parses(c),
         NEW f \in {"rateLimit.burst", "healthCheck.backendCheckTimeout"}
  PROVE  Effective(c, e)[f] \in Int
<1>1. f \in DOMAIN Defaults \ Text /\ Defaults[f] \in Int
  <2>1. PICK d \in DefaultTable : d[1] = f
    BY DEF DefaultTable
  <2>2. \A t \in DefaultTable : t[1] = f => t[2] \in Int
    BY DEF DefaultTable
  <2>3. (CHOOSE t \in DefaultTable : t[1] = f) \in DefaultTable
        /\ (CHOOSE t \in DefaultTable : t[1] = f)[1] = f
    BY <2>1
  <2>4. f \notin Text
    BY DEF Text
  <2> QED
    BY <2>1, <2>2, <2>3, <2>4 DEF Defaults
<1>2. f \in DOMAIN c /\ c[f] \in Int
  BY <1>1, GatewayAssumption DEF Parses
<1>3. f \notin Overridable
  BY DEF Overridable, OverrideTable
<1>4. applyDefaults(c)[f] \in Int /\ DOMAIN applyDefaults(c) = DOMAIN c
  BY <1>1, <1>2 DEF applyDefaults
<1> QED
  BY <1>2, <1>3, <1>4 DEF Effective, applyEnvOverrides, Applies

\* What Validate accepts, the constructors do.
LEMMA ValidConstructs ==
  ASSUME NEW c, Validate(c)
  PROVE  Constructs(c)
<1>1. c["backend"] \in {"aws", "azure", "vault", "gcp"} /\ validateBackend(c)
  BY Zenon DEF Validate
<1>2. CASE c["backend"] = "aws"
  BY <1>2 DEF Constructs
<1>3. CASE c["backend"] = "azure"
  BY <1>1, <1>3 DEF validateBackend, Constructs
<1>4. CASE c["backend"] = "vault"
  BY <1>1, <1>4 DEF validateBackend, Constructs
<1>5. CASE c["backend"] = "gcp"
  BY <1>1, <1>5 DEF validateBackend, Constructs
<1> QED
  BY <1>1, <1>2, <1>3, <1>4, <1>5

\* What the parts are given of a valid configuration.
LEMMA GivenUsable ==
  ASSUME NEW c, Validate(c),
         c["rateLimit.burst"] \in Int, c["healthCheck.backendCheckTimeout"] \in Int
  PROVE  /\ \A ttl \in Given(c).ttls : ttl > 0
         /\ Given(c).interval > 0 /\ Given(c).burst > 0 /\ Given(c).healthTimeout > 0
         /\ Given(c).tlsMin \in {12, 13}
         /\ Given(c).readyTimeout \in Int
<1>1. c["auth.tokenTTL"] > 0 /\ c["auth.tokenCleanupInterval"] > 0
  <2>1. PositiveDurations(c)
    BY Zenon DEF Validate
  <2> QED
    BY <2>1 DEF PositiveDurations, Positive
<1>2. \A r : ttlForRole(c, r) > 0
  BY <1>1 DEF ttlForRole, roleTTLs
<1>3. cleanupInterval(c["auth.tokenCleanupInterval"]) > 0
  BY <1>1 DEF cleanupInterval
<1>4. limiterBurst(c["rateLimit.burst"]) > 0
  BY DEF limiterBurst
<1>5. checkTimeout(c["healthCheck.backendCheckTimeout"]) > 0
  BY DEF checkTimeout
<1>6. TLSMinVersion(c) \in {12, 13}
  <2>1. parseTLSVersion(c["server.tls.minVersion"]) \in {0, 12, 13}
    BY DEF parseTLSVersion
  <2> QED
    BY <2>1 DEF TLSMinVersion
<1> QED
  BY <1>2, <1>3, <1>4, <1>5, <1>6 DEF Given

LEMMA LoadStep ==
  ASSUME GInv, Load
  PROVE  GInv'
<1>1. phase = "starting" /\ phase' \in {"loaded", "refused"}
      /\ UNCHANGED <<file, env, params, q, at, way, w, rec, capped, idAt, log>>
  BY DEF Load
<1>2. way = "idle"
  BY <1>1 DEF GInv
<1>3. Started'
  BY <1>1 DEF Load, GInv, Started, ValidatedConfigsConstruct, ServesWithUsableParameters
<1>4. AtRest' /\ GoingIn' /\ Panicking' /\ GoingOut' /\ way' = "idle"
  BY <1>1, <1>2 DEF GInv, AtRest, GoingIn, Panicking, GoingOut
<1> QED
  BY <1>3, <1>4 DEF GInv

LEMMA ConstructStep ==
  ASSUME GInv, Construct
  PROVE  GInv'
<1>1. phase = "loaded" /\ UNCHANGED <<q, at, way, w, rec, capped, idAt, log>>
  BY DEF Construct
<1>2. way = "idle"
  BY <1>1 DEF GInv
<1>3. /\ file \in Files /\ env \in Envs /\ Parses(file)
      /\ cfg = Effective(file, env) /\ Validate(cfg)
  BY <1>1 DEF GInv, Started
<1>4. Constructs(cfg)
  BY <1>3, ValidConstructs
<1>5. phase' \in {"panicked", "serving"} /\ (phase' = "serving" => params' = Given(cfg))
  BY <1>4 DEF Construct
<1>6. ASSUME phase' = "serving" PROVE ServesWithUsableParameters'
  <2>1. cfg["rateLimit.burst"] \in Int /\ cfg["healthCheck.backendCheckTimeout"] \in Int
    BY <1>3, NumbersStayNumbers
  <2>2. /\ \A ttl \in Given(cfg).ttls : ttl > 0
        /\ Given(cfg).interval > 0 /\ Given(cfg).burst > 0 /\ Given(cfg).healthTimeout > 0
        /\ Given(cfg).tlsMin \in {12, 13}
        /\ Given(cfg).readyTimeout \in Int
    BY <1>3, <2>1, GivenUsable
  <2>3. /\ \A ttl \in params'.ttls : ttl > 0
        /\ params'.interval > 0 /\ params'.burst > 0 /\ params'.healthTimeout > 0
        /\ params'.tlsMin \in {12, 13}
        /\ params'.readyTimeout \in Int
    BY <1>5, <1>6, <2>2
  <2>4. params'.checked /\ params'.readyTimeout > 0 =>
          \A reply \in BackendReplies : HealthStatus(reply)' = ReadyStatus(reply)'
    BY <2>3 DEF HealthStatus, ReadyStatus
  <2> QED
    BY <2>3, <2>4 DEF ServesWithUsableParameters
<1>7. Started'
  BY <1>5, <1>6 DEF Started, ValidatedConfigsConstruct, ServesWithUsableParameters
<1>8. AtRest' /\ GoingIn' /\ Panicking' /\ GoingOut' /\ way' = "idle"
  BY <1>1, <1>2 DEF GInv, AtRest, GoingIn, Panicking, GoingOut
<1> QED
  BY <1>7, <1>8 DEF GInv

--------------------------------------------------------------------------------
(* The chain *)

LEMMA StartedFrame ==
  ASSUME GInv, UNCHANGED startVars
  PROVE  Started'
BY DEF GInv, Started, ValidatedConfigsConstruct, ServesWithUsableParameters, HealthStatus,
       ReadyStatus, startVars

\* Which layer is where: Chain's order.
LEMMA LayerAt ==
  ASSUME at \in 0 .. 8
  PROVE  /\ Layer = "recover" => at = 1
         /\ Layer = "requestID" => at = 2
         /\ Layer = "logging" => at = 3
         /\ Layer = "rateLimit" => at = 4
         /\ Layer = "maxBody" => at = 5
         /\ Layer = "cors" => at = 6
         /\ Layer = "securityHeaders" => at = 7
         /\ Layer = "mux" => at = 0 \/ at = 8
         /\ at = 1 => Layer = "recover"
         /\ at = 3 => Layer = "logging"
<1>1. DOMAIN Chain = 1 .. 7
  BY DEF Chain
<1>2. /\ Chain[1] = "recover" /\ Chain[2] = "requestID" /\ Chain[3] = "logging"
      /\ Chain[4] = "rateLimit" /\ Chain[5] = "maxBody" /\ Chain[6] = "cors"
      /\ Chain[7] = "securityHeaders"
  BY DEF Chain
<1>3. at = 0 \/ at = 8 => Layer = "mux"
  BY <1>1 DEF Layer
<1>4. ASSUME NEW i \in 1 .. 7, at = i PROVE Layer = Chain[i]
  BY <1>1, <1>4 DEF Layer
<1>5. /\ at = 1 => Layer = "recover"
      /\ at = 2 => Layer = "requestID"
      /\ at = 3 => Layer = "logging"
      /\ at = 4 => Layer = "rateLimit"
      /\ at = 5 => Layer = "maxBody"
      /\ at = 6 => Layer = "cors"
      /\ at = 7 => Layer = "securityHeaders"
  BY <1>2, <1>4
<1>6. at = 0 \/ at = 1 \/ at = 2 \/ at = 3 \/ at = 4 \/ at = 5 \/ at = 6 \/ at = 7 \/ at = 8
  OBVIOUS
<1> QED
  BY <1>3, <1>5, <1>6

\* Setting a header keeps the others.
LEMMA SetHeaderKeeps ==
  ASSUME NEW g, NEW name, NEW value
  PROVE  /\ name \in DOMAIN SetHeader(g, name, value)
         /\ \A x \in DOMAIN g : x \in DOMAIN SetHeader(g, name, value)
         /\ name # "X-Request-Id" /\ HasId(g) => HasId(SetHeader(g, name, value))
         /\ Protected(g) => Protected(SetHeader(g, name, value))
BY DEF SetHeader, HasId, Protected

LEMMA ArriveStep ==
  ASSUME GInv, NEW request \in Requests, Arrive(request)
  PROVE  GInv'
<1>1. /\ phase = "serving" /\ way = "idle" /\ at' = 1 /\ way' = "in"
      /\ UNCHANGED startVars /\ phase' = phase /\ w' = w /\ log' = log
  BY DEF Arrive, startVars
<1>2. w = Unanswered /\ log = <<>>
  BY <1>1 DEF GInv, AtRest
<1>3. Unsent'
  BY <1>1, <1>2 DEF Unsent, Unanswered
<1>4. GoingIn'
  BY <1>1, <1>2, <1>3 DEF GoingIn
<1> QED
  BY <1>1, <1>4, StartedFrame DEF GInv, AtRest, Panicking, GoingOut

\* A layer that calls the next one.
LEMMA CallStep ==
  ASSUME GInv, way = "in", at \in 1 .. 7, Call, UNCHANGED <<startVars, q, log>>,
         Unsent',
         at > 1 => HasId(w.headers)' /\ idAt' = 2,
         at > 2 => rec' = [on |-> TRUE, status |-> 200, wrote |-> FALSE],
         at > 6 => Protected(w.headers)'
  PROVE  GInv'
<1>1. at' = at + 1 /\ way' = "in" /\ phase' = phase /\ log' = <<>>
  BY DEF Call, startVars, GInv, GoingIn
<1>2. GoingIn'
  BY <1>1 DEF GoingIn
<1> QED
  BY <1>1, <1>2, StartedFrame DEF GInv, AtRest, Panicking, GoingOut

\* A layer that leaves the writer, the id and the recorder alone.
LEMMA PassStep ==
  ASSUME GInv, way = "in", at \in {1, 4, 5}, Call, UNCHANGED <<startVars, q, w, rec, idAt, log>>
  PROVE  GInv'
<1>1. Unsent' /\ params' = params /\ q' = q
  BY DEF GInv, GoingIn, Unsent, startVars
<1>2. HasId(w.headers) => HasId(w.headers)'
  BY <1>1 DEF HasId, Id
<1>3. /\ at > 1 => HasId(w.headers)' /\ idAt' = 2
      /\ at > 2 => rec' = [on |-> TRUE, status |-> 200, wrote |-> FALSE]
  BY <1>2 DEF GInv, GoingIn
<1> QED
  BY <1>1, <1>3, CallStep

\* A layer inside logging, or a handler, that answers and returns.
LEMMA AnswerStep ==
  ASSUME GInv, way = "in", at \in 4 .. 8, NEW code, NEW h,
         rec' = Recorded(code), way' = "out", at' = at - 1,
         w' = [headers |-> h, status |-> code, sent |-> h],
         UNCHANGED <<startVars, q, idAt, log>>,
         HasId(h), code \notin {204, 429} => Protected(h), code # 500
  PROVE  GInv'
<1>1. log' = <<>> /\ phase' = phase /\ params' = params /\ q' = q /\ idAt' = 2
  BY DEF GInv, GoingIn, startVars
<1>2. rec'.status = code
  BY DEF GInv, GoingIn, Recorded
<1>3. at' \in 3 .. 7 /\ w'.status = code /\ w'.sent = h
  OBVIOUS
<1>4. HasId(w.sent)' /\ (code \notin {204, 429} => Protected(w.sent)')
  <2>1. HasId(w.sent)'
    <3>1. Id' = Id
      BY <1>1 DEF Id
    <3>2. "X-Request-Id" \in DOMAIN h /\ h["X-Request-Id"] = Id
      BY DEF HasId
    <3> QED
      BY <1>3, <3>1, <3>2 DEF HasId
  <2>2. ASSUME code \notin {204, 429}
        PROVE  Protected(w.sent)'
    <3>1. Protected(h)
      BY <2>2
    <3> QED
      BY <1>1, <1>3, <3>1 DEF Protected
  <2> QED
    BY <2>1, <2>2
<1>5. GoingOut'
  BY <1>1, <1>2, <1>3, <1>4 DEF GoingOut
<1> QED
  BY <1>1, <1>5, StartedFrame DEF GInv, AtRest, Panicking, GoingIn

\* Json and WriteHeader on a writer that has sent nothing.
LEMMA FirstWrite ==
  ASSUME Unsent, NEW code
  PROVE  /\ WriteHeader(w, code) = [headers |-> w.headers, status |-> code, sent |-> w.headers]
         /\ LET h == SetHeader(w.headers, "Content-Type", "application/json")
            IN  WriteHeader(Json(w), code) = [headers |-> h, status |-> code, sent |-> h]
<1>1. PICK g : g = w.headers
  OBVIOUS
<1>2. PICK h : h = SetHeader(g, "Content-Type", "application/json")
  OBVIOUS
<1>3. w = [headers |-> g, status |-> 0, sent |-> None]
  BY <1>1 DEF Unsent
<1>4. Json(w) = [headers |-> h, status |-> 0, sent |-> None]
  BY <1>2, <1>3 DEF Json
<1>5. WriteHeader([headers |-> g, status |-> 0, sent |-> None], code)
        = [headers |-> g, status |-> code, sent |-> g]
  BY DEF WriteHeader
<1>6. WriteHeader([headers |-> h, status |-> 0, sent |-> None], code)
        = [headers |-> h, status |-> code, sent |-> h]
  BY DEF WriteHeader
<1> QED
  BY <1>1, <1>2, <1>3, <1>4, <1>5, <1>6

\* Where a request is that enters a layer.
LEMMA Entered ==
  ASSUME GInv, NEW layer, Entering(layer)
  PROVE  way = "in" /\ at \in 1 .. 8 /\ Layer = layer /\ Unsent
BY DEF Entering, GInv, GoingIn

LEMMA PassSteps ==
  ASSUME GInv, recoverIn \/ rateLimitAllows \/ maxBody
  PROVE  GInv'
<1>1. CASE recoverIn
  <2>1. way = "in" /\ at = 1
    BY <1>1, Entered, LayerAt DEF recoverIn
  <2> QED
    BY <1>1, <2>1, PassStep DEF recoverIn
<1>2. CASE rateLimitAllows
  <2>1. way = "in" /\ at = 4
    BY <1>2, Entered, LayerAt DEF rateLimitAllows
  <2> QED
    BY <1>2, <2>1, PassStep DEF rateLimitAllows
<1>3. CASE maxBody
  <2>1. way = "in" /\ at = 5
    BY <1>3, Entered, LayerAt DEF maxBody
  <2> QED
    BY <1>3, <2>1, PassStep DEF maxBody
<1> QED
  BY <1>1, <1>2, <1>3

LEMMA requestIDStep ==
  ASSUME GInv, requestID
  PROVE  GInv'
<1>1. way = "in" /\ at = 2 /\ Unsent
  BY Entered, LayerAt DEF requestID
<1>2. PICK h : h = SetHeader(w.headers, "X-Request-Id", Id)
  OBVIOUS
<1>3. w' = [headers |-> h, status |-> 0, sent |-> None]
  <2>1. PICK g : g = w.headers
    OBVIOUS
  <2>2. w = [headers |-> g, status |-> 0, sent |-> None] /\ h = SetHeader(g, "X-Request-Id", Id)
    BY <1>1, <1>2, <2>1 DEF Unsent
  <2>3. w' = [w EXCEPT !.headers = h]
    BY <1>2 DEF requestID
  <2> QED
    BY <2>2, <2>3
<1>4. /\ Unsent' /\ w'.headers = h /\ idAt' = 2 /\ q' = q /\ UNCHANGED <<startVars, log>> /\ Call
      /\ "X-Request-Id" \in DOMAIN h /\ h["X-Request-Id"] = Id
  <2>1. "X-Request-Id" \in DOMAIN h /\ h["X-Request-Id"] = Id
    BY <1>2 DEF SetHeader
  <2> QED
    BY <1>1, <1>3, <2>1 DEF requestID, Unsent
<1>5. HasId(w.headers)'
  BY <1>4 DEF HasId, Id
<1> QED
  BY <1>1, <1>4, <1>5, CallStep

LEMMA loggingStep ==
  ASSUME GInv, logging
  PROVE  GInv'
<1>1. way = "in" /\ at = 3 /\ Unsent
  BY Entered, LayerAt DEF logging
<1>2. /\ UNCHANGED <<startVars, q, w, idAt, log>> /\ Call
      /\ rec' = [on |-> TRUE, status |-> 200, wrote |-> FALSE]
  BY DEF logging, NoRecorder
<1>3. HasId(w.headers) /\ idAt = 2
  BY <1>1 DEF GInv, GoingIn
<1>4. Unsent' /\ HasId(w.headers)' /\ idAt' = 2
  BY <1>1, <1>2, <1>3 DEF Unsent, HasId, Id
<1> QED
  BY <1>1, <1>2, <1>4, CallStep

LEMMA rateLimitRefusesStep ==
  ASSUME GInv, rateLimitRefuses
  PROVE  GInv'
<1>1. way = "in" /\ at = 4 /\ Unsent /\ HasId(w.headers)
  <2>1. way = "in" /\ at = 4 /\ Unsent
    BY Entered, LayerAt DEF rateLimitRefuses
  <2> QED
    BY <2>1 DEF GInv, GoingIn
<1>2. PICK h : h = SetHeader(w.headers, "Content-Type", "application/json")
  OBVIOUS
<1>3. /\ w' = [headers |-> h, status |-> 429, sent |-> h]
      /\ rec' = Recorded(429) /\ way' = "out" /\ at' = at - 1
      /\ UNCHANGED <<startVars, q, idAt, log>>
  BY <1>1, <1>2, FirstWrite DEF rateLimitRefuses, Answer
<1>4. HasId(h)
  BY <1>1, <1>2, SetHeaderKeeps
<1> QED
  BY <1>1, <1>3, <1>4, AnswerStep

LEMMA corsStep ==
  ASSUME GInv, corsMiddleware
  PROVE  GInv'
<1>1. way = "in" /\ at = 6 /\ Unsent /\ HasId(w.headers) /\ idAt = 2
      /\ rec = [on |-> TRUE, status |-> 200, wrote |-> FALSE]
  <2>1. way = "in" /\ at = 6 /\ Unsent
    BY Entered, LayerAt DEF corsMiddleware
  <2> QED
    BY <2>1 DEF GInv, GoingIn
<1>2. PICK x : x = IF params.cors /\ q.origin \in AllowedOrigins
                   THEN [w EXCEPT !.headers = SetHeader(@, "Access-Control-Allow-Origin", q.origin)]
                   ELSE w
  OBVIOUS
<1>3. PICK h : x = [headers |-> h, status |-> 0, sent |-> None] /\ HasId(h)
  <2>1. CASE params.cors /\ q.origin \in AllowedOrigins
    <3>1. PICK h : h = SetHeader(w.headers, "Access-Control-Allow-Origin", q.origin)
      OBVIOUS
    <3>2. x = [w EXCEPT !.headers = h]
      BY <1>2, <2>1, <3>1
    <3>3. HasId(h)
      BY <1>1, <3>1, SetHeaderKeeps
    <3>4. x = [headers |-> h, status |-> 0, sent |-> None]
      BY <1>1, <3>2 DEF Unsent
    <3> QED
      BY <3>3, <3>4
  <2>2. CASE ~(params.cors /\ q.origin \in AllowedOrigins)
    BY <1>1, <1>2, <2>2 DEF Unsent
  <2> QED
    BY <2>1, <2>2
<1>4. UNCHANGED <<startVars, q, idAt, log>>
  BY DEF corsMiddleware
<1>5. CASE params.cors /\ q.method = "OPTIONS"
  <2>1. w' = WriteHeader(x, 204) /\ rec' = Recorded(204) /\ way' = "out" /\ at' = at - 1
    BY <1>2, <1>5 DEF corsMiddleware, Answer
  <2>2. w' = [headers |-> h, status |-> 204, sent |-> h]
    BY <1>3, <2>1 DEF WriteHeader
  <2> QED
    BY <1>1, <1>3, <1>4, <2>1, <2>2, AnswerStep
<1>6. CASE ~(params.cors /\ q.method = "OPTIONS")
  <2>1. w' = x /\ Call /\ rec' = rec
    BY <1>2, <1>6 DEF corsMiddleware
  <2>2. Unsent' /\ w'.headers = h
    BY <1>3, <2>1 DEF Unsent
  <2>3. HasId(w.headers)' /\ idAt' = 2
    BY <1>1, <1>3, <1>4, <2>2 DEF HasId, Id
  <2> QED
    BY <1>1, <1>4, <2>1, <2>2, <2>3, CallStep
<1> QED
  BY <1>5, <1>6

LEMMA securityHeadersStep ==
  ASSUME GInv, securityHeaders
  PROVE  GInv'
<1>1. way = "in" /\ at = 7 /\ Unsent /\ HasId(w.headers) /\ idAt = 2
      /\ rec = [on |-> TRUE, status |-> 200, wrote |-> FALSE]
  <2>1. way = "in" /\ at = 7 /\ Unsent
    BY Entered, LayerAt DEF securityHeaders
  <2> QED
    BY <2>1 DEF GInv, GoingIn
<1>2. PICK g : g = SetHeader(w.headers, "Cache-Control", "no-store")
  OBVIOUS
<1>3. PICK h : h = IF params.tls THEN SetHeader(g, "Strict-Transport-Security", "max-age") ELSE g
  OBVIOUS
<1>4. w' = [w EXCEPT !.headers = h] /\ Call /\ UNCHANGED <<startVars, q, rec, idAt, log>>
  BY <1>2, <1>3 DEF securityHeaders
<1>5. w' = [headers |-> h, status |-> 0, sent |-> None]
  BY <1>1, <1>4 DEF Unsent
<1>6. HasId(g) /\ "Cache-Control" \in DOMAIN g
  BY <1>1, <1>2, SetHeaderKeeps
<1>7. HasId(h) /\ Protected(h)
  <2>1. CASE params.tls
    <3>1. h = SetHeader(g, "Strict-Transport-Security", "max-age")
      BY <1>3, <2>1
    <3> QED
      BY <1>6, <3>1, SetHeaderKeeps DEF Protected
  <2>2. CASE ~params.tls
    BY <1>3, <1>6, <2>2 DEF Protected
  <2> QED
    BY <2>1, <2>2
<1>8. Unsent' /\ w'.headers = h
  BY <1>5 DEF Unsent
<1>9. HasId(w.headers)' /\ Protected(w.headers)'
  BY <1>4, <1>7, <1>8 DEF HasId, Id, Protected, startVars
<1> QED
  BY <1>1, <1>4, <1>8, <1>9, CallStep

LEMMA HandleStep ==
  ASSUME GInv, Handle
  PROVE  GInv'
<1>1. way = "in" /\ at = 8 /\ Unsent /\ HasId(w.headers) /\ Protected(w.headers)
  <2>1. way = "in" /\ at = 8 /\ Unsent
    BY Entered, LayerAt DEF Handle
  <2> QED
    BY <2>1 DEF GInv, GoingIn
<1>2. PICK status \in Outcomes(Route(q)) : Answer(Json(w), status)
  BY DEF Handle
<1>3. PICK h : h = SetHeader(w.headers, "Content-Type", "application/json")
  OBVIOUS
<1>4. /\ w' = [headers |-> h, status |-> status, sent |-> h]
      /\ rec' = Recorded(status) /\ way' = "out" /\ at' = at - 1
      /\ UNCHANGED <<startVars, q, idAt, log>>
  BY <1>1, <1>2, <1>3, FirstWrite DEF Handle, Answer
<1>5. HasId(h) /\ Protected(h)
  BY <1>1, <1>3, SetHeaderKeeps
<1>6. status # 500
  <2>1. \A reply : HealthStatus(reply) \in {200, 503}
    BY DEF HealthStatus
  <2>2. Outcomes(Route(q)) \subseteq {200, 400, 403, 404, 502, 503}
    BY <2>1 DEF Outcomes
  <2> QED
    BY <2>2
<1> QED
  BY <1>1, <1>4, <1>5, <1>6, AnswerStep

LEMMA HandlerPanicsStep ==
  ASSUME GInv, HandlerPanics
  PROVE  GInv'
<1>1. way = "in" /\ at = 8 /\ Unsent /\ HasId(w.headers) /\ Protected(w.headers) /\ idAt = 2 /\ log = <<>>
  <2>1. way = "in" /\ at = 8 /\ Unsent
    BY Entered, LayerAt DEF HandlerPanics
  <2> QED
    BY <2>1 DEF GInv, GoingIn
<1>2. way' = "panic" /\ at' = 7 /\ UNCHANGED <<startVars, q, w, idAt, log>> /\ phase' = phase
  BY <1>1 DEF HandlerPanics, startVars
<1>3. Unsent' /\ HasId(w.headers)' /\ Protected(w.headers)'
  BY <1>1, <1>2 DEF Unsent, HasId, Id, Protected, startVars
<1>4. Panicking'
  BY <1>1, <1>2, <1>3 DEF Panicking
<1> QED
  BY <1>1, <1>2, <1>4, StartedFrame DEF GInv, AtRest, GoingIn, GoingOut

LEMMA loggingOutStep ==
  ASSUME GInv, loggingOut
  PROVE  GInv'
<1>1. /\ way = "out" /\ at = 3 /\ HasId(w.sent) /\ idAt = 2 /\ log = <<>> /\ rec.status = w.status
      /\ w.status # 500
      /\ w.status \notin {204, 429} => Protected(w.sent)
  <2>1. way = "out" /\ at \in 0 .. 8 /\ Layer = "logging"
    BY DEF loggingOut, GInv, GoingOut
  <2>2. at = 3
    BY <2>1, LayerAt
  <2> QED
    BY <2>1, <2>2 DEF GInv, GoingOut
<1>2. PICK entry : entry = [kind |-> "request", status |-> rec.status, id |-> ContextId]
  OBVIOUS
<1>3. entry.kind = "request" /\ entry.status = w.status /\ entry.id = Id
  BY <1>1, <1>2 DEF ContextId
<1>4. /\ log' = <<entry>> /\ at' = 2 /\ way' = "out" /\ UNCHANGED <<startVars, q, w, idAt>> /\ phase' = phase
  BY <1>1, <1>2 DEF loggingOut, startVars
<1>5. HasId(w.sent)' /\ (w.status' \notin {204, 429} => Protected(w.sent)') /\ Id' = Id /\ w' = w
  BY <1>1, <1>4 DEF HasId, Id, Protected, startVars
<1>6. TrueRecord(entry)'
  BY <1>1, <1>3, <1>5 DEF TrueRecord
<1>7. GoingOut'
  BY <1>1, <1>4, <1>5, <1>6 DEF GoingOut
<1> QED
  BY <1>1, <1>4, <1>7, StartedFrame DEF GInv, AtRest, GoingIn, Panicking

LEMMA recoverOutStep ==
  ASSUME GInv, recoverOut
  PROVE  GInv'
<1>1. /\ way = "panic" /\ at = 1 /\ Unsent /\ log = <<>>
      /\ HasId(w.headers) /\ idAt = 2 /\ Protected(w.headers)
  <2>1. way = "panic" /\ at \in 0 .. 8 /\ Layer = "recover"
    BY DEF recoverOut, GInv, Panicking
  <2>2. at = 1
    BY <2>1, LayerAt
  <2> QED
    BY <2>1, <2>2 DEF GInv, Panicking
<1>2. PICK entry : entry = [kind |-> "panic", id |-> ContextId]
  OBVIOUS
<1>3. PICK h : h = SetHeader(w.headers, "Content-Type", "application/json")
  OBVIOUS
<1>4. /\ log' = <<entry>> /\ at' = 0 /\ way' = "out" /\ UNCHANGED <<startVars, q, idAt>> /\ phase' = phase
      /\ w' = [headers |-> h, status |-> 500, sent |-> h]
  BY <1>1, <1>2, <1>3, FirstWrite DEF recoverOut, startVars
<1>5. HasId(h) /\ Protected(h)
  BY <1>1, <1>3, SetHeaderKeeps
<1>6. HasId(w.sent)' /\ Protected(w.sent)'
  BY <1>4, <1>5 DEF HasId, Id, Protected, startVars
<1>7. TrueRecord(entry)'
  BY <1>2, <1>4 DEF TrueRecord
<1>8. GoingOut'
  BY <1>1, <1>4, <1>6, <1>7 DEF GoingOut
<1> QED
  BY <1>1, <1>4, <1>8, StartedFrame DEF GInv, AtRest, GoingIn, Panicking

LEMMA UnwindStep ==
  ASSUME GInv, Unwind
  PROVE  GInv'
<1>1. /\ way' = way /\ at' = at - 1 /\ UNCHANGED <<startVars, q, w, rec, idAt, log>>
      /\ phase' = phase /\ params' = params
      /\ way \in {"out", "panic"} /\ at \in 1 .. 7
  BY DEF Unwind, startVars, GInv, Panicking, GoingOut
<1>4. /\ HasId(w.headers) => HasId(w.headers)'
      /\ Protected(w.headers) => Protected(w.headers)'
      /\ HasId(w.sent) => HasId(w.sent)'
      /\ Protected(w.sent) => Protected(w.sent)'
      /\ \A entry : TrueRecord(entry) => TrueRecord(entry)'
      /\ Unsent => Unsent'
  BY <1>1 DEF HasId, Id, Protected, Unsent, TrueRecord
<1>5. CASE way = "panic"
  <2>1. at # 1
    BY <1>1, <1>5, LayerAt DEF Unwind
  <2>2. Panicking'
    BY <1>1, <1>4, <1>5, <2>1 DEF GInv, Panicking
  <2> QED
    BY <1>1, <1>5, <2>2, StartedFrame DEF GInv, AtRest, GoingIn, GoingOut
<1>6. CASE way = "out"
  <2>1. at # 3
    BY <1>1, <1>6, LayerAt DEF Unwind
  <2>2. GoingOut'
    BY <1>1, <1>4, <1>6, <2>1 DEF GInv, GoingOut
  <2> QED
    BY <1>1, <1>6, <2>2, StartedFrame DEF GInv, AtRest, GoingIn, Panicking
<1> QED
  BY <1>1, <1>5, <1>6

LEMMA FinishStep ==
  ASSUME GInv, Finish
  PROVE  GInv'
<1>1. way' = "idle" /\ at' = 0 /\ w' = Unanswered /\ log' = <<>> /\ UNCHANGED startVars
  BY DEF Finish, Unanswered
<1> QED
  BY <1>1, StartedFrame DEF GInv, AtRest, GoingIn, GoingOut, Panicking, Unanswered, None

--------------------------------------------------------------------------------
(* The theorems *)

LEMMA InitGInv == Init => GInv
<1> SUFFICES ASSUME Init PROVE GInv
  OBVIOUS
<1>1. phase = "starting" /\ file \in Files /\ env \in Envs
  BY DEF Init
<1>2. way = "idle" /\ at = 0 /\ w = Unanswered /\ log = <<>>
  BY DEF Init, Resting
<1>3. Started
  BY <1>1 DEF Started, ValidatedConfigsConstruct, ServesWithUsableParameters
<1> QED
  BY <1>2, <1>3 DEF GInv, AtRest, GoingIn, Panicking, GoingOut

LEMMA NextGInv == GInv /\ [Next]_vars => GInv'
<1> SUFFICES ASSUME GInv, [Next]_vars PROVE GInv'
  OBVIOUS
<1>1. CASE UNCHANGED vars
  <2>1. /\ UNCHANGED startVars /\ way' = way /\ at' = at /\ w' = w /\ log' = log /\ rec' = rec
        /\ idAt' = idAt /\ q' = q /\ params' = params /\ phase' = phase
    BY <1>1 DEF vars, startVars
  <2>2. /\ HasId(w.headers) => HasId(w.headers)'
        /\ Protected(w.headers) => Protected(w.headers)'
        /\ HasId(w.sent) => HasId(w.sent)'
        /\ Protected(w.sent) => Protected(w.sent)'
        /\ \A entry : TrueRecord(entry) => TrueRecord(entry)'
        /\ Unsent => Unsent'
    BY <2>1 DEF HasId, Id, Protected, Unsent, TrueRecord
  <2>3. AtRest' /\ GoingIn' /\ Panicking'
    BY <2>1, <2>2 DEF GInv, AtRest, GoingIn, Panicking, Unanswered
  <2>4. GoingOut'
    BY <2>1, <2>2 DEF GInv, GoingOut
  <2> QED
    BY <2>1, <2>3, <2>4, StartedFrame DEF GInv
<1>2. CASE Load
  BY <1>2, LoadStep
<1>3. CASE Construct
  BY <1>3, ConstructStep
<1>4. CASE \E request \in Requests : Arrive(request)
  BY <1>4, ArriveStep
<1>5. CASE Step
  BY <1>5, PassSteps, requestIDStep, loggingStep, rateLimitRefusesStep, corsStep,
     securityHeadersStep, HandleStep, HandlerPanicsStep, loggingOutStep, recoverOutStep,
     UnwindStep, FinishStep DEF Step
<1> QED
  BY <1>1, <1>2, <1>3, <1>4, <1>5 DEF Next

LEMMA AlwaysGInv == Spec => []GInv
<1>1. Init => GInv
  BY InitGInv
<1>2. GInv /\ [Next]_vars => GInv'
  BY NextGInv
<1> QED
  BY <1>1, <1>2, PTL DEF Spec

\* The precedence docs/configuration.md promises, for every file and every set of
\* variables: config.Load applies the defaults first and the variables last.  Only the
\* variables of OverrideTable count, by the names the code looks up.
THEOREM VariablesTakePrecedence == Spec => []Precedence
<1>1. GInv => Precedence
  <2> SUFFICES ASSUME GInv, phase = "loaded", NEW f \in DOMAIN cfg
               PROVE  cfg[f] = IF /\ f \in Overridable /\ VariableOf(f) \in DOMAIN env
                                  /\ env[VariableOf(f)] # NotANumber
                               THEN env[VariableOf(f)]
                               ELSE IF f \in DOMAIN Defaults /\ Unset(file, f) THEN Defaults[f]
                               ELSE file[f]
    BY DEF Precedence
  <2>1. cfg = Effective(file, env) /\ env \in Envs
    BY DEF GInv, Started
  <2>2. f \in DOMAIN applyDefaults(file) /\ f \in DOMAIN file
    BY <2>1 DEF Effective, applyEnvOverrides, applyDefaults
  <2>3. cfg[f] = IF Applies(env, f) THEN env[VariableOf(f)] ELSE applyDefaults(file)[f]
    BY <2>1, <2>2 DEF Effective, applyEnvOverrides
  <2>4. applyDefaults(file)[f] = IF f \in DOMAIN Defaults /\ Unset(file, f) THEN Defaults[f] ELSE file[f]
    BY <2>2 DEF applyDefaults
  <2>5. Applies(env, f) <=> /\ f \in Overridable /\ VariableOf(f) \in DOMAIN env
                            /\ env[VariableOf(f)] # NotANumber
    BY <2>1, GatewayAssumption DEF Applies
  <2> QED
    BY <2>3, <2>4, <2>5
<1> QED
  BY <1>1, AlwaysGInv, PTL

\* No configuration that config.Validate accepts is refused by the constructor of its
\* backend for the values of its fields.  Nothing is said of what else run builds:
\* metricsMux panics for a validated metrics.path that is taken.
THEOREM BackendsAcceptValidated == Spec => []ValidatedConfigsConstruct
<1>1. GInv => ValidatedConfigsConstruct
  BY DEF GInv, Started
<1> QED
  BY <1>1, AlwaysGInv, PTL

\* Whatever the file and the variables say, the parts of a gateway that serves have
\* parameters they can use, and the two health endpoints agree.
THEOREM ParametersAreUsable == Spec => []ServesWithUsableParameters
<1>1. GInv => ServesWithUsableParameters
  BY DEF GInv, Started
<1> QED
  BY <1>1, AlwaysGInv, PTL

\* The answer that leaves the chain: its id, its record and its headers.
LEMMA Answered ==
  ASSUME GInv, way = "out", at = 0
  PROVE  /\ HasId(w.sent)
         /\ w.status \notin {204, 429} => Protected(w.sent)
         /\ Len(log) = 1 /\ DOMAIN log = {1} /\ TrueRecord(log[1])
<1>1. PICK entry : log = <<entry>> /\ TrueRecord(entry)
  BY DEF GInv, GoingOut
<1>2. Len(log) = 1 /\ DOMAIN log = {1} /\ log[1] = entry
  BY <1>1
<1> QED
  BY <1>1, <1>2 DEF GInv, GoingOut

\* Every answer carries the request's id, and so does its access record.
THEOREM AnswersCarryTheId == Spec => []IdOnEveryAnswer
<1>1. GInv => IdOnEveryAnswer
  BY Answered DEF IdOnEveryAnswer, HasId, TrueRecord
<1> QED
  BY <1>1, AlwaysGInv, PTL

\* Every request leaves one record, with the status that was sent, or of the panic
\* behind a 500.
THEOREM RecordsAreTrue == Spec => []OneTrueRecord
<1>1. GInv => OneTrueRecord
  BY Answered DEF OneTrueRecord, TrueRecord
<1> QED
  BY <1>1, AlwaysGInv, PTL

\* Every answer but a 429 and a preflight's 204 carries the security headers.
THEOREM AnswersAreProtected == Spec => []HandlersAnswersAreProtected
<1>1. GInv => HandlersAnswersAreProtected
  BY Answered DEF HandlersAnswersAreProtected, Protected
<1> QED
  BY <1>1, AlwaysGInv, PTL
================================================================================
