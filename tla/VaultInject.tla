------------------------------ MODULE VaultInject ------------------------------
(***************************************************************************)
(* cmd/vault-inject/main.go: the startup of an application container.  An  *)
(* init container copies the wrapper to a shared volume, from where the    *)
(* application's container runs it.  The wrapper logs in to the gateway,   *)
(* with retries and backoff, resolves the vault: references of its         *)
(* environment with one read per path, and replaces itself by the          *)
(* application.  One context, created before the first login attempt with  *)
(* the login timeout, covers the retries and all the reads.                *)
(*                                                                         *)
(* The gateway and the network are the environment: a login may be served, *)
(* refused, or its answer lost after the token was issued; a read returns  *)
(* the secret as it is at that instant, or fails; secrets change meanwhile.*)
(* Time passes only while the wrapper waits, and no longer than its        *)
(* timeouts allow.                                                         *)
(***************************************************************************)
EXTENDS Integers, Sequences, FiniteSets

CONSTANTS
  Settings,               \* the containers tried: [environ, fromPaths, ignoreMissing]
  Keys,                   \* path -> the keys of the secret there
  LoginTimeout, ReadTimeout, ClientTimeout,   \* in ticks
  MaxAttempts, Base,      \* withRetry(3, 500ms)
  MaxChanges              \* bound on changes of secrets

Path == DOMAIN Keys
NoPath == "no path"

\* A variable is the wrapper's own ("config", a name in vaultEnvVars), "plain", a
\* reference with no key ("bare"), or a "ref" to a key of a secret.
Variable == [name : STRING, kind : {"config", "plain", "bare", "ref"},
             path : Path \cup {NoPath}, key : STRING]

ASSUME VaultInjectAssumption ==
  /\ \A s \in Settings :
       /\ s.environ \in Seq(Variable)
       /\ \A i \in DOMAIN s.environ : s.environ[i].kind = "ref" => s.environ[i].path \in Path
       /\ s.fromPaths \in Seq(Path)
       /\ s.ignoreMissing \in BOOLEAN
  /\ \A p \in Path : IsFiniteSet(Keys[p])
  /\ \A n \in {LoginTimeout, ReadTimeout, ClientTimeout, MaxAttempts, Base} : n \in Nat \ {0}
  /\ MaxChanges \in Nat

VARIABLES
  setting,    \* the container being started
  binary,     \* the wrapper on the shared volume: "none", "partial" or "whole"
  now,        \* ticks since the context was created
  pc,         \* what the wrapper is doing
  attempt,    \* login attempts made before this one
  started,    \* when the call in flight began
  wake,       \* when the backoff ends
  next,       \* the position in Work
  cache,      \* path -> version fetched: resolveEnviron's path-level cache
  newEnv,     \* the environment being built
  version,    \* the gateway: path -> version of the secret
  issued      \* history: tokens the gateway issued to this startup

vars == <<setting, binary, now, pc, attempt, started, wake, next, cache, newEnv, version, issued>>
containerVars == <<setting, binary>>
loginVars == <<attempt, wake, issued>>
resolveVars == <<next, cache, newEnv>>

\* The variables, the paths of VAULT_ENV_FROM_PATH, both in order, and
\* VAULT_IGNORE_MISSING_SECRETS.
Environ == setting.environ
FromPaths == setting.fromPaths
IgnoreMissing == setting.ignoreMissing

\* What resolveEnviron goes through: the variables, then the from-paths.
Work == Environ \o [i \in DOMAIN FromPaths |->
                      [name |-> "", kind |-> "from", path |-> FromPaths[i], key |-> ""]]
Item == Work[next]

\* An entry of the new environment: the variable as it was, or a resolved value.
Raw(item) == [name |-> item.name, kind |-> item.kind, path |-> NoPath, key |-> "", version |-> 0]
Resolved(name, path, key, v) ==
  [name |-> name, kind |-> "secret", path |-> path, key |-> key, version |-> v]

Earliest(times) == CHOOSE t \in times : \A u \in times : t <= u

Init ==
  /\ setting \in Settings /\ binary = "none"
  /\ now = 0 /\ pc = "copy" /\ attempt = 0 /\ started = 0 /\ wake = 0
  /\ next = 1 /\ cache = [p \in {} |-> 0] /\ newEnv = <<>>
  /\ version = [p \in Path |-> 0]
  /\ issued = 0

--------------------------------------------------------------------------------
(* Plausible bugs, used to show that the properties can fail. *)

\* Every read gets a fresh context instead of a child of the shared one.
MutantReadDeadline == started + Earliest({ReadTimeout, ClientTimeout})

\* The path-level cache is never consulted.
MutantCached(path) == FALSE

\* A failed read is dropped from the environment and startup goes on.
MutantReadError ==
  /\ pc' = "resolve" /\ next' = next + 1
  /\ UNCHANGED <<containerVars, now, started, loginVars, cache, newEnv, version>>

\* Reads have no timeout of their own.
MutantReadTimesOut == FALSE

\* Resolves a reference to a key the secret does not have.
MutantHasKey(path, key) == TRUE

--------------------------------------------------------------------------------
(* copyBinary, in the init container, and what run does before it logs in *)

\* OpenFile with O_TRUNC: an earlier copy is gone from here on.
CopyOpens ==
  /\ pc = "copy"
  /\ pc' = "copying" /\ binary' = "partial"
  /\ UNCHANGED <<setting, now, started, loginVars, resolveVars, version>>

\* io.Copy and Close have succeeded; Kubernetes starts the application's container.
CopyEnds ==
  /\ pc = "copying"
  /\ pc' = "start" /\ binary' = "whole"
  /\ UNCHANGED <<setting, now, started, loginVars, resolveVars, version>>

\* Any step of the copy fails, or the container is killed, and what was written
\* stays; Kubernetes runs the init container again.
CopyFails ==
  /\ pc \in {"copy", "copying"}
  /\ pc' = "copy"
  /\ UNCHANGED <<containerVars, now, started, loginVars, resolveVars, version>>

\* newClient (a CA certificate that cannot be read or parsed) and the reading of the
\* service account token, before the context is created.
Prepare ==
  /\ pc = "start"
  /\ pc' \in {"login", "failed"}
  /\ UNCHANGED <<containerVars, now, started, loginVars, resolveVars, version>>

--------------------------------------------------------------------------------
(* login and withRetry *)

LoginDeadline == Earliest({LoginTimeout, started + ClientTimeout})

LoginSend ==
  /\ pc = "login"
  /\ pc' = "login sent" /\ started' = now
  /\ UNCHANGED <<containerVars, now, loginVars, resolveVars, version>>

\* 200 with a client_token.
LoginServed ==
  /\ pc = "login sent" /\ now < LoginDeadline
  /\ pc' = "resolve" /\ issued' = issued + 1
  /\ UNCHANGED <<containerVars, now, attempt, started, wake, resolveVars, version>>

\* A 4xx with a JSON body: isRetryable is false.
LoginRejected ==
  /\ pc = "login sent" /\ now < LoginDeadline
  /\ pc' = "failed"
  /\ UNCHANGED <<containerVars, now, started, loginVars, resolveVars, version>>

\* base << uint(i): the pause after the i-th attempt.
Pause[i \in Nat] == IF i = 0 THEN Base ELSE 2 * Pause[i - 1]

MoreAttempts == attempt < MaxAttempts - 1

\* A retryable error: back off, unless this was the last attempt.
RetryOrFail ==
  IF MoreAttempts
  THEN pc' = "backoff" /\ wake' = now + Pause[attempt]
  ELSE pc' = "failed" /\ UNCHANGED wake

\* A 5xx, a dropped connection, or an undecodable body.  The gateway may have
\* issued a token whose response was lost.
LoginFails ==
  /\ pc = "login sent" /\ now < LoginDeadline
  /\ RetryOrFail
  /\ issued' \in {issued, issued + 1}
  /\ UNCHANGED <<containerVars, now, attempt, started, resolveVars, version>>

\* The context or the client's timeout ends the call.
LoginTimesOut ==
  /\ pc = "login sent" /\ now >= LoginDeadline
  /\ RetryOrFail
  /\ issued' \in {issued, issued + 1}
  /\ UNCHANGED <<containerVars, now, attempt, started, resolveVars, version>>

\* time.Sleep does not look at the context.
BackoffEnds ==
  /\ pc = "backoff" /\ now >= wake
  /\ pc' = "login" /\ attempt' = attempt + 1
  /\ UNCHANGED <<containerVars, now, started, wake, issued, resolveVars, version>>

--------------------------------------------------------------------------------
(* resolveEnviron and readSecret *)

Resolving == pc = "resolve" /\ next <= Len(Work)

Cached(path) == path \in DOMAIN cache
HasKey(path, key) == key \in Keys[path]

\* Variables that need no secret: the wrapper's own are stripped.
KeepOrStrip ==
  /\ Resolving /\ Item.kind \in {"config", "plain", "bare"}
  /\ newEnv' = IF Item.kind = "config" THEN newEnv ELSE Append(newEnv, Raw(Item))
  /\ next' = next + 1
  /\ UNCHANGED <<containerVars, now, pc, started, loginVars, cache, version>>

\* The keys of a from-path in some order: Go iterates maps in no fixed order.
InjectAll(path, v) ==
  \E order \in [1 .. Cardinality(Keys[path]) -> Keys[path]] :
    /\ \A k \in Keys[path] : \E i \in DOMAIN order : order[i] = k
    /\ newEnv' = newEnv \o [i \in DOMAIN order |-> Resolved(order[i], path, order[i], v)]

\* What is done with the data of the item's path, at version v.
UseData(v) ==
  \/ /\ Item.kind = "ref" /\ HasKey(Item.path, Item.key)
     /\ newEnv' = Append(newEnv, Resolved(Item.name, Item.path, Item.key, v))
     /\ pc' = "resolve" /\ next' = next + 1
  \/ /\ Item.kind = "ref" /\ ~HasKey(Item.path, Item.key)
     /\ IF IgnoreMissing
        THEN newEnv' = Append(newEnv, Raw(Item)) /\ pc' = "resolve" /\ next' = next + 1
        ELSE pc' = "failed" /\ UNCHANGED <<newEnv, next>>
  \/ /\ Item.kind = "from"
     /\ InjectAll(Item.path, v)
     /\ pc' = "resolve" /\ next' = next + 1

UseCached ==
  /\ Resolving /\ Item.kind \in {"ref", "from"} /\ Cached(Item.path)
  /\ UseData(cache[Item.path])
  /\ UNCHANGED <<containerVars, now, started, loginVars, cache, version>>

ReadSend ==
  /\ Resolving /\ Item.kind \in {"ref", "from"} /\ ~Cached(Item.path)
  /\ pc' = "read sent" /\ started' = now
  /\ UNCHANGED <<containerVars, now, loginVars, next, cache, newEnv, version>>

\* rCtx is a child of the shared context.
ReadDeadline == Earliest({LoginTimeout, started + ReadTimeout, started + ClientTimeout})

ReadServed ==
  LET v == version[Item.path]
  IN  /\ pc = "read sent" /\ now < ReadDeadline
      /\ cache' = [p \in DOMAIN cache \cup {Item.path} |-> IF p = Item.path THEN v ELSE cache[p]]
      /\ UseData(v)
      /\ UNCHANGED <<containerVars, now, started, loginVars, version>>

\* Every error is alike: 404, 403, 502, a lost connection, a timeout.  It is not
\* remembered in the path-level cache.
ReadError ==
  /\ IF IgnoreMissing
     THEN /\ newEnv' = IF Item.kind = "from" THEN newEnv ELSE Append(newEnv, Raw(Item))
          /\ pc' = "resolve" /\ next' = next + 1
     ELSE pc' = "failed" /\ UNCHANGED <<newEnv, next>>
  /\ UNCHANGED <<containerVars, now, started, loginVars, cache, version>>

ReadFails == pc = "read sent" /\ now < ReadDeadline /\ ReadError
ReadTimesOut == pc = "read sent" /\ now >= ReadDeadline /\ ReadError

\* exec.LookPath finds the command, or not.
Exec ==
  /\ pc = "resolve" /\ next > Len(Work)
  /\ pc' \in {"exec", "failed"}
  /\ UNCHANGED <<containerVars, now, started, loginVars, resolveVars, version>>

--------------------------------------------------------------------------------
(* The environment *)

Change(p) ==
  /\ version[p] < MaxChanges
  /\ version' = [version EXCEPT ![p] = @ + 1]
  /\ UNCHANGED <<containerVars, now, pc, started, loginVars, resolveVars>>

Tick ==
  /\ \/ pc = "login sent" /\ now < LoginDeadline
     \/ pc = "read sent" /\ now < ReadDeadline
     \/ pc = "backoff" /\ now < wake
  /\ now' = now + 1
  /\ UNCHANGED <<containerVars, pc, started, loginVars, resolveVars, version>>

CopyStep == CopyOpens \/ CopyEnds \/ CopyFails
LoginStep == Prepare \/ LoginSend \/ LoginServed \/ LoginRejected \/ LoginFails \/ LoginTimesOut
               \/ BackoffEnds
ResolveStep == KeepOrStrip \/ UseCached \/ ReadSend \/ ReadServed \/ ReadFails \/ ReadTimesOut \/ Exec

Done == pc \in {"exec", "failed"} /\ UNCHANGED vars

Next == CopyStep \/ LoginStep \/ ResolveStep \/ (\E p \in Path : Change(p)) \/ Tick \/ Done

\* The wrapper is one thread that never blocks but on the clock.  (That the init
\* container ever succeeds is not assumed.)
Fairness == WF_vars(LoginStep \/ ResolveStep) /\ WF_vars(Tick)

Spec == Init /\ [][Next]_vars /\ Fairness

--------------------------------------------------------------------------------
(* Properties *)

Own == {i \in DOMAIN Environ : Environ[i].kind # "config"}
Refs == {i \in DOMAIN Environ : Environ[i].kind = "ref"}

\* The application starts only from a whole copy of the wrapper, however often copying
\* failed before.  Without VAULT_IGNORE_MISSING_SECRETS it starts only with every
\* reference resolved to the key it names and every from-path injected whole:
\* no error path of a retry, a timeout or a missing key slips through to exec.
StartsResolved ==
  /\ pc = "exec" => binary = "whole"
  /\ pc = "exec" /\ ~IgnoreMissing =>
    /\ \A i \in Refs : \E j \in DOMAIN newEnv :
         /\ newEnv[j].name = Environ[i].name /\ newEnv[j].kind = "secret"
         /\ newEnv[j].path = Environ[i].path /\ newEnv[j].key = Environ[i].key
         /\ newEnv[j].key \in Keys[newEnv[j].path]
    /\ \A i \in DOMAIN FromPaths : \A k \in Keys[FromPaths[i]] : \E j \in DOMAIN newEnv :
         newEnv[j].name = k /\ newEnv[j].path = FromPaths[i] /\ newEnv[j].key = k
    /\ \A j \in DOMAIN newEnv : newEnv[j].kind # "ref"

\* Whatever fails or is ignored, the application gets each of its own variables, in
\* order, resolved or as it was, with none of the wrapper's among them and before
\* what the from-paths add.  The wrapper's are those of the list vaultEnvVars
\* (main.go:76-96); README.md:420 says "All `VAULT_*` vars", but one that is not in the
\* list reaches the application.
VariablesKept ==
  pc = "exec" =>
    /\ Len(newEnv) >= Cardinality(Own)
    /\ \A i \in Own : newEnv[Cardinality({j \in Own : j <= i})].name = Environ[i].name

\* All values taken from one path come from one version of its secret, though it
\* may change between two variables: a user name and its password stay a pair.
OneVersionPerPath ==
  \A i, j \in DOMAIN newEnv :
    newEnv[i].kind = "secret" /\ newEnv[j].kind = "secret" /\ newEnv[i].path = newEnv[j].path
      => newEnv[i].version = newEnv[j].version

\* Startup ends within the login timeout and the backoff pauses, which alone do
\* not heed the context, and its retries leave at most one token per attempt behind.
\* The pauses before attempts 2 to MaxAttempts, Base, 2 * Base and so on, add up to
\* Pause[MaxAttempts - 1] - Base.  With the code's three attempts that is 500ms and 1s:
\* README.md:117 says "retries 3x ... (500ms -> 1s -> 2s)", which would be a fourth
\* attempt after a third pause, and is not what withRetry does.
StartupBounded ==
  /\ now <= LoginTimeout + (Pause[MaxAttempts - 1] - Base)
  /\ issued <= MaxAttempts

\* Once copied, the wrapper always ends: it starts the application or gives up.
StartupEnds == pc = "start" ~> pc \in {"exec", "failed"}
================================================================================
