-------------------------------- MODULE Config --------------------------------
(***************************************************************************)
(* internal/config: how the YAML file, the defaults and the VG_ variables  *)
(* become the configuration the gateway runs with, and which ones Validate *)
(* refuses.  A configuration is a function from field names to values; the *)
(* zero value of a field (0, "", FALSE) is what YAML leaves in a field the *)
(* file does not mention.  Durations are in seconds.                       *)
(***************************************************************************)
EXTENDS Integers

CONSTANTS
  Malformed,    \* a value of the file that YAML or time.ParseDuration rejects
  NotANumber,   \* the text of a variable that strconv.Atoi rejects
  Padded,       \* texts with white space around them -> what strings.TrimSpace leaves
  Existing      \* the files that os.Stat finds

Ports == {"server.port", "metrics.port"}
MaxPort == 65535

\* The durations that must be positive.
Positive == {"server.readTimeout", "server.writeTimeout", "server.idleTimeout",
             "server.shutdownGracePeriod", "auth.tokenTTL", "auth.tokenCleanupInterval"}

\* The fields with a default, and the function they make.
DefaultTable ==
  {<<"server.port", 8200>>, <<"server.host", "0.0.0.0">>,
   <<"server.readTimeout", 30>>, <<"server.writeTimeout", 30>>, <<"server.idleTimeout", 120>>,
   <<"server.maxRequestBodySize", 1048576>>, <<"server.shutdownGracePeriod", 15>>,
   <<"server.tls.minVersion", "1.2">>,
   <<"auth.tokenTTL", 3600>>, <<"auth.tokenCleanupInterval", 60>>, <<"auth.maxTokensPerIdentity", 100>>,
   <<"azure.namingStrategy", "flat">>, <<"vault.authPath", "kubernetes">>,
   <<"logging.level", "info">>, <<"logging.format", "json">>,
   <<"metrics.port", 9090>>, <<"metrics.path", "/metrics">>,
   <<"healthCheck.backendCheckTimeout", 5>>, <<"healthCheck.backendCheckInterval", 30>>,
   <<"rateLimit.requestsPerSecond", 100>>, <<"rateLimit.burst", 200>>}
Defaults == [f \in {d[1] : d \in DefaultTable} |-> (CHOOSE d \in DefaultTable : d[1] = f)[2]]

Text == {"server.host", "server.tls.minVersion", "azure.namingStrategy", "vault.authPath",
         "logging.level", "logging.format", "metrics.path"}
Unset(c, f) == c[f] = IF f \in Text THEN "" ELSE 0

applyDefaults(c) ==
  [f \in DOMAIN c |-> IF f \in DOMAIN Defaults /\ Unset(c, f) THEN Defaults[f] ELSE c[f]]

\* The fields that a variable overrides, and the names looked up for them.  No other
\* variable is read: not VG_LOGGING_LEVEL, which docs/configuration.md:34 lists.
OverrideTable ==
  {<<"backend", "VG_BACKEND">>, <<"server.host", "VG_SERVER_HOST">>,
   <<"server.port", "VG_SERVER_PORT">>, <<"metrics.port", "VG_METRICS_PORT">>,
   <<"logging.level", "VG_LOG_LEVEL">>, <<"logging.format", "VG_LOG_FORMAT">>,
   <<"server.tls.certFile", "VG_TLS_CERT_FILE">>, <<"server.tls.keyFile", "VG_TLS_KEY_FILE">>,
   <<"aws.region", "VG_AWS_REGION">>, <<"azure.vaultURL", "VG_AZURE_VAULTURL">>,
   <<"vault.address", "VG_VAULT_ADDRESS">>, <<"vault.token", "VG_VAULT_TOKEN">>,
   <<"gcp.projectID", "VG_GCP_PROJECTID">>}
Overridable == {o[1] : o \in OverrideTable}
VariableOf(f) == (CHOOSE o \in OverrideTable : o[1] = f)[2]

\* env is a function from the names of variables that are set; a port that is not a
\* number is ignored.
Applies(env, f) ==
  /\ f \in Overridable /\ VariableOf(f) \in DOMAIN env
  /\ f \in Ports => env[VariableOf(f)] # NotANumber

applyEnvOverrides(c, env) ==
  [f \in DOMAIN c |-> IF Applies(env, f) THEN env[VariableOf(f)] ELSE c[f]]

-------------------------------------------------------------------------------

TrimSpace(v) == IF v \in DOMAIN Padded THEN Padded[v] ELSE v

\* parseTLSVersion, in tenths; 0 is an error.
parseTLSVersion(v) ==
  CASE TrimSpace(v) \in {"", "1.2"} -> 12 [] TrimSpace(v) = "1.3" -> 13 [] OTHER -> 0
TLSMinVersion(c) ==
  LET v == parseTLSVersion(c["server.tls.minVersion"]) IN IF v = 0 THEN 12 ELSE v

fileExists(path) == path # "" /\ path \in Existing

\* A plausible bug: a GCP project is not asked for.
MutantValidateBackend(c) ==
  CASE c["backend"] = "azure" -> c["azure.vaultURL"] # "" /\ c["azure.namingStrategy"] \in {"flat", "json"}
    [] c["backend"] = "vault" -> c["vault.address"] # "" /\ (c["vault.role"] # "" \/ c["vault.token"] # "")
    [] OTHER -> TRUE

validateBackend(c) ==
  CASE c["backend"] = "azure" -> c["azure.vaultURL"] # "" /\ c["azure.namingStrategy"] \in {"flat", "json"}
    [] c["backend"] = "vault" -> c["vault.address"] # "" /\ (c["vault.role"] # "" \/ c["vault.token"] # "")
    [] c["backend"] = "gcp" -> c["gcp.projectID"] # ""
    [] OTHER -> TRUE

\* A plausible bug: durations are taken as they come.
MutantPositiveDurations(c) == TRUE

PositiveDurations(c) == \A f \in Positive : c[f] > 0

Validate(c) ==
  /\ c["backend"] \in {"aws", "azure", "vault", "gcp"}
  /\ \A f \in Ports : c[f] \in 1 .. MaxPort
  /\ c["server.port"] # c["metrics.port"]
  /\ c["server.tls.enabled"] =>
       /\ fileExists(c["server.tls.certFile"]) /\ fileExists(c["server.tls.keyFile"])
       /\ parseTLSVersion(c["server.tls.minVersion"]) # 0
  /\ PositiveDurations(c)
  /\ DOMAIN c["auth.roles"] # {}
  /\ \A r \in DOMAIN c["auth.roles"] :
       LET role == c["auth.roles"][r]
       IN  role.allowedNamespaces # {} /\ role.allowedPaths # {} /\ role.allowedServiceAccounts # {}
  /\ validateBackend(c)

\* A plausible bug: the variables are applied before the defaults.
MutantEffective(file, env) == applyDefaults(applyEnvOverrides(file, env))

\* parse: the file, with defaults for what it leaves unset, overridden by variables.
Effective(file, env) == applyEnvOverrides(applyDefaults(file), env)
Parses(file) == \A f \in DOMAIN file : file[f] # Malformed
===============================================================================
