------------------------------ MODULE MCGateway ------------------------------
(* Configuration files that differ from a working one in up to two fields, under *)
(* up to one VG_ variable.                                                       *)
EXTENDS Gateway, TLC

Role(list, ttl) ==
  [allowedNamespaces |-> {"n"}, allowedServiceAccounts |-> list, allowedPaths |-> {"p"}, tokenTTL |-> ttl]
Roles(list, ttl) == [r \in {"app"} |-> Role(list, ttl)]

\* A file for any of the backends, that leaves to the defaults what it can.
Base ==
     "backend" :> "gcp" @@ "server.tls.enabled" :> TRUE
  @@ "server.tls.certFile" :> "tls.crt" @@ "server.tls.keyFile" :> "tls.key"
  @@ "aws.region" :> "" @@ "azure.vaultURL" :> "url" @@ "vault.address" :> "url"
  @@ "vault.role" :> "gateway" @@ "vault.token" :> "" @@ "gcp.projectID" :> "project"
  @@ "auth.roles" :> Roles({"s"}, 0)
  @@ "metrics.enabled" :> TRUE @@ "healthCheck.backendCheck" :> TRUE
  @@ "rateLimit.enabled" :> TRUE @@ "cors.enabled" :> TRUE
  @@ [f \in DOMAIN Defaults |-> IF f \in Text THEN "" ELSE 0]

Flags == {"server.tls.enabled", "metrics.enabled", "healthCheck.backendCheck",
          "rateLimit.enabled", "cors.enabled"}

\* The values tried in each field.
Values(f) ==
  CASE f = "backend" -> {"", "aws", "azure", "vault", "s3"}
    [] f \in Flags -> {FALSE}
    [] f \in Ports -> {-1, 1, 65535, 65536, 9090}
    [] f = "server.tls.minVersion" -> {"1.0", "1.3", " 1.3 "}
    [] f \in {"server.tls.certFile", "server.tls.keyFile"} -> {"", "missing"}
    [] f = "azure.namingStrategy" -> {"json", "other"}
    [] f = "metrics.path" -> {"/healthz", "metrics"}
    [] f = "auth.roles" -> {None, Roles({}, 0), Roles({"s"}, -1), Roles({"s"}, 600)}
    [] f \in Text \cup {"aws.region", "vault.token"} -> {"x"}
    [] f \in Positive \cup {"healthCheck.backendCheckTimeout"} -> {Malformed, -1, 1}
    [] f \in DOMAIN Defaults -> {-1, 1}
    [] OTHER -> {""}

MCFiles == {Base} \cup UNION {{[Base EXCEPT ![f] = v, ![g] = u] : v \in Values(f), u \in Values(g)} :
                               f \in DOMAIN Base, g \in DOMAIN Base}
\* With the variable that the docs name and the code does not read.
MCEnvs == {None} \cup {"VG_LOGGING_LEVEL" :> "y"} \cup
  UNION {{VariableOf(f) :> v : v \in CASE f \in Ports -> {0, 9090, NotANumber}
                         [] f = "backend" -> {"vault", ""}
                         [] f \in {"server.tls.certFile", "server.tls.keyFile"} -> {"tls.crt", "missing"}
                         [] OTHER -> {"", "y"}} : f \in Overridable}
MCPadded == " 1.3 " :> "1.3"
MCExisting == {"tls.crt", "tls.key"}
MCRequests ==
  {r \in [method : {"GET", "HEAD", "POST", "OPTIONS"},
          route : {"health", "seal-status", "login", "secret", "other"},
          origin : {"", "https://app", "https://elsewhere"}, id : {"", "client"}, large : BOOLEAN] :
     r.large => r.method = "POST" /\ r.route = "login"}
MCOrigins == {"https://app"}
===============================================================================
