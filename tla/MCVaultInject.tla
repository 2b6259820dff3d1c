----------------------------- MODULE MCVaultInject -----------------------------
(* The instance of VaultInject that TLC checks: two references to one path, one
   to a second, the wrapper's own variable, and a from-path. *)
EXTENDS VaultInject

Var(name, kind, path, key) == [name |-> name, kind |-> kind, path |-> path, key |-> key]
MCEnviron == <<Var("VAULT_ADDR", "config", NoPath, ""),
               Var("USER", "ref", "db", "user"),
               Var("HOME", "plain", NoPath, ""),
               Var("PASS", "ref", "db", "pass"),
               Var("API", "ref", "api", "key")>>
MCFromPaths == <<"db">>
MCKeys == [p \in {"db", "api"} |-> IF p = "db" THEN {"user", "pass"} ELSE {"key"}]

\* A second environment: a key the secret does not have, a reference with no key.
MissingEnviron == <<Var("USER", "ref", "db", "user"),
                    Var("PASS", "ref", "db", "nosuch"),
                    Var("NOTE", "bare", NoPath, "")>>

Container(environ, fromPaths, ignoreMissing) ==
  [environ |-> environ, fromPaths |-> fromPaths, ignoreMissing |-> ignoreMissing]
MCSettings == {Container(MCEnviron, MCFromPaths, ignore) : ignore \in BOOLEAN}
                \cup {Container(MissingEnviron, <<>>, ignore) : ignore \in BOOLEAN}
================================================================================
