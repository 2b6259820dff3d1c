------------------------------- MODULE MCLogins -------------------------------
(* The instance of Logins that TLC checks. *)
EXTENDS Logins, TLC

MCUsername(jwt) ==
  CASE jwt = "app" -> <<"system", "serviceaccount", "ns", "app">>
    [] jwt = "batch" -> <<"system", "serviceaccount", "ns", "batch">>
    [] jwt = "node" -> <<"system", "node", "ns", "app">>
    [] jwt = "odd" -> <<"system", "serviceaccount", "", "app">>
    [] OTHER -> <<>>

\* Two roles: one for a single account with its own TTL, one for any account.
MCRoles == [r \in {"app", "any"} |->
              [allowedNamespaces |-> {"ns"},
               allowedServiceAccounts |-> IF r = "app" THEN {"app"} ELSE {"*"},
               allowedPaths |-> {<<"**">>}]]
MCRoleTTL == [r \in {"app", "any"} |-> IF r = "app" THEN 2 ELSE 0]
MCWidth(segment) == 1
===============================================================================
