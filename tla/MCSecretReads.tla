----------------------------- MODULE MCSecretReads -----------------------------
(* The instance of SecretReads that TLC checks. *)
EXTENDS SecretReads, TLC

\* A path one of the roles allows, one that none allows, and one that is not valid.
MCPath == {<<"a">>, <<"c">>, <<"a", "..">>}
MCUsed == {<<"a">>}
SixObjs == 1 .. 6
MCRoles == [r \in {"reader", "other"} |->
              [allowedNamespaces |-> {"n"}, allowedServiceAccounts |-> {"*"},
               allowedPaths |-> IF r = "reader" THEN {<<"a">>, <<"a", "*">>} ELSE {<<"b">>}]]
MCForbidden == {"a b"}
MCWidth(segment) == 1

\* Requests are interchangeable, and so are the contents of secrets.
Symmetry == Permutations(Request) \cup Permutations(Value)
================================================================================
