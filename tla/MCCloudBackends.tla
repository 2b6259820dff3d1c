---------------------------- MODULE MCCloudBackends ----------------------------
(* Three paths: one whose flat name is the beginning of another's, and two that *)
(* Azure's flat strategy and GCP take for one, GCP after cutting them short.    *)
EXTENDS CloudBackends, TLC

Short == <<"a">>
Long == <<"a", "/", "b">>
Twin == <<"a", "-", "b">>
User == <<"u">>
DbPass == <<"d", "_", "p">>
MCPaths == [b \in Backends |-> IF b = "azure flat" THEN {Short, Long} ELSE {Long, Twin}]
MCKeys == [p \in {Short, Long, Twin} |-> IF p = Short THEN {User, DbPass} ELSE {User}]
MCPrefix == <<"p">>
MCInFlight == [b \in Backends |-> IF b = "azure flat" THEN 1 ELSE 2]
MCMaxChanges == [b \in Backends |-> CASE b = "azure flat" -> 3 [] b = "gcp" -> 2 [] OTHER -> 1]

ASSUME FlatKeys /\ FlatPaths

Symmetry == Permutations(Request)
================================================================================
