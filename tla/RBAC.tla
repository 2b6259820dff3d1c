--------------------------------- MODULE RBAC ---------------------------------
(***************************************************************************)
(* internal/secretpath/secretpath.go and internal/auth/rbac.go: which      *)
(* request paths are well formed, and which of them a role may read.       *)
(*                                                                         *)
(* A path is the sequence of its "/"-separated segments, as strings.Split  *)
(* returns it: "/a" is <<"", "a">> and "a/" is <<"a", "">>.  A segment is  *)
(* a string; Forbidden names the segments that hold a character outside    *)
(* the allowlist of `allowed`.                                             *)
(***************************************************************************)
EXTENDS Integers, Sequences

CONSTANTS
  Forbidden,       \* segments with a rune that `allowed` rejects
  Width(_),        \* the length in bytes of a segment
  MaxLength        \* bytes in a path

\* len(path): the bytes of the segments and of the slashes between them.
Length(path) ==
  LET len[i \in 0 .. Len(path)] ==
        IF i = 0 THEN 0 ELSE len[i - 1] + Width(path[i]) + (IF i = 1 THEN 0 ELSE 1)
  IN  len[Len(path)]

\* strings.TrimPrefix(path, "/"): at most one leading slash.
TrimPrefix(path) == IF Len(path) > 1 /\ path[1] = "" THEN Tail(path) ELSE path

\* strings.Trim(path, "/"): every leading and trailing slash.
Trim(path) ==
  LET solid == {i \in DOMAIN path : path[i] # ""}
  IN  IF solid = {} THEN <<"">>
      ELSE LET first == CHOOSE i \in solid : \A j \in solid : i <= j
               last  == CHOOSE i \in solid : \A j \in solid : j <= i
           IN  SubSeq(path, first, last)

-------------------------------------------------------------------------------
(* Plausible bugs, used to show that the properties can fail. *)

\* Checks the ends of the path for slashes, and no segment within it.
MutantValidate(path) ==
  /\ path # <<"">>
  /\ Length(path) <= MaxLength
  /\ \A i \in DOMAIN path : path[i] \notin Forbidden \cup {".", ".."}

\* "**" also matches no segment at all.
MutantMatchSegments(pat, seg) ==
  LET m[i \in 1 .. Len(pat) + 1, j \in 1 .. Len(seg) + 1] ==
        IF i > Len(pat) THEN j > Len(seg)
        ELSE IF pat[i] = "**" THEN \E k \in j .. Len(seg) + 1 : m[i + 1, k]
        ELSE /\ j <= Len(seg)
             /\ pat[i] \in {"*", seg[j]}
             /\ m[i + 1, j + 1]
  IN  m[1, 1]

-------------------------------------------------------------------------------

\* secretpath.Validate.  The two tests of the first and the last byte are the
\* empty-segment test at the ends of the path.
Validate(path) ==
  /\ path # <<"">>
  /\ Length(path) <= MaxLength
  /\ path[1] # "" /\ path[Len(path)] # ""
  /\ \A i \in DOMAIN path : path[i] \notin Forbidden
  /\ \A i \in DOMAIN path : path[i] \notin {"", ".", ".."}

\* One call of matchSegments, on the pattern from its i-th segment on and the path
\* from its j-th; m[x][y] is the call it makes on what follows.
matchFrom(m, pat, seg, i, j) ==
  IF i > Len(pat) THEN j > Len(seg)
  ELSE IF pat[i] = "**"
  THEN IF i = Len(pat) THEN j <= Len(seg)
       ELSE \E k \in j + 1 .. Len(seg) + 1 : m[i + 1][k]
  ELSE /\ j <= Len(seg)
       /\ pat[i] \in {"*", seg[j]}
       /\ m[i + 1][j + 1]

matchSegments(pat, seg) ==
  LET m[i \in 1 .. Len(pat) + 1] == [j \in 1 .. Len(seg) + 1 |-> matchFrom(m, pat, seg, i, j)]
  IN  m[1][1]

MatchPath(pattern, path) == matchSegments(Trim(pattern), Trim(path))

\* A role is a record of three sets: allowedNamespaces, allowedServiceAccounts
\* and allowedPaths; roles is the table, a function from role names.
contains(list, name) == name \in list
containsSA(list, sa) == "*" \in list \/ sa \in list

CheckBinding(roles, role, namespace, serviceAccount) ==
  /\ role \in DOMAIN roles
  /\ contains(roles[role].allowedNamespaces, namespace)
  /\ containsSA(roles[role].allowedServiceAccounts, serviceAccount)

CheckAccess(roles, identity, path) ==
  /\ CheckBinding(roles, identity.role, identity.namespace, identity.serviceAccount)
  /\ \E pattern \in roles[identity.role].allowedPaths : MatchPath(pattern, path)
===============================================================================
