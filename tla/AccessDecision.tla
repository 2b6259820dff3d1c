---------------------------- MODULE AccessDecision ----------------------------
(***************************************************************************)
(* The two decisions the gateway takes about a caller, on every input of   *)
(* small sets: whether a service account may assume a role (CheckBinding,  *)
(* at login) and whether a token of that role may read a path (Validate    *)
(* and CheckAccess, at each read).                                         *)
(***************************************************************************)
EXTENDS RBAC

CONSTANTS
  Patterns,               \* the allowedPaths entries tried
  RawPaths,               \* the request paths tried
  NamespaceLists, AccountLists,
  Callers                 \* the service accounts tried: [namespace, serviceAccount]

\* strings.Split returns at least one segment.
ASSUME AccessAssumption == Patterns \cup RawPaths \subseteq Seq(STRING) \ {<<>>}

VARIABLES
  role,      \* the configured role
  caller,    \* the caller, as the TokenReview reports it
  raw,       \* the {path} of the request, before the handler trims it
  verdict    \* "pending", or what the handlers decide

decisionVars == <<role, caller, raw, verdict>>

TheRole == "app"
table == [r \in {TheRole} |-> role]

DecisionInit ==
  /\ role \in [allowedNamespaces : NamespaceLists,
               allowedServiceAccounts : AccountLists,
               allowedPaths : {{p} : p \in Patterns}]
  /\ \E c \in Callers :
       caller = [namespace |-> c.namespace, serviceAccount |-> c.serviceAccount, role |-> TheRole]
  /\ raw \in RawPaths
  /\ verdict = "pending"

\* The path the handler validates, authorizes and hands to the backend.
path == TrimPrefix(raw)

Decide ==
  /\ verdict = "pending"
  /\ verdict' =
       IF ~CheckBinding(table, TheRole, caller.namespace, caller.serviceAccount)
       THEN "not bound"
       ELSE IF ~Validate(path) THEN "bad path"
       ELSE IF ~CheckAccess(table, caller, path) THEN "denied"
       ELSE "allowed"
  /\ UNCHANGED <<role, caller, raw>>

DecisionSpec == DecisionInit /\ [][Decide]_decisionVars

-------------------------------------------------------------------------------
(* Properties *)

\* What the comment on MatchPath says, as a definition: the path can be cut into
\* consecutive runs, one per pattern segment, where "**" takes one or more
\* segments, "*" exactly one, and a literal exactly itself.  docs/authentication.md:172
\* and docs/security-model.md:96 say that "**" "matches any number of segments"; in the
\* code, as in its comment, it never takes none: a/**/b does not match a/b.
Covers(pattern, segments) ==
  \E cut \in [0 .. Len(pattern) -> 0 .. Len(segments)] :
    /\ cut[0] = 0 /\ cut[Len(pattern)] = Len(segments)
    /\ \A i \in DOMAIN pattern :
         /\ cut[i] > cut[i - 1]
         /\ pattern[i] # "**" => cut[i] = cut[i - 1] + 1
         /\ pattern[i] \notin {"*", "**"} => segments[cut[i]] = pattern[i]

\* The backtracking of matchSegments finds a cover exactly when there is one, in the
\* sense of MatchPath's own comment, not of the documents quoted above.
GlobIsCover ==
  verdict \in {"allowed", "denied"} =>
    (verdict = "allowed" <=> \E p \in role.allowedPaths : Covers(Trim(p), path))

\* CheckAccess decides on the path with all its outer slashes trimmed, but the
\* backend is asked for the path as validated: the two are the same path, and
\* no segment of it can climb or vanish when a backend joins it to a prefix.
AuthorizedPathIsFetched ==
  verdict = "allowed" =>
    /\ Trim(path) = path
    /\ \A i \in DOMAIN path : path[i] \notin {"", ".", ".."} \cup Forbidden

\* docs/authentication.md on both lists of a role: "*" is an entry meaning any.
WildcardMeansAny ==
  ("*" \in role.allowedNamespaces /\ "*" \in role.allowedServiceAccounts) =>
    verdict # "not bound"
===============================================================================
