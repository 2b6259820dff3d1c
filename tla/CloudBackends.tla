----------------------------- MODULE CloudBackends -----------------------------
(***************************************************************************)
(* GetSecret of the three cloud backends (internal/backend/aws, azure and  *)
(* gcp), one of which is configured.  They differ in where a path is kept: *)
(* AWS and GCP and Azure's "json" strategy keep it in one secret, whose    *)
(* name AWS only prefixes, while GCP and Azure squeeze it into the         *)
(* characters (and GCP the length) they permit, so that paths may meet.    *)
(* Azure's "flat" strategy keeps each key in a secret of its own, so a     *)
(* read lists the names page by page and gets the ones that carry the      *)
(* path's prefix one by one, while secrets are written and deleted.        *)
(*                                                                         *)
(* A path, a key and a name are sequences of characters, because the       *)
(* naming is at issue; values are versions.  The cache is taken by its     *)
(* contract (CacheContract) with the clock left out: it holds the last     *)
(* answer filled in, and may forget it at any moment.  The provider itself *)
(* is external.                                                            *)
(***************************************************************************)
EXTENDS Integers, FiniteSets, SequencesExt

CONSTANTS
  Request,        \* reads in flight
  Paths,          \* backend -> the paths asked for
  Keys,           \* path -> the keys that may be stored under it
  Backends,       \* the backends tried: "aws", "azure flat", "azure json", "gcp"
  InFlight,       \* backend -> bound on the reads in flight at once
  SecretPrefix,   \* aws.secretPrefix, gcp.secretPrefix
  MaxID,          \* the longest GCP secret id (255)
  MaxChanges      \* backend -> bound on the writes at the provider

\* A path has keys, and neither is empty.
ASSUME CloudBackendsAssumption ==
  \A b \in Backends :
    /\ Paths[b] \subseteq Seq(STRING) \ {<<>>} /\ IsFiniteSet(Paths[b])
    /\ \A p \in Paths[b] :
         Keys[p] \subseteq Seq(STRING) \ {<<>>} /\ Keys[p] # {} /\ IsFiniteSet(Keys[p])

VARIABLES
  backend,        \* the configured backend and its strategy
  vault,          \* name -> contents: Gone, or what is stored
  changes,        \* writes so far
  cached,         \* cache key -> the answer last filled in, where not forgotten
  gauge,          \* vault_gateway_cache_entries
  req             \* request -> its local state

vars == <<backend, vault, changes, cached, gauge, req>>

Path == Paths[backend]

--------------------------------------------------------------------------------
(* Names *)

\* azure/naming.go: pathEncoder.Replace.
flatEncode(s) == [i \in DOMAIN s |-> IF s[i] \in {"/", "_"} THEN "-" ELSE s[i]]

\* A plausible bug: one hyphen ends the encoded path.
MutantSecretPrefix(path) == Append(flatEncode(path), "-")

flatSecretPrefix(path) == flatEncode(path) \o <<"-", "-">>
flatKeyName(path, key) == flatSecretPrefix(path) \o flatEncode(key)

\* strings.CutPrefix, with something left of the name.
belongs(path, name) ==
  IsPrefix(flatSecretPrefix(path), name) /\ Len(name) > Len(flatSecretPrefix(path))
flatDecodeKey(path, name) ==
  LET rest == SubSeq(name, Len(flatSecretPrefix(path)) + 1, Len(name))
  IN  [i \in DOMAIN rest |-> IF rest[i] = "-" THEN "_" ELSE rest[i]]

\* jsonPathEncoder.Replace.
jsonSecretName(path) ==
  FlattenSeq([i \in DOMAIN path |->
                CASE path[i] = "/" -> <<"-", "-">> [] path[i] = "_" -> <<"-">> [] OTHER -> <<path[i]>>])

\* gcp: of the characters a valid path may have, "/", "." and ":" are replaced.
secretID(path) ==
  LET id == [i \in DOMAIN (SecretPrefix \o path) |->
               LET ch == (SecretPrefix \o path)[i] IN IF ch \in {"/", ".", ":"} THEN "-" ELSE ch]
  IN  SubSeq(id, 1, IF Len(id) > MaxID THEN MaxID ELSE Len(id))

\* The secret that holds a path, where one does.
secretName(path) ==
  CASE backend = "aws" -> SecretPrefix \o path
    [] backend = "gcp" -> secretID(path)
    [] OTHER -> jsonSecretName(path)

\* What the documented convention asks of keys that are kept flat: no hyphen, which
\* decodes to an underscore, and no slash.
FlatKeys ==
  "azure flat" \in Backends =>
    \A p \in Paths["azure flat"] : \A k \in Keys[p] : \A i \in DOMAIN k : k[i] \notin {"-", "/"}

\* What makes a flat name readable in one way only: separators neither meet in a
\* path nor end it, so that the first double hyphen is where the key begins.
FlatPaths ==
  "azure flat" \in Backends =>
    \A p \in Paths["azure flat"] :
      /\ flatEncode(p)[Len(p)] # "-"
      /\ \A i \in 1 .. Len(p) - 1 : ~(flatEncode(p)[i] = "-" /\ flatEncode(p)[i + 1] = "-")

\* Where the key of a path is kept.
Home(p, k) == IF backend = "azure flat" THEN flatKeyName(p, k) ELSE secretName(p)

\* A plausible bug: the cache is keyed by the squeezed path, whatever the backend.
MutantCacheKey(path) == flatEncode(path)

\* What cache.Get and cache.Set are given: Azure's path, the others' secret id.
cacheKey(path) == IF backend \in {"azure flat", "azure json"} THEN path ELSE secretName(path)

--------------------------------------------------------------------------------
(* The provider *)

\* The names in use, as operators following the documented scheme would write them.
Name == UNION {{Home(p, k) : k \in Keys[p]} : p \in Path}
Listing == SetToSeq(Name)

\* What the provider may hold under a name: a version, which remembers the name it
\* was written under, and whether it is a JSON object of strings.
Gone == [of |-> <<>>, version |-> 0, json |-> FALSE]
Contents(name, v) ==
  [of : {name}, version : {v}, json : IF backend = "azure flat" THEN {FALSE} ELSE BOOLEAN]
Present(name) == vault[name] # Gone

\* The keys of the JSON object under a name: of every path it stands for.
KeysUnder(name) == UNION {Keys[p] : p \in {q \in Path : secretName(q) = name}}
ValueKey == <<"v", "a", "l", "u", "e">>

Nothing == [k \in {} |-> Gone]
Missing == [status |-> 404, data |-> Nothing]
Failed == [status |-> 502, data |-> Nothing]
Found(data) == [status |-> 200, data |-> data]

Idle == [pc |-> "idle", path |-> <<>>, cursor |-> 0, names |-> <<>>, result |-> Nothing,
         answer |-> Failed, seen |-> {}, count |-> 0]

providerVars == <<backend, vault, changes>>
cacheVars == <<cached, gauge>>

--------------------------------------------------------------------------------
(* Plausible bugs, used to show that the properties can fail. *)

\* A failed get is skipped like a vanished secret.
MutantGetFails(r) ==
  /\ req[r].pc = "getting" /\ req[r].names # <<>> /\ belongs(req[r].path, Head(req[r].names))
  /\ req' = [req EXCEPT ![r].names = Tail(@)]
  /\ UNCHANGED <<providerVars, cacheVars>>

--------------------------------------------------------------------------------

Init ==
  /\ backend \in Backends
  /\ vault \in [Name -> {Gone} \cup UNION {Contents(n, 1) : n \in Name}]
  /\ \A n \in Name : vault[n] \in {Gone} \cup Contents(n, 1)
  /\ changes = 0
  /\ cached = [p \in {} |-> Missing]
  /\ gauge = 0
  /\ req = [r \in Request |-> Idle]

\* Somebody writes a new version of a secret, or deletes it.
Change(name, c) ==
  /\ changes < MaxChanges[backend]
  /\ c # vault[name]
  /\ vault' = [vault EXCEPT ![name] = c]
  /\ changes' = changes + 1
  /\ req' = [r \in Request |-> IF req[r].pc = "idle" THEN req[r]
                               ELSE [req[r] EXCEPT !.seen =
                                       IF <<name, vault[name]>> \in @ THEN @ \cup {<<name, c>>} ELSE @]]
  /\ UNCHANGED <<backend, cacheVars>>

\* The cache lets an answer go: expiry, eviction, Invalidate or Flush.  The gauge is
\* not told.
Forget(key) ==
  /\ key \in DOMAIN cached
  /\ cached' = [q \in DOMAIN cached \ {key} |-> cached[q]]
  /\ UNCHANGED <<providerVars, gauge, req>>

--------------------------------------------------------------------------------
(* GetSecret *)

\* A cache hit answers, positively or negatively; `seen` starts with what the
\* provider holds of the path as a miss begins its read.
GetSecret(r, path) ==
  /\ req[r].pc = "idle"
  /\ Cardinality({s \in Request : req[s].pc # "idle"}) < InFlight[backend]
  /\ req' = [req EXCEPT ![r] =
       IF cacheKey(path) \in DOMAIN cached
       THEN [Idle EXCEPT !.pc = "answered", !.path = path, !.answer = cached[cacheKey(path)]]
       ELSE [Idle EXCEPT !.pc = IF backend = "azure flat" THEN "listing" ELSE "getting one",
                         !.path = path, !.cursor = 1,
                         !.seen = {<<n, vault[n]>> : n \in {Home(path, k) : k \in Keys[path]}}]]
  /\ UNCHANGED <<providerVars, cacheVars>>

\* An error ends the read; nothing is cached.
Abort(r, answer) == req' = [req EXCEPT ![r].pc = "answered", ![r].answer = answer]

\* ListSecretNames: the next page, of one name.
ListPage(r) ==
  LET name == Listing[req[r].cursor]
  IN  /\ req[r].pc = "listing" /\ req[r].cursor <= Len(Listing)
      /\ req' = [req EXCEPT ![r].cursor = @ + 1,
                            ![r].names = IF Present(name) THEN Append(@, name) ELSE @]
      /\ UNCHANGED <<providerVars, cacheVars>>

ListEnds(r) ==
  /\ req[r].pc = "listing" /\ req[r].cursor > Len(Listing)
  /\ req' = [req EXCEPT ![r].pc = "getting"]
  /\ UNCHANGED <<providerVars, cacheVars>>

\* mapError turns a 404 of the listing into not-found.
ListFails(r) ==
  /\ req[r].pc = "listing"
  /\ \E answer \in {Missing, Failed} : Abort(r, answer)
  /\ UNCHANGED <<providerVars, cacheVars>>

\* One turn of getFlat's loop: a name of another path is skipped, and so is a
\* listed secret that is gone by now.
Get(r) ==
  LET name == Head(req[r].names)
      key == flatDecodeKey(req[r].path, name)
      old == req[r].result
  IN  /\ req[r].pc = "getting" /\ req[r].names # <<>>
      /\ req' = [req EXCEPT ![r].names = Tail(@),
                   ![r].result = IF ~(belongs(req[r].path, name) /\ Present(name)) THEN old
                                 ELSE [k \in DOMAIN old \cup {key} |->
                                         IF k = key THEN vault[name] ELSE old[k]]]
      /\ UNCHANGED <<providerVars, cacheVars>>

GetFails(r) ==
  /\ req[r].pc = "getting" /\ req[r].names # <<>> /\ belongs(req[r].path, Head(req[r].names))
  /\ Abort(r, Failed)
  /\ UNCHANGED <<providerVars, cacheVars>>

Assemble(r) ==
  /\ req[r].pc = "getting" /\ req[r].names = <<>>
  /\ req' = [req EXCEPT ![r].pc = "assembled",
               ![r].answer = IF req[r].result = Nothing THEN Missing ELSE Found(req[r].result)]
  /\ UNCHANGED <<providerVars, cacheVars>>

\* The JSON object's keys, all at the secret's version.  Of anything else AWS
\* (parseSecret) makes the one key "value"; Azure and GCP fail.
Decoded(name, c) ==
  CASE c.json -> Found([k \in KeysUnder(name) |-> c])
    [] ~c.json /\ backend = "aws" -> Found([k \in {ValueKey} |-> c])
    [] OTHER -> Failed

\* The one get of AWS, of GCP and of getJSON: not found is cached, an undecodable
\* secret is not.
GetOne(r) ==
  LET name == secretName(req[r].path)
      answer == IF ~Present(name) THEN Missing ELSE Decoded(name, vault[name])
  IN  /\ req[r].pc = "getting one"
      /\ IF answer = Failed THEN Abort(r, Failed)
         ELSE req' = [req EXCEPT ![r].pc = "assembled", ![r].answer = answer]
      /\ UNCHANGED <<providerVars, cacheVars>>

GetOneFails(r) ==
  /\ req[r].pc = "getting one"
  /\ Abort(r, Failed)
  /\ UNCHANGED <<providerVars, cacheVars>>

\* cache.Set or cache.SetNegative; only a positive fill goes on to the gauge.
Fill(r) ==
  LET key == cacheKey(req[r].path)
  IN  /\ req[r].pc = "assembled"
      /\ cached' = [q \in DOMAIN cached \cup {key} |-> IF q = key THEN req[r].answer ELSE cached[q]]
      /\ req' = [req EXCEPT ![r].pc = IF req[r].answer = Missing THEN "answered" ELSE "filled"]
      /\ UNCHANGED <<providerVars, gauge>>

\* updateCacheEntries: cache.Len under the cache's lock, then the gauge, which another
\* read's count may have overtaken.
Count(r) ==
  /\ req[r].pc = "filled"
  /\ req' = [req EXCEPT ![r].pc = "counted", ![r].count = Cardinality(DOMAIN cached)]
  /\ UNCHANGED <<providerVars, cacheVars>>

SetGauge(r) ==
  /\ req[r].pc = "counted"
  /\ gauge' = req[r].count
  /\ req' = [req EXCEPT ![r].pc = "answered"]
  /\ UNCHANGED <<providerVars, cached>>

Return(r) ==
  /\ req[r].pc = "answered"
  /\ req' = [req EXCEPT ![r] = Idle]
  /\ UNCHANGED <<providerVars, cacheVars>>

Step(r) ==
  \/ ListPage(r) \/ ListEnds(r) \/ ListFails(r)
  \/ Get(r) \/ GetFails(r) \/ Assemble(r)
  \/ GetOne(r) \/ GetOneFails(r)
  \/ Fill(r) \/ Count(r) \/ SetGauge(r) \/ Return(r)

Next ==
  \/ \E n \in Name : \E c \in {Gone} \cup Contents(n, changes + 2) : Change(n, c)
  \/ \E key \in DOMAIN cached : Forget(key)
  \/ \E r \in Request, p \in Path : GetSecret(r, p)
  \/ \E r \in Request : Step(r)

Spec == Init /\ [][Next]_vars

--------------------------------------------------------------------------------
(* Properties *)

\* A read that is about to be cached is right key by key, even when it raced with
\* writers: what it says of each key of the path, a value or that there is none,
\* was so at some instant between its start and its end.  (The keys need not have
\* been so at the same instant: Azure's listing and gets are not atomic.)  AWS's
\* plain string stands for the whole path.  Flat keys must be FlatKeys: another one
\* is found under the name it decodes to.
EveryKeyWasSo ==
  \A r \in Request : req[r].pc = "assembled" =>
    LET p == req[r].path
        data == req[r].answer.data
    IN  \A k \in IF backend = "aws" /\ DOMAIN data = {ValueKey} THEN {ValueKey} ELSE Keys[p] :
          <<Home(p, k), IF k \in DOMAIN data THEN data[k] ELSE Gone>> \in req[r].seen

\* The place of a path, and the keys of the paths kept there.
Place(p) == IF backend = "azure flat" THEN flatSecretPrefix(p) ELSE secretName(p)
KeysAt(p) == UNION {Keys[q] : q \in {q \in Path : Place(q) = Place(p)}}

\* A path is answered with its own keys only, or those of a path that is kept in
\* the very same place: the flat names of other paths, which may begin alike, are
\* not taken for keys of this one, and decoding gives a key back under the name it
\* was written with.  This takes FlatKeys and FlatPaths: the names under "a--b" or
\* "a/_b" carry the prefix of "a".
OwnKeysOnly ==
  \A r \in Request : req[r].pc = "assembled" =>
    DOMAIN req[r].answer.data \subseteq
      KeysAt(req[r].path) \cup (IF backend = "aws" THEN {ValueKey} ELSE {})

\* Whatever the cache is keyed by, a read is answered from the secrets its path
\* names: paths that GCP's or Azure's naming makes one share an entry or not, but a
\* path never gets the entry of a path kept elsewhere.
AnsweredFromOwnSecrets ==
  \A r \in Request : req[r].pc = "answered" =>
    \A k \in DOMAIN req[r].answer.data : req[r].answer.data[k].of = Home(req[r].path, k)
================================================================================
