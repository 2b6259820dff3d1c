--------------------------------- MODULE Cache ---------------------------------
(***************************************************************************)
(* internal/cache/cache.go: the TTL + LRU cache every backend puts in      *)
(* front of its provider.  Each method holds the cache's mutex, so each is *)
(* one action.  Expired entries are dropped only by the Get that meets     *)
(* them (or by eviction); no goroutine sweeps the cache.                   *)
(*                                                                         *)
(* A value is the whole key/value map of a secret; that Get and Set copy   *)
(* that map is modelled in SecretReads, where the copies matter.           *)
(***************************************************************************)
EXTENDS Integers, Sequences, FiniteSets

CONSTANTS
  Path,                   \* cache keys
  Value,                  \* secrets
  NoValue,                \* the nil map of a negative entry
  Enabled,                \* cache.enabled
  TTL, NegativeTTL,       \* cache.ttl and cache.negativeTTL, in ticks
  MaxEntries,             \* cache.maxEntries
  Horizon                 \* bound on the clock (TLC)

ASSUME CacheAssumption ==
  /\ Enabled \in BOOLEAN
  /\ TTL \in Int /\ NegativeTTL \in Int /\ MaxEntries \in Int
  /\ Horizon \in Nat
  /\ NoValue \notin Value

VARIABLES
  now,      \* the clock
  items,    \* path -> entry, a map
  lru       \* the list of paths, most recently used first

cacheVars == <<items, lru>>
vars == <<now, items, lru>>

Entry == [value : Value \cup {NoValue}, isNegative : BOOLEAN, expiresAt : Nat]

\* newWithClock.
Limit == IF MaxEntries <= 0 THEN 10000 ELSE MaxEntries

\* container/list: the element of a path, and the operations on it.
Position(list, path) == CHOOSE i \in DOMAIN list : list[i] = path
RemoveElement(list, path) ==
  IF \E i \in DOMAIN list : list[i] = path
  THEN LET i == Position(list, path)
       IN  [j \in 1 .. Len(list) - 1 |-> IF j < i THEN list[j] ELSE list[j + 1]]
  ELSE list
PushFront(list, path) == [j \in 1 .. Len(list) + 1 |-> IF j = 1 THEN path ELSE list[j - 1]]
MoveToFront(list, path) == PushFront(RemoveElement(list, path), path)
Back(list) == list[Len(list)]

Without(path) == [p \in DOMAIN items \ {path} |-> items[p]]

Expired(path) == now > items[path].expiresAt

\* Whether Get answers from the cache, and what: NoValue is "known not to exist".
Hit(path) == Enabled /\ path \in DOMAIN items /\ ~Expired(path)
CachedValue(path) == items[path].value

--------------------------------------------------------------------------------
(* Plausible bugs, used to show that the properties can fail. *)

\* A hit renews the entry.
MutantGetHit(path) ==
  /\ Hit(path)
  /\ items' = [items EXCEPT ![path].expiresAt = now + TTL]
  /\ lru' = MoveToFront(lru, path)
  /\ UNCHANGED now

\* A hit does not count as a use.
MutantGetHitNoMove(path) == Hit(path) /\ UNCHANGED vars

\* Off by one: the cache holds one entry too many.
MutantOverfull(paths) == Cardinality(paths) > Limit + 1

\* Drops the map entry and leaves the list element behind.
MutantRemoveLocked(path) ==
  /\ items' = Without(path)
  /\ UNCHANGED lru

--------------------------------------------------------------------------------

Init ==
  /\ now = 0
  /\ items = [p \in {} |-> {}]
  /\ lru = <<>>

removeLocked(path) ==
  /\ items' = Without(path)
  /\ lru' = RemoveElement(lru, path)

Overfull(paths) == Cardinality(paths) > Limit

\* store: update in place, or insert at the front and evict from the back.  The
\* eviction loop runs at most once, as the map was within its limit before.
store(path, value, negative, ttl) ==
  LET entry == [value |-> value, isNegative |-> negative, expiresAt |-> now + ttl]
      grown == DOMAIN items \cup {path}
      pushed == PushFront(lru, path)
      kept == IF Overfull(grown) THEN grown \ {Back(pushed)} ELSE grown
  IN  /\ UNCHANGED now
      /\ \/ /\ path \in DOMAIN items
            /\ items' = [items EXCEPT ![path] = entry]
            /\ lru' = MoveToFront(lru, path)
         \/ /\ path \notin DOMAIN items
            /\ items' = [p \in kept |-> IF p = path THEN entry ELSE items[p]]
            /\ lru' = IF Overfull(grown) THEN RemoveElement(pushed, Back(pushed)) ELSE pushed

\* Get on a live entry: a hit, which counts as a use.
GetHit(path) ==
  /\ Hit(path)
  /\ lru' = MoveToFront(lru, path)
  /\ UNCHANGED <<now, items>>

\* Get on anything else: a miss, which drops an expired entry.
GetMiss(path) ==
  /\ ~Hit(path)
  /\ IF Enabled /\ path \in DOMAIN items
     THEN removeLocked(path)
     ELSE UNCHANGED cacheVars
  /\ UNCHANGED now

Set(path, value) ==
  IF Enabled /\ TTL > 0 THEN store(path, value, FALSE, TTL) ELSE UNCHANGED vars

SetNegative(path) ==
  IF Enabled /\ NegativeTTL > 0 THEN store(path, NoValue, TRUE, NegativeTTL) ELSE UNCHANGED vars

Invalidate(path) ==
  /\ path \in DOMAIN items
  /\ removeLocked(path)
  /\ UNCHANGED now

Flush ==
  /\ items' = [p \in {} |-> {}]
  /\ lru' = <<>>
  /\ UNCHANGED now

Tick == now < Horizon /\ now' = now + 1 /\ UNCHANGED cacheVars

Next ==
  \/ \E p \in Path : GetHit(p) \/ GetMiss(p) \/ SetNegative(p) \/ Invalidate(p)
  \/ \E p \in Path, v \in Value : Set(p, v)
  \/ Flush
  \/ Tick

Spec == Init /\ [][Next]_vars

--------------------------------------------------------------------------------
(* Properties *)

\* The map and the LRU list describe the same set of entries, each once, so
\* evictLocked always finds a victim and removeLocked never leaves an orphan.
LruMatchesItems ==
  /\ \A i, j \in DOMAIN lru : lru[i] = lru[j] => i = j
  /\ {lru[i] : i \in DOMAIN lru} = DOMAIN items

\* evictLocked keeps the cache within its configured size.
SizeBounded == Cardinality(DOMAIN items) <= Limit

Contract == INSTANCE CacheContract WITH
              content <- [p \in {q \in DOMAIN items : ~Expired(q)} |->
                            [answer |-> items[p].value, until |-> items[p].expiresAt]]

\* What Get may answer is the last answer stored for the path, for exactly its
\* TTL (positive or negative) and not renewed by hits; eviction, expiry and
\* invalidation only ever forget.
ImplementsContract == Contract!Spec
================================================================================
