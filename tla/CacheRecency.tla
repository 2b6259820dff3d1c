----------------------------- MODULE CacheRecency -----------------------------
(***************************************************************************)
(* Cache with a history variable: the paths in the order of their last use,*)
(* kept with no regard to the cache's size.  It gives an independent       *)
(* account of "least recently used" to hold evictLocked against.           *)
(***************************************************************************)
EXTENDS Cache

VARIABLE touched   \* the paths used and not removed since, most recent first

recencyVars == <<now, items, lru, touched>>

Use(path) == touched' = MoveToFront(touched, path)
Drop(path) == touched' = RemoveElement(touched, path)
Keep == UNCHANGED touched

\* A Set that the configuration turns off stores nothing and uses nothing.
Recorded(path, ttl) == IF Enabled /\ ttl > 0 THEN Use(path) ELSE Keep

InitRecency == Init /\ touched = <<>>

NextRecency ==
  \/ \E p \in Path :
       \/ GetHit(p) /\ Use(p)
       \/ GetMiss(p) /\ (IF Enabled /\ p \in DOMAIN items THEN Drop(p) ELSE Keep)
       \/ SetNegative(p) /\ Recorded(p, NegativeTTL)
       \/ Invalidate(p) /\ Drop(p)
  \/ \E p \in Path, v \in Value : Set(p, v) /\ Recorded(p, TTL)
  \/ Flush /\ touched' = <<>>
  \/ Tick /\ Keep

SpecRecency == InitRecency /\ [][NextRecency]_recencyVars

\* Eviction takes the least recently used entry: of all paths used since they
\* were last removed, the cached ones are always the most recent.  A Get that
\* hits counts as a use; an eviction in the middle of the list, or of an entry
\* just read, would break it.
KeepsMostRecent ==
  /\ Len(lru) <= Len(touched)
  /\ \A i \in DOMAIN lru : lru[i] = touched[i]
===============================================================================
