------------------------------ MODULE CacheProofs ------------------------------
(***************************************************************************)
(* The cache for every set of paths and values, every TTL and every size:  *)
(* its list and its map agree, it keeps to its limit, it evicts the least  *)
(* recently used entry, and it implements CacheContract.                   *)
(***************************************************************************)
EXTENDS CacheRecency, FiniteSetTheorems, SequenceTheorems, TLAPS

--------------------------------------------------------------------------------
(* The list operations, on lists without duplicates. *)

\* Removing an element that occurs takes out that element alone; the elements
\* before it stay where they are and those after it move up by one.
LEMMA RemoveElementPresent ==
  ASSUME NEW S, NEW list \in Seq(S), IsInjective(list), NEW k \in DOMAIN list
  PROVE  LET rest == RemoveElement(list, list[k])
         IN  /\ rest \in Seq(S)
             /\ Len(rest) = Len(list) - 1
             /\ \A j \in 1 .. Len(list) - 1 : rest[j] = IF j < k THEN list[j] ELSE list[j + 1]
             /\ IsInjective(rest)
             /\ Range(rest) = Range(list) \ {list[k]}
<1> DEFINE n == Len(list)
           rest == RemoveElement(list, list[k])
<1>1. n \in Nat /\ DOMAIN list = 1 .. n /\ k \in 1 .. n /\ \A i \in 1 .. n : list[i] \in S
  BY LenProperties, ElementOfSeq
<1>2. Position(list, list[k]) = k
  BY DEF Position, IsInjective
<1>3. rest = [j \in 1 .. n - 1 |-> IF j < k THEN list[j] ELSE list[j + 1]]
  BY <1>2 DEF RemoveElement
<1>4. n - 1 \in Nat /\ \A j \in 1 .. n - 1 : rest[j] \in S
  BY <1>1, <1>3
<1>5. rest \in Seq(S) /\ Len(rest) = n - 1 /\ DOMAIN rest = 1 .. n - 1
  BY <1>3, <1>4
<1>6. \A j \in 1 .. n - 1 : rest[j] = IF j < k THEN list[j] ELSE list[j + 1]
  BY <1>3
<1> HIDE DEF n, rest
<1> DEFINE from(j) == IF j < k THEN j ELSE j + 1
<1>7. /\ \A j \in 1 .. n - 1 : from(j) \in (1 .. n) \ {k} /\ rest[j] = list[from(j)]
      /\ \A i, j \in 1 .. n - 1 : from(i) = from(j) => i = j
  BY <1>1, <1>6
<1> HIDE DEF from
<1>8. IsInjective(rest) /\ Range(rest) \subseteq Range(list) \ {list[k]}
  BY <1>1, <1>5, <1>7 DEF IsInjective, Range
<1>9. ASSUME NEW x \in Range(list) \ {list[k]}
      PROVE  x \in Range(rest)
  <2>1. PICK i \in 1 .. n : x = list[i] /\ i # k
    BY <1>1 DEF Range
  <2>2. CASE i < k
    BY <1>1, <1>5, <1>6, <2>1, <2>2, SMTT(30) DEF Range
  <2>3. CASE i > k
    <3>1. i - 1 \in 1 .. n - 1 /\ rest[i - 1] = list[i]
      BY <1>1, <1>6, <2>1, <2>3
    <3> QED
      BY <1>5, <2>1, <3>1 DEF Range
  <2> QED
    BY <1>1, <2>1, <2>2, <2>3
<1> QED
  BY <1>5, <1>6, <1>8, <1>9 DEF n, rest

\* Pushing puts the new element first and moves the others down by one.
LEMMA PushFrontIsSeq ==
  ASSUME NEW S, NEW list \in Seq(S), NEW x \in S
  PROVE  LET pushed == PushFront(list, x)
         IN  /\ pushed \in Seq(S)
             /\ Len(pushed) = Len(list) + 1
             /\ DOMAIN pushed = 1 .. Len(list) + 1
             /\ pushed[1] = x
             /\ \A j \in 1 .. Len(list) : pushed[j + 1] = list[j]
<1> DEFINE n == Len(list)
           pushed == PushFront(list, x)
<1>1. n \in Nat /\ DOMAIN list = 1 .. n /\ \A i \in 1 .. n : list[i] \in S
  BY LenProperties, ElementOfSeq
<1>2. pushed = [j \in 1 .. n + 1 |-> IF j = 1 THEN x ELSE list[j - 1]]
  BY DEF PushFront
<1>3. \A j \in 1 .. n + 1 : pushed[j] = IF j = 1 THEN x ELSE list[j - 1]
  BY <1>2
<1>4. n + 1 \in Nat /\ \A j \in 1 .. n + 1 : pushed[j] \in S
  BY <1>1, <1>3
<1>5. pushed \in Seq(S) /\ Len(pushed) = n + 1 /\ DOMAIN pushed = 1 .. n + 1
  BY <1>2, <1>4
<1>6. pushed[1] = x /\ \A j \in 1 .. n : pushed[j + 1] = list[j]
  BY <1>1, <1>3
<1> QED
  BY <1>5, <1>6

\* A new element leaves the list without duplicates.
LEMMA PushFrontNew ==
  ASSUME NEW S, NEW list \in Seq(S), IsInjective(list), NEW x \in S, x \notin Range(list)
  PROVE  LET pushed == PushFront(list, x)
         IN  /\ IsInjective(pushed)
             /\ Range(pushed) = Range(list) \cup {x}
<1> DEFINE pushed == PushFront(list, x)
<1>1. Len(list) \in Nat /\ DOMAIN list = 1 .. Len(list)
  BY LenProperties
<1>2. /\ DOMAIN pushed = 1 .. Len(list) + 1
      /\ pushed[1] = x /\ \A j \in 1 .. Len(list) : pushed[j + 1] = list[j]
  BY PushFrontIsSeq
<1> HIDE DEF pushed
<1>3. \A j \in 1 .. Len(list) : list[j] # x
  BY <1>1 DEF Range
<1>4. ASSUME NEW j \in DOMAIN pushed, j # 1
      PROVE  j - 1 \in 1 .. Len(list) /\ pushed[j] = list[j - 1]
  <2>1. j - 1 \in 1 .. Len(list) /\ (j - 1) + 1 = j
    BY <1>1, <1>2, <1>4
  <2> QED
    BY <1>2, <2>1
<1>5. IsInjective(pushed)
  <2> SUFFICES ASSUME NEW i \in DOMAIN pushed, NEW j \in DOMAIN pushed, pushed[i] = pushed[j]
               PROVE  i = j
    BY DEF IsInjective
  <2>1. CASE i = 1 \/ j = 1
    BY <1>2, <1>3, <1>4, <2>1
  <2>2. CASE i # 1 /\ j # 1
    <3>1. i - 1 = j - 1
      BY <1>1, <1>4, <2>2 DEF IsInjective
    <3> QED
      BY <1>1, <1>2, <3>1
  <2> QED
    BY <2>1, <2>2
<1>6. Range(list) \cup {x} \subseteq Range(pushed)
  <2>1. 1 \in DOMAIN pushed /\ \A j \in 1 .. Len(list) : j + 1 \in DOMAIN pushed
    BY <1>1, <1>2
  <2> QED
    BY <1>1, <1>2, <2>1 DEF Range
<1>7. \A j \in DOMAIN pushed : pushed[j] \in Range(list) \cup {x}
  BY <1>1, <1>2, <1>4 DEF Range
<1>8. Range(pushed) = Range(list) \cup {x}
  BY <1>6, <1>7 DEF Range
<1> QED
  BY <1>5, <1>8 DEF pushed

\* Nothing is removed when the path has no element.
LEMMA RemoveElementAbsent ==
  ASSUME NEW list, NEW x, x \notin Range(list)
  PROVE  RemoveElement(list, x) = list
BY DEF RemoveElement, Range

\* Moving to the front keeps a list free of duplicates and adds at most the path.
LEMMA MoveToFrontDistinct ==
  ASSUME NEW S, NEW list \in Seq(S), IsInjective(list), NEW x \in S
  PROVE  /\ MoveToFront(list, x) \in Seq(S)
         /\ IsInjective(MoveToFront(list, x))
         /\ Range(MoveToFront(list, x)) = Range(list) \cup {x}
<1> DEFINE rest == RemoveElement(list, x)
<1>1. rest \in Seq(S) /\ IsInjective(rest) /\ Range(rest) = Range(list) \ {x}
  <2>1. CASE x \in Range(list)
    <3>1. PICK k \in DOMAIN list : list[k] = x
      BY <2>1 DEF Range
    <3> QED
      BY <3>1, RemoveElementPresent
  <2>2. CASE x \notin Range(list)
    BY <2>2, RemoveElementAbsent
  <2> QED
    BY <2>1, <2>2
<1> HIDE DEF rest
<1>2. x \notin Range(rest)
  BY <1>1
<1>3. /\ PushFront(rest, x) \in Seq(S)
      /\ IsInjective(PushFront(rest, x))
      /\ Range(PushFront(rest, x)) = Range(rest) \cup {x}
  BY <1>1, <1>2, PushFrontNew, PushFrontIsSeq
<1> QED
  BY <1>1, <1>3, ZenonT(30) DEF MoveToFront, rest

--------------------------------------------------------------------------------

\* The types of the cache's state; Entry is what store builds.
Typed ==
  /\ now \in Nat
  /\ DOMAIN items \subseteq Path /\ items \in [DOMAIN items -> Entry]
  /\ lru \in Seq(Path)

\* The inductive invariant.  SizeBounded needs LruMatchesItems (evicting the last
\* element of the list shrinks the map only if that element is in the map), and
\* cardinalities say nothing of a map that is not finite.
IInv ==
  /\ Typed
  /\ IsFiniteSet(DOMAIN items)
  /\ LruMatchesItems
  /\ SizeBounded

LEMMA LruMatchesItemsDef ==
  LruMatchesItems <=> IsInjective(lru) /\ Range(lru) = DOMAIN items
BY DEF LruMatchesItems, IsInjective, Range

LEMMA LimitPositive == Limit \in Nat \ {0}
BY CacheAssumption DEF Limit

\* Removing an entry, from the map and from the list.
LEMMA RemoveKeepsIInv ==
  ASSUME IInv, NEW path \in DOMAIN items, removeLocked(path), now' = now
  PROVE  IInv'
<1>1. /\ items' = [p \in DOMAIN items \ {path} |-> items[p]]
      /\ DOMAIN items' = DOMAIN items \ {path}
      /\ lru' = RemoveElement(lru, path)
  BY DEF removeLocked, Without
<1>2. IsInjective(lru) /\ Range(lru) = DOMAIN items /\ lru \in Seq(Path)
  BY LruMatchesItemsDef DEF IInv, Typed
<1>3. PICK k \in DOMAIN lru : lru[k] = path
  BY <1>2 DEF Range
<1>4. lru' \in Seq(Path) /\ IsInjective(lru') /\ Range(lru') = Range(lru) \ {path}
  BY <1>1, <1>2, <1>3, RemoveElementPresent
<1>5. Typed'
  BY <1>1, <1>4 DEF IInv, Typed
<1>6. IsFiniteSet(DOMAIN items') /\ Cardinality(DOMAIN items') = Cardinality(DOMAIN items) - 1
  BY <1>1, FS_RemoveElement DEF IInv
<1>7. LruMatchesItems'
  BY <1>1, <1>2, <1>4 DEF LruMatchesItems, IsInjective, Range
<1>8. SizeBounded'
  <2>1. Cardinality(DOMAIN items) \in Nat /\ Cardinality(DOMAIN items) <= Limit
    BY FS_CardinalityType DEF IInv, SizeBounded
  <2> QED
    BY <1>6, <2>1, LimitPositive DEF SizeBounded
<1> QED
  BY <1>5, <1>6, <1>7, <1>8 DEF IInv

\* What an insertion leaves behind: the new entry is always kept, at most one other
\* is evicted, and that one is the last of the list.
LEMMA InsertionEvictsOne ==
  ASSUME IInv, NEW path \in Path, path \notin DOMAIN items
  PROVE  LET grown == DOMAIN items \cup {path}
             pushed == PushFront(lru, path)
             victim == Back(pushed)
             rest == RemoveElement(pushed, victim)
         IN  /\ pushed \in Seq(Path) /\ IsInjective(pushed) /\ Range(pushed) = grown
             /\ IsFiniteSet(grown)
             /\ ~Overfull(grown) => Cardinality(grown) <= Limit
             /\ Overfull(grown) =>
                  /\ Len(pushed) \in DOMAIN pushed
                  /\ victim \in DOMAIN items
                  /\ rest \in Seq(Path) /\ IsInjective(rest) /\ Range(rest) = grown \ {victim}
                  /\ IsFiniteSet(grown \ {victim}) /\ Cardinality(grown \ {victim}) <= Limit
<1> DEFINE grown == DOMAIN items \cup {path}
           pushed == PushFront(lru, path)
           victim == Back(pushed)
           rest == RemoveElement(pushed, victim)
<1>1. IsInjective(lru) /\ Range(lru) = DOMAIN items /\ lru \in Seq(Path)
  BY LruMatchesItemsDef DEF IInv, Typed
<1>2. Len(lru) \in Nat /\ DOMAIN lru = 1 .. Len(lru)
  BY <1>1, LenProperties
<1>3. IsInjective(pushed) /\ Range(pushed) = grown
  BY <1>1, PushFrontNew
<1>4. /\ pushed \in Seq(Path) /\ Len(pushed) = Len(lru) + 1 /\ DOMAIN pushed = 1 .. Len(lru) + 1
      /\ \A j \in 1 .. Len(lru) : pushed[j + 1] = lru[j]
  BY <1>1, PushFrontIsSeq
<1>5. IsFiniteSet(grown) /\ Cardinality(grown) = Cardinality(DOMAIN items) + 1
  BY FS_AddElement DEF IInv
<1>6. Cardinality(DOMAIN items) \in Nat /\ Cardinality(DOMAIN items) <= Limit
  BY FS_CardinalityType DEF IInv, SizeBounded
<1>7. ~Overfull(grown) => Cardinality(grown) <= Limit
  BY <1>5, <1>6, LimitPositive DEF Overfull
<1>8. ASSUME Overfull(grown)
      PROVE  /\ Len(pushed) \in DOMAIN pushed
             /\ victim \in DOMAIN items
             /\ rest \in Seq(Path) /\ IsInjective(rest) /\ Range(rest) = grown \ {victim}
             /\ IsFiniteSet(grown \ {victim}) /\ Cardinality(grown \ {victim}) <= Limit
  <2>1. Cardinality(DOMAIN items) > 0
    BY <1>5, <1>6, <1>8, LimitPositive DEF Overfull
  <2>2. DOMAIN items # {}
    BY <2>1, FS_EmptySet DEF IInv
  <2>3. Len(lru) > 0
    BY <1>1, <1>2, <2>2 DEF Range
  <2>4. Len(pushed) \in DOMAIN pushed /\ victim = lru[Len(lru)] /\ victim = pushed[Len(pushed)]
    BY <1>2, <1>3, <1>4, <2>3 DEF Back
  <2>5. victim \in DOMAIN items
    <3>1. Len(lru) \in DOMAIN lru
      BY <1>2, <2>3
    <3>2. lru[Len(lru)] \in Range(lru)
      BY <3>1 DEF Range
    <3> QED
      BY <1>1, <2>4, <3>2
  <2>6. rest \in Seq(Path) /\ IsInjective(rest) /\ Range(rest) = grown \ {victim}
    BY <1>3, <1>4, <2>4, RemoveElementPresent
  <2>7. IsFiniteSet(grown \ {victim}) /\ Cardinality(grown \ {victim}) = Cardinality(grown) - 1
    BY <1>5, <2>5, FS_RemoveElement
  <2>8. Cardinality(grown \ {victim}) <= Limit
    BY <1>5, <1>6, <2>7, LimitPositive
  <2> QED
    BY <2>4, <2>5, <2>6, <2>7, <2>8
<1> QED
  BY <1>3, <1>4, <1>5, <1>7, <1>8

\* Storing an answer, whether it renews an entry or inserts one.
LEMMA StoreKeepsIInv ==
  ASSUME IInv, NEW path \in Path, NEW value \in Value \cup {NoValue},
         NEW negative \in BOOLEAN, NEW ttl \in Nat,
         store(path, value, negative, ttl)
  PROVE  IInv'
<1> DEFINE entry == [value |-> value, isNegative |-> negative, expiresAt |-> now + ttl]
           grown == DOMAIN items \cup {path}
           pushed == PushFront(lru, path)
           kept == IF Overfull(grown) THEN grown \ {Back(pushed)} ELSE grown
<1>1. entry \in Entry /\ now' = now /\ now \in Nat
  BY DEF store, Entry, IInv, Typed
<1>2. IsInjective(lru) /\ Range(lru) = DOMAIN items /\ lru \in Seq(Path)
  BY LruMatchesItemsDef DEF IInv, Typed
<1>3. CASE path \in DOMAIN items
  <2>1. items' = [items EXCEPT ![path] = entry] /\ lru' = MoveToFront(lru, path)
    BY <1>3 DEF store
  <2>2. lru' \in Seq(Path) /\ IsInjective(lru') /\ Range(lru') = DOMAIN items
    <3>1. lru' \in Seq(Path) /\ IsInjective(lru') /\ Range(lru') = Range(lru) \cup {path}
      BY <1>2, <2>1, MoveToFrontDistinct
    <3> QED
      BY <1>2, <1>3, <3>1
  <2>3. DOMAIN items' = DOMAIN items
    BY <2>1
  <2>4. Typed'
    BY <1>1, <2>1, <2>2 DEF IInv, Typed
  <2>5. LruMatchesItems'
    BY <2>2, <2>3 DEF LruMatchesItems, IsInjective, Range
  <2> QED
    BY <2>3, <2>4, <2>5 DEF IInv, SizeBounded
<1>4. CASE path \notin DOMAIN items
  <2>1. /\ items' = [p \in kept |-> IF p = path THEN entry ELSE items[p]]
        /\ lru' = IF Overfull(grown) THEN RemoveElement(pushed, Back(pushed)) ELSE pushed
    BY <1>4 DEF store
  <2>2. /\ lru' \in Seq(Path) /\ IsInjective(lru') /\ Range(lru') = kept
        /\ IsFiniteSet(kept) /\ Cardinality(kept) <= Limit
    BY <1>4, <2>1, InsertionEvictsOne
  <2>3. DOMAIN items' = kept /\ kept \subseteq DOMAIN items \cup {path}
    BY <2>1
  <2>4. Typed'
    BY <1>1, <2>1, <2>2, <2>3 DEF IInv, Typed
  <2>5. LruMatchesItems'
    BY <2>2, <2>3 DEF LruMatchesItems, IsInjective, Range
  <2> QED
    BY <2>2, <2>3, <2>4, <2>5 DEF IInv, SizeBounded
<1> QED
  BY <1>3, <1>4

LEMMA SetKeepsIInv ==
  ASSUME IInv, NEW path \in Path, NEW value \in Value, Set(path, value)
  PROVE  IInv'
<1>1. CASE Enabled /\ TTL > 0
  <2>1. store(path, value, FALSE, TTL)
    BY <1>1 DEF Set
  <2>2. TTL \in Nat
    BY <1>1, CacheAssumption
  <2> QED
    BY <2>1, <2>2, StoreKeepsIInv
<1>2. CASE ~(Enabled /\ TTL > 0)
  BY <1>2 DEF Set, vars, IInv, Typed, LruMatchesItems, SizeBounded
<1> QED
  BY <1>1, <1>2

LEMMA SetNegativeKeepsIInv ==
  ASSUME IInv, NEW path \in Path, SetNegative(path)
  PROVE  IInv'
<1>1. CASE Enabled /\ NegativeTTL > 0
  <2>1. store(path, NoValue, TRUE, NegativeTTL)
    BY <1>1 DEF SetNegative
  <2>2. NegativeTTL \in Nat
    BY <1>1, CacheAssumption
  <2> QED
    BY <2>1, <2>2, StoreKeepsIInv
<1>2. CASE ~(Enabled /\ NegativeTTL > 0)
  BY <1>2 DEF SetNegative, vars, IInv, Typed, LruMatchesItems, SizeBounded
<1> QED
  BY <1>1, <1>2

LEMMA InitIInv == Init => IInv
<1> SUFFICES ASSUME Init PROVE IInv
  OBVIOUS
<1>1. DOMAIN items = {} /\ lru = <<>> /\ now = 0
  BY DEF Init
<1>2. Typed
  BY <1>1, EmptySeq DEF Typed
<1>3. IsFiniteSet(DOMAIN items) /\ Cardinality(DOMAIN items) = 0
  BY <1>1, FS_EmptySet
<1>4. LruMatchesItems
  BY <1>1 DEF LruMatchesItems
<1> QED
  BY <1>2, <1>3, <1>4, LimitPositive DEF IInv, SizeBounded

LEMMA NextKeepsIInv == IInv /\ [Next]_vars => IInv'
<1> SUFFICES ASSUME IInv, [Next]_vars PROVE IInv'
  OBVIOUS
<1>1. ASSUME NEW p \in Path, GetHit(p) PROVE IInv'
  <2>1. lru' = MoveToFront(lru, p) /\ items' = items /\ now' = now /\ p \in DOMAIN items
    BY <1>1 DEF GetHit, Hit
  <2>2. lru \in Seq(Path) /\ IsInjective(lru) /\ Range(lru) = DOMAIN items
    BY LruMatchesItemsDef DEF IInv, Typed
  <2>3. lru' \in Seq(Path) /\ IsInjective(lru') /\ Range(lru') = DOMAIN items'
    <3>1. lru' \in Seq(Path) /\ IsInjective(lru') /\ Range(lru') = Range(lru) \cup {p}
      BY <2>1, <2>2, MoveToFrontDistinct
    <3> QED
      BY <2>1, <2>2, <3>1
  <2>4. LruMatchesItems'
    BY <2>3 DEF LruMatchesItems, IsInjective, Range
  <2> QED
    BY <2>1, <2>3, <2>4 DEF IInv, Typed, SizeBounded
<1>2. ASSUME NEW p \in Path, GetMiss(p) PROVE IInv'
  <2>1. CASE Enabled /\ p \in DOMAIN items
    BY <1>2, <2>1, RemoveKeepsIInv DEF GetMiss
  <2>2. CASE ~(Enabled /\ p \in DOMAIN items)
    BY <1>2, <2>2 DEF GetMiss, cacheVars, IInv, Typed, LruMatchesItems, SizeBounded
  <2> QED
    BY <2>1, <2>2
<1>3. ASSUME NEW p \in Path, SetNegative(p) PROVE IInv'
  BY <1>3, SetNegativeKeepsIInv
<1>4. ASSUME NEW p \in Path, Invalidate(p) PROVE IInv'
  BY <1>4, RemoveKeepsIInv DEF Invalidate
<1>5. ASSUME NEW p \in Path, NEW v \in Value, Set(p, v) PROVE IInv'
  BY <1>5, SetKeepsIInv
<1>6. CASE Flush
  <2>1. DOMAIN items' = {} /\ lru' = <<>> /\ now' = now
    BY <1>6 DEF Flush
  <2>2. Typed'
    BY <2>1, EmptySeq DEF Typed, IInv
  <2>3. IsFiniteSet(DOMAIN items') /\ Cardinality(DOMAIN items') = 0
    BY <2>1, FS_EmptySet
  <2>4. LruMatchesItems'
    BY <2>1 DEF LruMatchesItems
  <2> QED
    BY <2>2, <2>3, <2>4, LimitPositive DEF IInv, SizeBounded
<1>7. CASE Tick
  BY <1>7 DEF Tick, cacheVars, IInv, Typed, LruMatchesItems, SizeBounded
<1>8. CASE UNCHANGED vars
  BY <1>8 DEF vars, IInv, Typed, LruMatchesItems, SizeBounded
<1> QED
  BY <1>1, <1>2, <1>3, <1>4, <1>5, <1>6, <1>7, <1>8 DEF Next

\* The map and the LRU list describe the same entries, each once, whatever order
\* Get, Set, SetNegative, Invalidate, Flush and the clock come in.
THEOREM ListAndMapAgree == Spec => []LruMatchesItems
<1>1. IInv => LruMatchesItems
  BY DEF IInv
<1> QED
  BY InitIInv, NextKeepsIInv, <1>1, PTL DEF Spec

\* evictLocked keeps the cache within cache.maxEntries, or within 10000 entries when
\* that is not positive: one eviction per insertion is enough.
THEOREM CacheIsBounded == Spec => []SizeBounded
<1>1. IInv => SizeBounded
  BY DEF IInv
<1> QED
  BY InitIInv, NextKeepsIInv, <1>1, PTL DEF Spec

--------------------------------------------------------------------------------
(* Recency: the list is at all times the beginning of the list of uses. *)

Begins(a, b) == Len(a) <= Len(b) /\ \A i \in DOMAIN a : a[i] = b[i]

\* Removing a path from both lists keeps one the beginning of the other: the path is
\* at the same place in both, or beyond the end of the shorter one.
LEMMA RemoveKeepsBegins ==
  ASSUME NEW S, NEW a \in Seq(S), NEW b \in Seq(S), IsInjective(a), IsInjective(b),
         Begins(a, b), NEW x
  PROVE  Begins(RemoveElement(a, x), RemoveElement(b, x))
<1> DEFINE ra == RemoveElement(a, x)
           rb == RemoveElement(b, x)
<1>1. /\ Len(a) \in Nat /\ DOMAIN a = 1 .. Len(a)
      /\ Len(b) \in Nat /\ DOMAIN b = 1 .. Len(b)
      /\ Len(a) <= Len(b) /\ \A i \in 1 .. Len(a) : a[i] = b[i]
  BY LenProperties DEF Begins
<1>2. CASE x \in Range(a)
  <2>1. PICK k \in DOMAIN a : a[k] = x
    BY <1>2 DEF Range
  <2>2. k \in DOMAIN b /\ b[k] = x
    BY <1>1, <2>1
  <2>3. /\ ra \in Seq(S) /\ Len(ra) = Len(a) - 1
        /\ \A j \in 1 .. Len(a) - 1 : ra[j] = IF j < k THEN a[j] ELSE a[j + 1]
    BY <2>1, RemoveElementPresent
  <2>4. /\ rb \in Seq(S) /\ Len(rb) = Len(b) - 1
        /\ \A j \in 1 .. Len(b) - 1 : rb[j] = IF j < k THEN b[j] ELSE b[j + 1]
    BY <2>2, RemoveElementPresent
  <2>5. DOMAIN ra = 1 .. Len(a) - 1
    BY <2>3, LenProperties
  <2> HIDE DEF ra, rb
  <2>6. \A j \in 1 .. Len(a) - 1 : ra[j] = rb[j]
    BY <1>1, <2>1, <2>3, <2>4
  <2>7. Begins(ra, rb)
    BY <1>1, <2>3, <2>4, <2>5, <2>6 DEF Begins
  <2> QED
    BY <2>7 DEF ra, rb
<1>3. CASE x \notin Range(a) /\ x \in Range(b)
  <2>1. PICK k \in DOMAIN b : b[k] = x
    BY <1>3 DEF Range
  <2>2. k > Len(a)
    BY <1>1, <1>3, <2>1 DEF Range
  <2>3. ra = a
    BY <1>3, RemoveElementAbsent
  <2>4. /\ Len(rb) = Len(b) - 1
        /\ \A j \in 1 .. Len(b) - 1 : rb[j] = IF j < k THEN b[j] ELSE b[j + 1]
    BY <2>1, RemoveElementPresent
  <2> HIDE DEF rb
  <2>5. \A j \in 1 .. Len(a) : j \in 1 .. Len(b) - 1 /\ j < k
    BY <1>1, <2>1, <2>2
  <2>6. Begins(a, rb)
    BY <1>1, <2>1, <2>2, <2>4, <2>5 DEF Begins
  <2> QED
    BY <2>3, <2>6 DEF rb
<1>4. CASE x \notin Range(a) /\ x \notin Range(b)
  BY <1>4, RemoveElementAbsent
<1> QED
  BY <1>2, <1>3, <1>4

LEMMA PushKeepsBegins ==
  ASSUME NEW S, NEW a \in Seq(S), NEW b \in Seq(S), Begins(a, b), NEW x \in S
  PROVE  Begins(PushFront(a, x), PushFront(b, x))
<1> DEFINE pa == PushFront(a, x)
           pb == PushFront(b, x)
<1>1. /\ Len(a) \in Nat /\ DOMAIN a = 1 .. Len(a)
      /\ Len(b) \in Nat /\ DOMAIN b = 1 .. Len(b)
      /\ Len(a) <= Len(b) /\ \A i \in 1 .. Len(a) : a[i] = b[i]
  BY LenProperties DEF Begins
<1>2. /\ Len(pa) = Len(a) + 1 /\ DOMAIN pa = 1 .. Len(a) + 1 /\ pa[1] = x
      /\ \A j \in 1 .. Len(a) : pa[j + 1] = a[j]
  BY PushFrontIsSeq
<1>3. /\ Len(pb) = Len(b) + 1 /\ DOMAIN pb = 1 .. Len(b) + 1 /\ pb[1] = x
      /\ \A j \in 1 .. Len(b) : pb[j + 1] = b[j]
  BY PushFrontIsSeq
<1> HIDE DEF pa, pb
<1>4. ASSUME NEW i \in 1 .. Len(a) + 1 PROVE pa[i] = pb[i]
  <2>1. CASE i = 1
    BY <1>2, <1>3, <2>1
  <2>2. CASE i # 1
    <3>1. i - 1 \in 1 .. Len(a) /\ i - 1 \in 1 .. Len(b) /\ (i - 1) + 1 = i
      BY <1>1, <2>2
    <3> QED
      BY <1>1, <1>2, <1>3, <3>1
  <2> QED
    BY <2>1, <2>2
<1>5. Begins(pa, pb)
  BY <1>1, <1>2, <1>3, <1>4 DEF Begins
<1> QED
  BY <1>5 DEF pa, pb

\* Dropping the last element only shortens a list.
LEMMA DropLastKeepsBegins ==
  ASSUME NEW S, NEW a \in Seq(S), IsInjective(a), Len(a) \in DOMAIN a, NEW b, Len(b) \in Nat,
         Begins(a, b)
  PROVE  Begins(RemoveElement(a, Back(a)), b)
<1> DEFINE ra == RemoveElement(a, Back(a))
<1>1. Len(a) \in Nat /\ DOMAIN a = 1 .. Len(a)
  BY LenProperties
<1>2. /\ ra \in Seq(S) /\ Len(ra) = Len(a) - 1
      /\ \A j \in 1 .. Len(a) - 1 : ra[j] = IF j < Len(a) THEN a[j] ELSE a[j + 1]
  BY RemoveElementPresent DEF Back
<1>3. DOMAIN ra = 1 .. Len(a) - 1
  BY <1>2, LenProperties
<1> HIDE DEF ra
<1>4. Begins(ra, b)
  BY <1>1, <1>2, <1>3 DEF Begins
<1> QED
  BY <1>4 DEF ra

\* KeepsMostRecent, with what its induction needs: the list of uses is a list of
\* paths without duplicates.
RecencyInv ==
  /\ IInv
  /\ touched \in Seq(Path) /\ IsInjective(touched)
  /\ KeepsMostRecent

LEMMA KeepsMostRecentDef == KeepsMostRecent <=> Begins(lru, touched)
BY DEF KeepsMostRecent, Begins

\* A use keeps touched well formed, and the moved list its beginning.
LEMMA UseKeepsRecency ==
  ASSUME RecencyInv, NEW path \in Path, Use(path)
  PROVE  /\ touched' \in Seq(Path) /\ IsInjective(touched') /\ Len(touched') \in Nat
         /\ Begins(MoveToFront(lru, path), touched')
<1>1. /\ lru \in Seq(Path) /\ IsInjective(lru) /\ Begins(lru, touched)
      /\ touched \in Seq(Path) /\ IsInjective(touched)
  BY LruMatchesItemsDef, KeepsMostRecentDef DEF RecencyInv, IInv, Typed
<1>2. touched' \in Seq(Path) /\ IsInjective(touched')
  BY <1>1, MoveToFrontDistinct DEF Use
<1>3. Begins(RemoveElement(lru, path), RemoveElement(touched, path))
  BY <1>1, RemoveKeepsBegins
<1>4. RemoveElement(lru, path) \in Seq(Path) /\ RemoveElement(touched, path) \in Seq(Path)
  <2>1. ASSUME NEW list \in Seq(Path), IsInjective(list) PROVE RemoveElement(list, path) \in Seq(Path)
    <3>1. CASE path \in Range(list)
      <4>1. PICK k \in DOMAIN list : list[k] = path
        BY <3>1 DEF Range
      <4> QED
        BY <2>1, <4>1, RemoveElementPresent
    <3>2. CASE path \notin Range(list)
      BY <3>2, RemoveElementAbsent
    <3> QED
      BY <3>1, <3>2
  <2> QED
    BY <1>1, <2>1
<1>5. Begins(MoveToFront(lru, path), MoveToFront(touched, path))
  BY <1>3, <1>4, PushKeepsBegins DEF MoveToFront
<1> QED
  BY <1>2, <1>5, LenProperties DEF Use

LEMMA StoreKeepsRecency ==
  ASSUME RecencyInv, NEW path \in Path, NEW value, NEW negative, NEW ttl,
         store(path, value, negative, ttl), Use(path), IInv'
  PROVE  RecencyInv'
<1>1. /\ touched' \in Seq(Path) /\ IsInjective(touched') /\ Len(touched') \in Nat
      /\ Begins(MoveToFront(lru, path), touched')
  BY UseKeepsRecency
<1>2. CASE path \in DOMAIN items
  <2>1. lru' = MoveToFront(lru, path)
    BY <1>2 DEF store
  <2> QED
    BY <1>1, <2>1 DEF RecencyInv, Begins, KeepsMostRecent
<1>3. CASE path \notin DOMAIN items
  <2> DEFINE grown == DOMAIN items \cup {path}
             pushed == PushFront(lru, path)
  <2>1. lru' = IF Overfull(grown) THEN RemoveElement(pushed, Back(pushed)) ELSE pushed
    BY <1>3 DEF store
  <2>2. path \notin Range(lru)
    BY <1>3, LruMatchesItemsDef DEF RecencyInv, IInv
  <2>3. Begins(pushed, touched')
    BY <1>1, <2>2, RemoveElementAbsent DEF MoveToFront
  <2>4. /\ pushed \in Seq(Path) /\ IsInjective(pushed)
        /\ Overfull(grown) => Len(pushed) \in DOMAIN pushed
    BY <1>3, InsertionEvictsOne DEF RecencyInv
  <2>5. Begins(lru', touched')
    BY <1>1, <2>1, <2>3, <2>4, DropLastKeepsBegins
  <2> QED
    BY <1>1, <2>5 DEF RecencyInv, Begins, KeepsMostRecent
<1> QED
  BY <1>2, <1>3

\* Removing an entry drops the same path from both lists.
LEMMA RemoveKeepsRecency ==
  ASSUME RecencyInv, NEW path \in DOMAIN items, removeLocked(path), Drop(path), IInv'
  PROVE  RecencyInv'
<1>1. /\ lru \in Seq(Path) /\ IsInjective(lru) /\ Range(lru) = DOMAIN items /\ Begins(lru, touched)
      /\ touched \in Seq(Path) /\ IsInjective(touched)
  BY LruMatchesItemsDef, KeepsMostRecentDef DEF RecencyInv, IInv, Typed
<1>2. lru' = RemoveElement(lru, path) /\ touched' = RemoveElement(touched, path)
  BY DEF removeLocked, Drop
<1>3. Begins(lru', touched')
  BY <1>1, <1>2, RemoveKeepsBegins
<1>4. touched' \in Seq(Path) /\ IsInjective(touched')
  <2>1. CASE path \in Range(touched)
    <3>1. PICK k \in DOMAIN touched : touched[k] = path
      BY <2>1 DEF Range
    <3> QED
      BY <1>1, <1>2, <3>1, RemoveElementPresent
  <2>2. CASE path \notin Range(touched)
    BY <1>1, <1>2, <2>2, RemoveElementAbsent
  <2> QED
    BY <2>1, <2>2
<1> QED
  BY <1>3, <1>4 DEF RecencyInv, Begins, KeepsMostRecent

LEMMA InitRecencyInv == InitRecency => RecencyInv
<1> SUFFICES ASSUME InitRecency PROVE RecencyInv
  OBVIOUS
<1>1. IInv /\ lru = <<>> /\ touched = <<>>
  BY InitIInv DEF InitRecency, Init
<1>2. touched \in Seq(Path)
  BY <1>1, EmptySeq
<1>3. IsInjective(touched) /\ KeepsMostRecent
  BY <1>1 DEF IsInjective, KeepsMostRecent
<1> QED
  BY <1>1, <1>2, <1>3 DEF RecencyInv

LEMMA NextKeepsRecencyInv == RecencyInv /\ [NextRecency]_recencyVars => RecencyInv'
<1> SUFFICES ASSUME RecencyInv, [NextRecency]_recencyVars PROVE RecencyInv'
  OBVIOUS
<1>1. IInv'
  <2>1. NextRecency => Next
    BY DEF NextRecency, Next
  <2>2. UNCHANGED recencyVars => UNCHANGED vars
    BY DEF recencyVars, vars
  <2> QED
    BY <2>1, <2>2, NextKeepsIInv DEF RecencyInv
<1>2. ASSUME lru' = lru, touched' = touched PROVE RecencyInv'
  BY <1>1, <1>2 DEF RecencyInv, KeepsMostRecent
<1>3. ASSUME NEW p \in Path, GetHit(p), Use(p) PROVE RecencyInv'
  <2>1. /\ touched' \in Seq(Path) /\ IsInjective(touched')
        /\ Begins(lru', touched')
    BY <1>3, UseKeepsRecency DEF GetHit
  <2> QED
    BY <1>1, <2>1 DEF RecencyInv, Begins, KeepsMostRecent
<1>4. ASSUME NEW p \in Path, GetMiss(p),
             IF Enabled /\ p \in DOMAIN items THEN Drop(p) ELSE Keep
      PROVE  RecencyInv'
  <2>1. CASE Enabled /\ p \in DOMAIN items
    BY <1>1, <1>4, <2>1, RemoveKeepsRecency DEF GetMiss
  <2>2. CASE ~(Enabled /\ p \in DOMAIN items)
    BY <1>2, <1>4, <2>2 DEF GetMiss, Keep, cacheVars
  <2> QED
    BY <2>1, <2>2
<1>5. ASSUME NEW p \in Path, SetNegative(p), Recorded(p, NegativeTTL) PROVE RecencyInv'
  <2>1. CASE Enabled /\ NegativeTTL > 0
    <3>1. store(p, NoValue, TRUE, NegativeTTL) /\ Use(p)
      BY <1>5, <2>1 DEF SetNegative, Recorded
    <3> QED
      BY <1>1, <3>1, StoreKeepsRecency
  <2>2. CASE ~(Enabled /\ NegativeTTL > 0)
    BY <1>2, <1>5, <2>2 DEF SetNegative, Recorded, Keep, vars
  <2> QED
    BY <2>1, <2>2
<1>6. ASSUME NEW p \in Path, Invalidate(p), Drop(p) PROVE RecencyInv'
  BY <1>1, <1>6, RemoveKeepsRecency DEF Invalidate
<1>7. ASSUME NEW p \in Path, NEW v \in Value, Set(p, v), Recorded(p, TTL) PROVE RecencyInv'
  <2>1. CASE Enabled /\ TTL > 0
    <3>1. store(p, v, FALSE, TTL) /\ Use(p)
      BY <1>7, <2>1 DEF Set, Recorded
    <3> QED
      BY <1>1, <3>1, StoreKeepsRecency
  <2>2. CASE ~(Enabled /\ TTL > 0)
    BY <1>2, <1>7, <2>2 DEF Set, Recorded, Keep, vars
  <2> QED
    BY <2>1, <2>2
<1>8. CASE Flush /\ touched' = <<>>
  <2>1. lru' = <<>> /\ touched' = <<>>
    BY <1>8 DEF Flush
  <2>2. touched' \in Seq(Path)
    BY <2>1, EmptySeq
  <2>3. IsInjective(touched') /\ KeepsMostRecent'
    BY <2>1 DEF IsInjective, KeepsMostRecent
  <2> QED
    BY <1>1, <2>2, <2>3 DEF RecencyInv
<1>9. CASE Tick /\ Keep
  BY <1>2, <1>9 DEF Tick, cacheVars, Keep
<1>10. CASE UNCHANGED recencyVars
  BY <1>2, <1>10 DEF recencyVars
<1> QED
  BY <1>3, <1>4, <1>5, <1>6, <1>7, <1>8, <1>9, <1>10 DEF NextRecency

\* Eviction is exactly LRU: what the cache holds is always the most recent part of
\* all the paths used since they were last removed, in the order of their use.
THEOREM EvictsLeastRecent == SpecRecency => []KeepsMostRecent
<1>1. RecencyInv => KeepsMostRecent
  BY DEF RecencyInv
<1> QED
  BY InitRecencyInv, NextKeepsRecencyInv, <1>1, PTL DEF SpecRecency

--------------------------------------------------------------------------------
(* CacheContract *)

\* The refinement mapping: the answers in force are the entries not yet expired.
live == {q \in DOMAIN items : ~Expired(q)}
content == [p \in live |-> [answer |-> items[p].value, until |-> items[p].expiresAt]]

\* A step that keeps some entries and changes none of them forgets the rest.
LEMMA RestrictionForgets ==
  ASSUME Typed, now' = now, NEW keep \in SUBSET DOMAIN items,
         DOMAIN items' = keep, \A p \in keep : items'[p] = items[p]
  PROVE  Contract!Forget
<1>1. live' = live \cap keep
  BY DEF live, Expired
<1>2. content' = [p \in live \cap keep |-> content[p]]
  BY <1>1 DEF content, live
<1>3. live \cap keep \in SUBSET DOMAIN content
  BY DEF content
<1> QED
  BY <1>2, <1>3 DEF Contract!Forget, Contract!Only, content, live

\* Storing an answer puts it in force, and may cost another entry.
LEMMA StorePuts ==
  ASSUME IInv, NEW path \in Path, NEW value \in Value \cup {NoValue}, NEW negative,
         NEW ttl \in Nat, ttl = Contract!TTLOf(value),
         store(path, value, negative, ttl)
  PROVE  Contract!Put(path, value)
<1> DEFINE entry == [value |-> value, isNegative |-> negative, expiresAt |-> now + ttl]
<1>1. now' = now /\ now \in Nat
  BY DEF store, IInv, Typed
<1>2. PICK rest \in SUBSET (DOMAIN items \ {path}) :
        items' = [p \in rest \cup {path} |-> IF p = path THEN entry ELSE items[p]]
  <2>1. CASE path \in DOMAIN items
    <3>1. items' = [items EXCEPT ![path] = entry]
      BY <2>1 DEF store
    <3>2. items' = [p \in (DOMAIN items \ {path}) \cup {path} |-> IF p = path THEN entry ELSE items[p]]
      BY <2>1, <3>1 DEF IInv, Typed
    <3> QED
      BY <3>2
  <2>2. CASE path \notin DOMAIN items
    <3> DEFINE grown == DOMAIN items \cup {path}
               victim == Back(PushFront(lru, path))
    <3>1. items' = [p \in IF Overfull(grown) THEN grown \ {victim} ELSE grown |->
                      IF p = path THEN entry ELSE items[p]]
      BY <2>2 DEF store
    <3>2. Overfull(grown) => victim \in DOMAIN items
      BY <2>2, InsertionEvictsOne
    <3>3. CASE Overfull(grown)
      <4>1. grown \ {victim} = (DOMAIN items \ {victim}) \cup {path}
        BY <2>2, <3>2, <3>3
      <4>2. DOMAIN items \ {victim} \in SUBSET (DOMAIN items \ {path})
        BY <2>2
      <4> QED
        BY <3>1, <3>3, <4>1, <4>2
    <3>4. CASE ~Overfull(grown)
      <4>1. DOMAIN items \in SUBSET (DOMAIN items \ {path})
        BY <2>2
      <4> QED
        BY <3>1, <3>4, <4>1
    <3> QED
      BY <3>3, <3>4
  <2> QED
    BY <2>1, <2>2
<1>3. live' = (live \cap rest) \cup {path}
  <2>1. items'[path] = entry /\ \A p \in rest : items'[p] = items[p]
    BY <1>2
  <2>2. DOMAIN items' = rest \cup {path}
    BY <1>2
  <2> QED
    BY <1>1, <2>1, <2>2 DEF live, Expired
<1>4. content' = [p \in (live \cap rest) \cup {path} |->
                    IF p = path THEN [answer |-> value, until |-> now + ttl] ELSE content[p]]
  BY <1>2, <1>3 DEF content
<1>5. live \cap rest \in SUBSET (DOMAIN content \ {path})
  BY DEF content
<1> QED
  BY <1>1, <1>4, <1>5 DEF Contract!Put, content, live

\* Every step of the cache is a step of the contract or leaves its state alone:
\* hits are invisible, and misses, evictions, Invalidate and Flush only forget.
LEMMA StepSimulation ==
  ASSUME IInv, [Next]_vars
  PROVE  [Contract!Next]_(Contract!vars)
<1>0. now \in Nat /\ Contract!vars = <<now, content>>
  BY DEF IInv, Typed, Contract!vars, content, live
<1>1. ASSUME items' = items, now' = now
      PROVE  UNCHANGED Contract!vars
  <2>1. content' = content
    BY <1>1 DEF content, live, Expired
  <2> QED
    BY <1>0, <1>1, <2>1 DEF Contract!vars, content, live
<1>2. ASSUME NEW path \in DOMAIN items, removeLocked(path), now' = now
      PROVE  Contract!Next
  <2>1. DOMAIN items' = DOMAIN items \ {path} /\ \A p \in DOMAIN items' : items'[p] = items[p]
    BY <1>2 DEF removeLocked, Without
  <2> QED
    BY <1>2, <2>1, RestrictionForgets DEF Contract!Next, IInv
<1>3. ASSUME NEW p \in Path, GetHit(p) PROVE UNCHANGED Contract!vars
  BY <1>1, <1>3 DEF GetHit
<1>4. ASSUME NEW p \in Path, GetMiss(p) PROVE [Contract!Next]_(Contract!vars)
  <2>1. CASE Enabled /\ p \in DOMAIN items
    BY <1>2, <1>4, <2>1 DEF GetMiss
  <2>2. CASE ~(Enabled /\ p \in DOMAIN items)
    BY <1>1, <1>4, <2>2 DEF GetMiss, cacheVars
  <2> QED
    BY <2>1, <2>2
<1>5. ASSUME NEW p \in Path, SetNegative(p) PROVE [Contract!Next]_(Contract!vars)
  <2>1. CASE Enabled /\ NegativeTTL > 0
    <3>1. store(p, NoValue, TRUE, NegativeTTL)
      BY <1>5, <2>1 DEF SetNegative
    <3>2. NegativeTTL \in Nat /\ NegativeTTL = Contract!TTLOf(NoValue)
      BY <2>1, CacheAssumption DEF Contract!TTLOf
    <3>3. Contract!Put(p, NoValue)
      BY <3>1, <3>2, StorePuts
    <3> QED
      BY <3>3 DEF Contract!Next, Contract!Answer
  <2>2. CASE ~(Enabled /\ NegativeTTL > 0)
    BY <1>1, <1>5, <2>2 DEF SetNegative, vars
  <2> QED
    BY <2>1, <2>2
<1>6. ASSUME NEW p \in Path, Invalidate(p) PROVE Contract!Next
  BY <1>2, <1>6 DEF Invalidate
<1>7. ASSUME NEW p \in Path, NEW v \in Value, Set(p, v) PROVE [Contract!Next]_(Contract!vars)
  <2>1. CASE Enabled /\ TTL > 0
    <3>1. store(p, v, FALSE, TTL)
      BY <1>7, <2>1 DEF Set
    <3>2. TTL \in Nat /\ TTL = Contract!TTLOf(v)
      BY <2>1, CacheAssumption DEF Contract!TTLOf
    <3>3. Contract!Put(p, v)
      BY <3>1, <3>2, StorePuts
    <3> QED
      BY <3>3 DEF Contract!Next, Contract!Answer
  <2>2. CASE ~(Enabled /\ TTL > 0)
    BY <1>1, <1>7, <2>2 DEF Set, vars
  <2> QED
    BY <2>1, <2>2
<1>8. CASE Flush
  <2>1. DOMAIN items' = {} /\ now' = now
    BY <1>8 DEF Flush
  <2> QED
    BY <2>1, RestrictionForgets DEF Contract!Next, IInv
<1>9. CASE Tick
  <2>1. now' = now + 1 /\ items' = items
    BY <1>9 DEF Tick, cacheVars
  <2>2. \A p \in DOMAIN items : items[p].expiresAt \in Nat
    BY DEF IInv, Typed, Entry
  <2>3. live' = {p \in live : now' <= content[p].until}
    BY <1>0, <2>1, <2>2 DEF live, content, Expired
  <2>4. content' = [p \in {q \in live : now' <= content[q].until} |-> content[p]]
    BY <2>1, <2>3 DEF content
  <2> QED
    BY <2>1, <2>4 DEF Contract!Next, Contract!Tick, Contract!Only, content, live
<1>10. CASE UNCHANGED vars
  BY <1>1, <1>10 DEF vars
<1> QED
  BY <1>3, <1>4, <1>5, <1>6, <1>7, <1>8, <1>9, <1>10 DEF Next

\* The cache implements its contract: what Get may answer is the last answer stored
\* for the path, for exactly its TTL, and everything else the cache does only forgets.
THEOREM CacheImplementsContract == Spec => ImplementsContract
<1>1. Init => Contract!Init
  <2> SUFFICES ASSUME Init PROVE Contract!Init
    OBVIOUS
  <2>1. {q \in DOMAIN items : ~Expired(q)} = {}
    BY DEF Init
  <2> QED
    BY <2>1 DEF Init, Contract!Init
<1>2. IInv /\ [Next]_vars => [Contract!Next]_(Contract!vars)
  BY StepSimulation
<1> QED
  BY <1>1, <1>2, InitIInv, NextKeepsIInv, PTL DEF Spec, ImplementsContract, Contract!Spec
================================================================================
