--------------------------- MODULE SecretReadsProofs ---------------------------
(***************************************************************************)
(* SecretReads for every number of requests, paths, contents and tokens,   *)
(* every pair of TTLs and every bound on a provider call: no two holders   *)
(* share a map, what is served is intact and recent, and nothing gets past *)
(* the access check.                                                       *)
(***************************************************************************)
EXTENDS SecretReads, FiniteSetTheorems, TLAPS

PC == {"idle", "authorized", "fetching", "fetched", "answered", "responded"}

RequestState ==
  [pc : PC, path : Path \cup {Absent}, obj : Obj \cup {Absent}, status : Nat, asOf : Nat,
   sent : Contents \cup {Absent}, identity : Store!Identity \cup {NoIdentity}]

Typed ==
  /\ now \in Nat
  /\ \A t \in DOMAIN byToken : byToken[t].identity \in Store!Identity
  /\ DOMAIN items \subseteq Path /\ items \in [DOMAIN items -> Cached!Entry]
  /\ heap \in [Obj -> Contents \cup {Absent}]
  /\ secret \in [Path -> Held]
  /\ lastHeld \in [Path -> [Held -> Int]]
  /\ req \in [Request -> RequestState]

\* The history is one of the past, and what the provider holds is current.
History ==
  \A p \in Path :
    /\ \A c \in Held : lastHeld[p][c] <= now
    /\ lastHeld[p][secret[p]] = now

\* Where a request may be with which path, map, status and identity.
Control(q) ==
  /\ q.pc # "idle" => q.path \in Path
  /\ q.pc \in {"idle", "authorized", "fetching"} => q.obj = Absent
  /\ q.pc \in {"authorized", "fetching", "fetched"} =>
       Access!Validate(q.path) /\ q.identity \in Store!Identity
  /\ q.pc \in {"authorized", "fetching"} => q.status = 0
  /\ q.pc = "fetched" => q.status \in {200, 404}
  /\ q.pc # "idle" /\ q.status \notin {400, 403} =>
       Access!CheckAccess(roles, q.identity, q.path)
  /\ q.pc \in {"fetched", "answered", "responded"} /\ q.status = 200 => q.obj # Absent

\* What a request holds has not been wiped, and how old it may be: exact when the
\* provider said it, and the age of a cache entry once it may come from one.
Fresh(q) ==
  /\ q.obj # Absent => heap[q.obj] \in Value
  /\ q.pc \in {"fetching", "fetched"} => now <= q.asOf + MaxFetch
  /\ q.pc = "fetched" /\ q.status = 200 => lastHeld[q.path][heap[q.obj]] >= q.asOf
  /\ q.pc = "fetched" /\ q.status = 404 => lastHeld[q.path][Absent] >= q.asOf
  /\ q.pc \in {"answered", "responded"} /\ q.status = 200 =>
       lastHeld[q.path][heap[q.obj]] >= q.asOf - TTL - MaxFetch
  /\ q.pc \in {"answered", "responded"} /\ q.status = 404 =>
       lastHeld[q.path][Absent] >= q.asOf - NegativeTTL - MaxFetch
  /\ q.pc = "responded" /\ q.status = 200 => q.sent = heap[q.obj]

\* Some role allows the path.
Allowed(p) ==
  \E identity \in Store!Identity : Access!Validate(p) /\ Access!CheckAccess(roles, identity, p)

\* A cache entry of a path: its map has not been wiped, and what it says was so at
\* most MaxFetch before it was stored.
Sound(p, e) ==
  /\ e.isNegative <=> e.value = Absent
  /\ e.value # Absent =>
       /\ heap[e.value] \in Value
       /\ lastHeld[p][heap[e.value]] >= e.expiresAt - TTL - MaxFetch
  /\ e.value = Absent => lastHeld[p][Absent] >= e.expiresAt - NegativeTTL - MaxFetch

\* The inductive invariant.  BoundedStaleness speaks of answers only; an answer
\* may come from an entry, and an entry from a fetch, so each of them needs its own
\* bound, and none of the bounds says anything once a map may be shared.
SInv ==
  /\ Typed
  /\ History
  /\ NoSharedMaps
  /\ \A r \in Request : Control(req[r]) /\ Fresh(req[r])
  /\ \A p \in DOMAIN items : Sound(p, items[p]) /\ Allowed(p)

--------------------------------------------------------------------------------
(* The heap *)

\* A copy always has an object to be written to that nothing else refers to.
LEMMA FreshObjExists ==
  ASSUME SInv
  PROVE  FreshObj \in Obj /\ FreshObj \notin Referenced /\ FreshObj # Absent
<1> DEFINE cached == {items[p].value : p \in DOMAIN items}
           held == {req[r].obj : r \in Request}
<1>1. IsFiniteSet(DOMAIN items) /\ Cardinality(DOMAIN items) <= Cardinality(Path)
  BY SecretReadsAssumption, FS_Subset DEF SInv, Typed
<1>2. IsFiniteSet(cached) /\ Cardinality(cached) <= Cardinality(DOMAIN items)
  <2>1. [p \in DOMAIN items |-> items[p].value] \in Surjection(DOMAIN items, cached)
    BY DEF Surjection
  <2> QED
    BY <1>1, <2>1, FS_Surjection
<1>3. IsFiniteSet(held) /\ Cardinality(held) <= Cardinality(Request)
  <2>1. [r \in Request |-> req[r].obj] \in Surjection(Request, held)
    BY DEF Surjection
  <2> QED
    BY <2>1, SecretReadsAssumption, FS_Surjection
<1>4. IsFiniteSet(cached \cup held)
      /\ Cardinality(cached \cup held) <= Cardinality(Path) + Cardinality(Request)
  <2> HIDE DEF cached, held
  <2>1. IsFiniteSet(cached \cap held) /\ IsFiniteSet(cached \cup held)
    BY <1>2, <1>3, FS_Intersection, FS_Union
  <2>2. Cardinality(cached \cup held) = Cardinality(cached) + Cardinality(held) - Cardinality(cached \cap held)
    BY <1>2, <1>3, FS_Union
  <2>3. /\ Cardinality(cached) \in Nat /\ Cardinality(held) \in Nat
        /\ Cardinality(cached \cap held) \in Nat /\ Cardinality(DOMAIN items) \in Nat
        /\ Cardinality(Path) \in Nat /\ Cardinality(Request) \in Nat
    BY <1>1, <1>2, <1>3, <2>1, SecretReadsAssumption, FS_CardinalityType
  <2> QED
    BY <1>1, <1>2, <1>3, <2>1, <2>2, <2>3
<1>5. ~ (Obj \subseteq cached \cup held)
  <2> HIDE DEF cached, held
  <2>1. SUFFICES ASSUME Obj \subseteq cached \cup held PROVE FALSE
    OBVIOUS
  <2>2. Cardinality(Obj) <= Cardinality(cached \cup held)
    BY <1>4, <2>1, FS_Subset
  <2>3. /\ Cardinality(Obj) \in Nat /\ Cardinality(cached \cup held) \in Nat
        /\ Cardinality(Path) \in Nat /\ Cardinality(Request) \in Nat
    BY <1>4, SecretReadsAssumption, FS_CardinalityType
  <2> QED
    BY <1>4, <2>2, <2>3, SecretReadsAssumption
<1>6. Referenced = (cached \cup held) \ {Absent}
  BY DEF Referenced
<1>7. \E o \in Obj : o \notin Referenced
  BY <1>5, <1>6
<1> QED
  BY <1>7, SecretReadsAssumption DEF FreshObj

\* The maps of requests and entries are referenced, before a step and after it.
LEMMA HeldIsReferenced ==
  /\ \A r \in Request : req[r].obj # Absent => req[r].obj \in Referenced
  /\ \A p \in DOMAIN items : items[p].value # Absent => items[p].value \in Referenced
  /\ \A r \in Request : req'[r].obj # Absent => req'[r].obj \in Referenced'
  /\ \A p \in DOMAIN items' : items'[p].value # Absent => items'[p].value \in Referenced'
BY DEF Referenced

--------------------------------------------------------------------------------
(* What a step leaves alone *)

\* Time and the provider move the history forwards only.
Forwards ==
  /\ lastHeld' \in [Path -> [Held -> Int]]
  /\ \A p \in Path, c \in Held : lastHeld'[p][c] >= lastHeld[p][c]

LEMMA Unmoved ==
  ASSUME SInv, lastHeld' = lastHeld
  PROVE  Forwards
BY DEF SInv, Typed, Forwards

\* A request that does not move, whose map is left as it is, stays fresh.
LEMMA RequestFrame ==
  ASSUME SInv, Forwards, NEW r \in Request, req'[r] = req[r],
         req[r].obj # Absent => heap'[req[r].obj] = heap[req[r].obj],
         req[r].pc \in {"fetching", "fetched"} => now' <= req[r].asOf + MaxFetch
  PROVE  Control(req'[r]) /\ Fresh(req[r])'
<1> DEFINE q == req[r]
<1>1. Control(q) /\ Fresh(q) /\ q \in RequestState
  BY DEF SInv, Typed
<1>2. Control(req'[r])
  BY <1>1
<1>3. /\ q.asOf \in Nat /\ TTL \in Nat /\ NegativeTTL \in Nat /\ MaxFetch \in Nat
  BY <1>1, SecretReadsAssumption DEF RequestState
<1>4. ASSUME q.obj # Absent, q.path \in Path
      PROVE  /\ heap'[q.obj] = heap[q.obj]
             /\ lastHeld'[q.path][heap[q.obj]] >= lastHeld[q.path][heap[q.obj]]
             /\ lastHeld'[q.path][heap[q.obj]] \in Int
             /\ lastHeld[q.path][heap[q.obj]] \in Int
  <2>1. heap[q.obj] \in Held
    BY <1>1, <1>4 DEF Fresh, Held
  <2> QED
    BY <1>4, <2>1 DEF SInv, Typed, Forwards
<1>5. ASSUME q.path \in Path
      PROVE  /\ lastHeld'[q.path][Absent] >= lastHeld[q.path][Absent]
             /\ lastHeld'[q.path][Absent] \in Int /\ lastHeld[q.path][Absent] \in Int
  <2>1. Absent \in Held
    BY DEF Held
  <2> QED
    BY <1>5, <2>1 DEF SInv, Typed, Forwards
<1> QED
  BY <1>1, <1>2, <1>3, <1>4, <1>5 DEF Control, Fresh

\* An entry that is not replaced, whose map is left as it is, stays sound.
LEMMA EntryFrame ==
  ASSUME SInv, Forwards, NEW p \in DOMAIN items, items'[p] = items[p],
         items[p].value # Absent => heap'[items[p].value] = heap[items[p].value]
  PROVE  Sound(p, items[p])' /\ Allowed(p)
<1> DEFINE e == items[p]
<1>1. Sound(p, e) /\ Allowed(p) /\ e \in Cached!Entry /\ p \in Path
  BY DEF SInv, Typed
<1>2. e.expiresAt \in Nat /\ TTL \in Nat /\ NegativeTTL \in Nat /\ MaxFetch \in Nat
  BY <1>1, SecretReadsAssumption DEF Cached!Entry
<1>3. ASSUME e.value # Absent
      PROVE  /\ heap'[e.value] = heap[e.value]
             /\ lastHeld'[p][heap[e.value]] >= lastHeld[p][heap[e.value]]
             /\ lastHeld'[p][heap[e.value]] \in Int
             /\ lastHeld[p][heap[e.value]] \in Int
  <2>1. heap[e.value] \in Held
    BY <1>1, <1>3 DEF Sound, Held
  <2> QED
    BY <1>1, <1>3, <2>1 DEF SInv, Typed, Forwards
<1>4. /\ lastHeld'[p][Absent] >= lastHeld[p][Absent]
      /\ lastHeld'[p][Absent] \in Int /\ lastHeld[p][Absent] \in Int
  <2>1. Absent \in Held
    BY DEF Held
  <2> QED
    BY <1>1, <2>1 DEF SInv, Typed, Forwards
<1> QED
  BY <1>1, <1>2, <1>3, <1>4 DEF Sound

\* A step of one request that leaves the cache's entries alone, and at most takes a
\* map that nothing refers to.
LEMMA RequestMoves ==
  ASSUME SInv, NEW r \in Request, NEW q \in RequestState,
         req' = [req EXCEPT ![r] = q],
         Control(q), Fresh(q)',
         q.obj \in {Absent, req[r].obj} \/ q.obj \notin Referenced,
         UNCHANGED <<now, byToken, items, secret, lastHeld>>,
         heap' \in [Obj -> Contents \cup {Absent}],
         \A o \in Referenced : o # req[r].obj => heap'[o] = heap[o]
  PROVE  SInv'
<1>1. req'[r] = q /\ \A s \in Request \ {r} : req'[s] = req[s]
  BY DEF SInv, Typed
<1>2. Forwards
  BY Unmoved
<1>3. Typed'
  BY DEF SInv, Typed
<1>4. History'
  BY DEF SInv, History
<1>5. NoSharedMaps'
  BY <1>1, HeldIsReferenced DEF SInv, NoSharedMaps
<1>6. ASSUME NEW s \in Request PROVE Control(req'[s]) /\ Fresh(req[s])'
  <2>1. CASE s = r
    BY <1>1, <2>1
  <2>2. CASE s # r
    <3>1. req[s].obj # Absent => heap'[req[s].obj] = heap[req[s].obj]
      BY <2>2, HeldIsReferenced DEF SInv, NoSharedMaps
    <3>2. req[s].pc \in {"fetching", "fetched"} => now' <= req[s].asOf + MaxFetch
      BY DEF SInv, Fresh
    <3> QED
      BY <1>1, <1>2, <2>2, <3>1, <3>2, RequestFrame
  <2> QED
    BY <2>1, <2>2
<1>7. ASSUME NEW p \in DOMAIN items' PROVE Sound(p, items[p])' /\ Allowed(p)
  <2>1. p \in DOMAIN items /\ items'[p] = items[p]
    OBVIOUS
  <2>2. items[p].value # Absent => heap'[items[p].value] = heap[items[p].value]
    BY <2>1, HeldIsReferenced DEF SInv, NoSharedMaps
  <2> QED
    BY <1>2, <2>1, <2>2, EntryFrame
<1> QED
  BY <1>3, <1>4, <1>5, <1>6, <1>7 DEF SInv

\* An entry after a step: one from before it, or one of the path whose map nothing
\* referred to.
KeptOrNew(p, path) ==
  \/ p \in DOMAIN items /\ items'[p] = items[p]
  \/ /\ p = path /\ items'[p] \in Cached!Entry /\ items'[p].value \notin Referenced
     /\ Sound(p, items[p])' /\ Allowed(p)

\* A step of one request that keeps its map, and that drops entries of the cache or
\* puts one whose map nothing refers to; the garbage may be collected.
LEMMA EntriesMove ==
  ASSUME SInv, NEW r \in Request, NEW q \in RequestState, NEW path \in Path,
         req' = [req EXCEPT ![r] = q], q.obj = req[r].obj,
         Control(q), Fresh(q)',
         UNCHANGED <<now, byToken, secret, lastHeld>>,
         items' = [p \in DOMAIN items' |-> items'[p]],
         \A p \in DOMAIN items' : KeptOrNew(p, path),
         heap' \in [Obj -> Contents \cup {Absent}],
         \A o \in Referenced : o \in Referenced' => heap'[o] = heap[o]
  PROVE  SInv'
<1>1. req'[r] = q /\ \A s \in Request \ {r} : req'[s] = req[s]
  BY DEF SInv, Typed
<1>2. Forwards
  BY Unmoved
<1>3. Typed'
  <2>1. DOMAIN items' \subseteq Path /\ items' \in [DOMAIN items' -> Cached!Entry]
    BY DEF KeptOrNew, SInv, Typed
  <2> QED
    BY <2>1 DEF SInv, Typed
<1>4. History'
  BY DEF SInv, History
<1>5. \A s \in Request : req'[s].obj = req[s].obj
  BY <1>1
<1>6. NoSharedMaps'
  <2>1. \A s, t \in Request : s # t /\ req'[s].obj # Absent => req'[s].obj # req'[t].obj
    BY <1>5 DEF SInv, NoSharedMaps
  <2>2. \A s \in Request, p \in DOMAIN items' : req'[s].obj # Absent => req'[s].obj # items'[p].value
    BY <1>5, HeldIsReferenced DEF KeptOrNew, SInv, NoSharedMaps
  <2>3. \A p, o \in DOMAIN items' : p # o /\ items'[p].value # Absent => items'[p].value # items'[o].value
    BY HeldIsReferenced DEF KeptOrNew, SInv, NoSharedMaps
  <2> QED
    BY <2>1, <2>2, <2>3 DEF NoSharedMaps
<1>7. ASSUME NEW s \in Request PROVE Control(req'[s]) /\ Fresh(req[s])'
  <2>1. CASE s = r
    BY <1>1, <2>1
  <2>2. CASE s # r
    <3>1. req[s].obj # Absent => heap'[req[s].obj] = heap[req[s].obj]
      BY <1>5, HeldIsReferenced
    <3>2. req[s].pc \in {"fetching", "fetched"} => now' <= req[s].asOf + MaxFetch
      BY DEF SInv, Fresh
    <3> QED
      BY <1>1, <1>2, <2>2, <3>1, <3>2, RequestFrame
  <2> QED
    BY <2>1, <2>2
<1>8. ASSUME NEW p \in DOMAIN items' PROVE Sound(p, items[p])' /\ Allowed(p)
  <2>1. CASE p \in DOMAIN items /\ items'[p] = items[p]
    <3>1. items[p].value # Absent => heap'[items[p].value] = heap[items[p].value]
      BY <2>1, HeldIsReferenced
    <3> QED
      BY <1>2, <2>1, <3>1, EntryFrame
  <2> QED
    BY <2>1 DEF KeptOrNew
<1> QED
  BY <1>3, <1>4, <1>6, <1>7, <1>8 DEF SInv

\* A step of the clock, of the provider or of the token store.
LEMMA WorldMoves ==
  ASSUME SInv, UNCHANGED <<items, heap, req>>, Typed', History', Forwards,
         \A r \in Request : req[r].pc \in {"fetching", "fetched"} => now' <= req[r].asOf + MaxFetch
  PROVE  SInv'
<1>1. NoSharedMaps'
  BY DEF SInv, NoSharedMaps
<1>2. \A r \in Request : Control(req'[r]) /\ Fresh(req[r])'
  BY RequestFrame
<1>3. \A p \in DOMAIN items' : Sound(p, items[p])' /\ Allowed(p)
  BY EntryFrame
<1> QED
  BY <1>1, <1>2, <1>3 DEF SInv

--------------------------------------------------------------------------------
(* The actions *)

LEMMA InitSInv == Init => SInv
<1> SUFFICES ASSUME Init PROVE SInv
  OBVIOUS
<1>1. /\ now = 0 /\ byToken = [t \in {} |-> {}] /\ items = [p \in {} |-> {}]
  BY DEF Init, Store!Init, Cached!Init
<1>2. Idle \in RequestState
  BY DEF Idle, RequestState, PC
<1>3. secret \in [Path -> Held]
  BY DEF Init
<1>4. Typed
  <2>1. DOMAIN byToken = {} /\ DOMAIN items = {} /\ items \in [DOMAIN items -> Cached!Entry]
    BY <1>1
  <2>2. lastHeld \in [Path -> [Held -> Int]]
    BY DEF Init
  <2>3. heap \in [Obj -> Contents \cup {Absent}] /\ req \in [Request -> RequestState]
    BY <1>2 DEF Init
  <2> QED
    BY <1>1, <1>3, <2>1, <2>2, <2>3 DEF Typed
<1>5. History
  BY <1>1, <1>3 DEF Init, History
<1>6. DOMAIN items = {} /\ \A r \in Request : req[r] = Idle
  BY <1>1 DEF Init
<1>7. NoSharedMaps
  BY <1>6 DEF NoSharedMaps, Idle
<1>8. Control(Idle) /\ Fresh(Idle)
  BY DEF Control, Fresh, Idle
<1> QED
  BY <1>4, <1>5, <1>6, <1>7, <1>8 DEF SInv

\* A login and a sweep change nothing but the token store.
LEMMA StoreSteps ==
  ASSUME SInv,
         \/ \E t \in Token, identity \in Store!Identity : Login(t, identity)
         \/ CleanupExpired
  PROVE  SInv'
<1>1. UNCHANGED <<now, items, heap, secret, lastHeld, req>>
  BY DEF Login, CleanupExpired, Store!IssueToken, Store!CleanupExpired, cacheVars, providerVars
<1>2. \A t \in DOMAIN byToken' : byToken'[t].identity \in Store!Identity
  <2>1. CASE CleanupExpired
    BY <2>1 DEF CleanupExpired, Store!CleanupExpired, Store!deleteLocked, SInv, Typed
  <2>2. ASSUME NEW t \in Token, NEW identity \in Store!Identity, Login(t, identity)
        PROVE  \A u \in DOMAIN byToken' : byToken'[u].identity \in Store!Identity
    <3>1. byToken' = [u \in DOMAIN byToken \cup {t} |->
                        IF u = t
                        THEN [identity |-> identity, createdAt |-> now, expiresAt |-> now + TokenTTL]
                        ELSE byToken[u]]
      BY <2>2 DEF Login, Store!IssueToken
    <3> QED
      BY <3>1 DEF SInv, Typed
  <2> QED
    BY <2>1, <2>2
<1>3. Typed' /\ History'
  BY <1>1, <1>2 DEF SInv, Typed, History
<1>4. Forwards
  BY <1>1, Unmoved
<1>5. \A r \in Request : req[r].pc \in {"fetching", "fetched"} => now' <= req[r].asOf + MaxFetch
  BY <1>1 DEF SInv, Fresh
<1> QED
  BY <1>1, <1>3, <1>4, <1>5, WorldMoves

LEMMA ChangeStep ==
  ASSUME SInv, NEW p \in Used, NEW c \in Held, Change(p, c)
  PROVE  SInv'
<1>1. /\ UNCHANGED <<now, byToken, items, heap, req>>
      /\ secret' = [secret EXCEPT ![p] = c] /\ lastHeld' = [lastHeld EXCEPT ![p][c] = now]
  BY DEF Change, storeVars, cacheVars
<1>2. p \in Path /\ now \in Int
  BY SecretReadsAssumption DEF SInv, Typed
<1>3. lastHeld' \in [Path -> [Held -> Int]] /\ secret' \in [Path -> Held]
  BY <1>1, <1>2 DEF SInv, Typed
<1>4. \A o \in Path, d \in Held : lastHeld'[o][d] = IF o = p /\ d = c THEN now ELSE lastHeld[o][d]
  BY <1>1, <1>2 DEF SInv, Typed
<1>5. \A o \in Path, d \in Held : lastHeld[o][d] \in Int
  BY DEF SInv, Typed
<1>6. Typed'
  BY <1>1, <1>3 DEF SInv, Typed
<1>7. History'
  <2>1. \A o \in Path : secret'[o] = IF o = p THEN c ELSE secret[o]
    BY <1>1, <1>2 DEF SInv, Typed
  <2>2. \A o \in Path : secret[o] \in Held
    BY DEF SInv, Typed
  <2> QED
    BY <1>1, <1>2, <1>4, <1>5, <2>1, <2>2 DEF SInv, History
<1>8. Forwards
  BY <1>2, <1>3, <1>4, <1>5 DEF SInv, History, Forwards
<1>9. \A r \in Request : req[r].pc \in {"fetching", "fetched"} => now' <= req[r].asOf + MaxFetch
  BY <1>1 DEF SInv, Fresh
<1> QED
  BY <1>1, <1>6, <1>7, <1>8, <1>9, WorldMoves

LEMMA TickStep ==
  ASSUME SInv, Tick
  PROVE  SInv'
<1>1. /\ UNCHANGED <<byToken, items, heap, secret, req>> /\ now' = now + 1
      /\ lastHeld' = [p \in Path |-> [lastHeld[p] EXCEPT ![secret[p]] = now + 1]]
  BY DEF Tick, Store!Tick, Store!storeVars, cacheVars
<1>2. now \in Nat /\ \A p \in Path : secret[p] \in Held
  BY DEF SInv, Typed
<1>3. lastHeld' \in [Path -> [Held -> Int]]
  BY <1>1, <1>2 DEF SInv, Typed
<1>4. \A p \in Path, c \in Held : lastHeld'[p][c] = IF c = secret[p] THEN now + 1 ELSE lastHeld[p][c]
  BY <1>1, <1>2 DEF SInv, Typed
<1>5. \A p \in Path, c \in Held : lastHeld[p][c] \in Int
  BY DEF SInv, Typed
<1>6. Typed'
  BY <1>1, <1>2, <1>3 DEF SInv, Typed
<1>7. History'
  BY <1>1, <1>2, <1>4, <1>5 DEF SInv, History
<1>8. Forwards
  BY <1>2, <1>3, <1>4, <1>5 DEF SInv, History, Forwards
<1>9. \A r \in Request : req[r].pc \in {"fetching", "fetched"} => now' <= req[r].asOf + MaxFetch
  <2>1. \A r \in Request : req[r].pc \in {"fetching", "fetched"} => now < req[r].asOf + MaxFetch
    BY DEF Tick
  <2>2. \A r \in Request : req[r].asOf \in Nat
    BY DEF SInv, Typed, RequestState
  <2> QED
    BY <1>1, <1>2, <2>1, <2>2, SecretReadsAssumption
<1> QED
  BY <1>1, <1>6, <1>7, <1>8, <1>9, WorldMoves

LEMMA BeginStep ==
  ASSUME SInv, NEW r \in Request, NEW t \in Token, NEW raw \in Path, Begin(r, t, raw)
  PROVE  SInv'
<1> DEFINE path == Access!TrimPrefix(raw)
           start == [Idle EXCEPT !.path = path, !.asOf = now]
<1>1. path \in Path /\ now \in Nat
  BY SecretReadsAssumption DEF SInv, Typed
<1>2. PICK q : q = IF ~Access!Validate(path) THEN [start EXCEPT !.pc = "answered", !.status = 400]
                   ELSE IF ~Authorized(t, path) THEN [start EXCEPT !.pc = "answered", !.status = 403]
                   ELSE [start EXCEPT !.pc = "authorized", !.identity = byToken[t].identity]
  OBVIOUS
<1>3. req' = [req EXCEPT ![r] = q] /\ UNCHANGED <<now, byToken, items, heap, secret, lastHeld>>
  BY <1>2 DEF Begin, storeVars, cacheVars, providerVars
<1> HIDE DEF path
<1>4. q \in RequestState /\ Control(q) /\ q.obj = Absent /\ q.pc \in {"answered", "authorized"}
      /\ q.status \notin {200, 404}
  <2>1. ASSUME NEW pc \in {"answered", "authorized"}, NEW status \in Nat \ {200, 404},
               NEW identity \in Store!Identity \cup {NoIdentity},
               q = [pc |-> pc, path |-> path, obj |-> Absent, status |-> status, asOf |-> now,
                    sent |-> Absent, identity |-> identity],
               pc = "authorized" => /\ Access!Validate(path) /\ status = 0
                                    /\ identity \in Store!Identity,
               status \notin {400, 403} => Access!CheckAccess(roles, identity, path)
        PROVE  q \in RequestState /\ Control(q) /\ q.obj = Absent
               /\ q.pc \in {"answered", "authorized"} /\ q.status \notin {200, 404}
    BY <1>1, <2>1 DEF RequestState, PC, Control
  <2>2. CASE ~Access!Validate(path)
    <3>1. q = [pc |-> "answered", path |-> path, obj |-> Absent, status |-> 400, asOf |-> now,
               sent |-> Absent, identity |-> NoIdentity]
      BY <1>2, <2>2 DEF Idle
    <3> QED
      BY <2>1, <3>1
  <2>3. CASE Access!Validate(path) /\ ~Authorized(t, path)
    <3>1. q = [start EXCEPT !.pc = "answered", !.status = 403]
      BY <1>2, <2>3, Zenon
    <3>2. q = [pc |-> "answered", path |-> path, obj |-> Absent, status |-> 403, asOf |-> now,
               sent |-> Absent, identity |-> NoIdentity]
      BY <3>1 DEF Idle
    <3> QED
      BY <2>1, <3>2
  <2>4. CASE Access!Validate(path) /\ Authorized(t, path)
    <3>1. byToken[t].identity \in Store!Identity
          /\ Access!CheckAccess(roles, byToken[t].identity, path)
      BY <2>4 DEF Authorized, Store!Accepted, SInv, Typed
    <3>2. q = [pc |-> "authorized", path |-> path, obj |-> Absent, status |-> 0, asOf |-> now,
               sent |-> Absent, identity |-> byToken[t].identity]
      BY <1>2, <2>4 DEF Idle
    <3> QED
      BY <2>1, <2>4, <3>1, <3>2
  <2> QED
    BY <2>2, <2>3, <2>4
<1>5. Fresh(q)'
  BY <1>4 DEF Fresh
<1> QED
  BY <1>3, <1>4, <1>5, RequestMoves DEF SInv, Typed

LEMMA LookupHitStep ==
  ASSUME SInv, NEW r \in Request, LookupHit(r)
  PROVE  SInv'
<1> DEFINE p == req[r].path
           e == items[p]
<1>1. /\ req[r] \in RequestState /\ Control(req[r]) /\ now \in Nat
      /\ req[r].pc = "authorized" /\ req[r].obj = Absent /\ req[r].status = 0
  BY DEF SInv, Typed, Control, LookupHit
<1>2. /\ p \in Path /\ Access!Validate(p)
      /\ req[r].identity \in Store!Identity /\ Access!CheckAccess(roles, req[r].identity, p)
  BY <1>1 DEF Control
<1>3. /\ p \in DOMAIN items /\ ~ (now > e.expiresAt)
      /\ UNCHANGED <<now, byToken, items, secret, lastHeld>>
  BY DEF LookupHit, Cached!GetHit, Cached!Hit, Cached!Expired, storeVars, providerVars
<1>4. e \in Cached!Entry /\ Sound(p, e)
  BY <1>3 DEF SInv, Typed
<1>5. e.expiresAt \in Nat /\ e.isNegative \in BOOLEAN /\ e.value \in Obj \cup {Absent}
  BY <1>4 DEF Cached!Entry
<1>6. CASE e.isNegative
  <2>1. PICK q : q = [req[r] EXCEPT !.pc = "answered", !.status = 404, !.asOf = now]
    OBVIOUS
  <2>2. /\ req' = [req EXCEPT ![r] = q] /\ heap' = heap
        /\ q \in RequestState
        /\ q.pc = "answered" /\ q.status = 404 /\ q.asOf = now /\ q.obj = Absent
        /\ q.path = p /\ q.identity = req[r].identity
    BY <1>1, <1>6, <2>1 DEF LookupHit, Reply, SInv, Typed, RequestState, PC
  <2>3. Control(q)
    BY <1>2, <2>2 DEF Control
  <2>4. Fresh(q)'
    <3>1. lastHeld[p][Absent] >= e.expiresAt - NegativeTTL - MaxFetch
      BY <1>4, <1>6 DEF Sound
    <3>2. lastHeld[p][Absent] \in Int
      BY <1>2 DEF SInv, Typed, Held
    <3>3. lastHeld[p][Absent] >= now - NegativeTTL - MaxFetch
      BY <1>1, <1>3, <1>5, <3>1, <3>2, SecretReadsAssumption
    <3> QED
      BY <1>3, <2>2, <3>3 DEF Fresh
  <2> QED
    BY <1>3, <2>1, <2>2, <2>3, <2>4, RequestMoves DEF SInv, Typed
<1>7. CASE ~e.isNegative
  <2>1. PICK copy : copy = FreshObj
    OBVIOUS
  <2>2. copy \in Obj /\ copy \notin Referenced /\ copy # Absent
    BY <2>1, FreshObjExists
  <2>3. PICK q : q = [req[r] EXCEPT !.pc = "answered", !.status = 200, !.asOf = now, !.obj = copy]
    OBVIOUS
  <2>4. /\ req' = [req EXCEPT ![r] = q] /\ heap' = [heap EXCEPT ![copy] = heap[e.value]]
        /\ q \in RequestState
        /\ q.pc = "answered" /\ q.status = 200 /\ q.asOf = now /\ q.obj = copy
        /\ q.path = p /\ q.identity = req[r].identity
    <3>1. /\ req' = [req EXCEPT ![r].pc = "answered", ![r].status = 200, ![r].asOf = now, ![r].obj = copy]
          /\ heap' = [heap EXCEPT ![copy] = heap[e.value]]
      BY <1>7, <2>1 DEF LookupHit, CloneOfCached
    <3> QED
      BY <1>1, <2>2, <2>3, <3>1 DEF SInv, Typed, RequestState, PC
  <2>5. Control(q)
    BY <1>2, <2>2, <2>4 DEF Control
  <2>6. /\ e.value # Absent /\ heap[e.value] \in Value
        /\ lastHeld[p][heap[e.value]] >= e.expiresAt - TTL - MaxFetch
    BY <1>4, <1>7 DEF Sound
  <2>7. heap'[copy] = heap[e.value] /\ \A o \in Referenced : o # req[r].obj => heap'[o] = heap[o]
    BY <2>2, <2>4 DEF SInv, Typed
  <2>8. heap' \in [Obj -> Contents \cup {Absent}]
    BY <2>2, <2>4, <2>6 DEF SInv, Typed, Contents
  <2>9. Fresh(q)'
    <3>1. lastHeld[p][heap[e.value]] \in Int
      BY <1>2, <2>6 DEF SInv, Typed, Held
    <3>2. lastHeld[p][heap[e.value]] >= now - TTL - MaxFetch
      BY <1>1, <1>3, <1>5, <2>6, <3>1, SecretReadsAssumption
    <3> QED
      BY <1>3, <2>4, <2>6, <2>7, <3>2 DEF Fresh
  <2> QED
    BY <1>3, <2>2, <2>4, <2>5, <2>7, <2>8, <2>9, RequestMoves
<1> QED
  BY <1>5, <1>6, <1>7

LEMMA LookupMissStep ==
  ASSUME SInv, NEW r \in Request, LookupMiss(r)
  PROVE  SInv'
<1>1. /\ req[r] \in RequestState /\ Control(req[r]) /\ now \in Nat
      /\ req[r].pc = "authorized" /\ req[r].obj = Absent /\ req[r].status = 0
  BY DEF SInv, Typed, Control, LookupMiss
<1>2. /\ UNCHANGED <<now, byToken, secret, lastHeld>>
      /\ req' = [req EXCEPT ![r].pc = "fetching", ![r].asOf = now]
      /\ heap' = Collected(heap)
  BY DEF LookupMiss, Cached!GetMiss, storeVars, providerVars
<1>3. /\ items' = [o \in DOMAIN items' |-> items'[o]]
      /\ \A o \in DOMAIN items' : o \in DOMAIN items /\ items'[o] = items[o]
  <2>1. items' = [o \in DOMAIN items \ {req[r].path} |-> items[o]] \/ items' = items
    BY DEF LookupMiss, Cached!GetMiss, Cached!removeLocked, Cached!Without, Cached!cacheVars
  <2> QED
    BY <2>1 DEF SInv, Typed
<1>4. heap' \in [Obj -> Contents \cup {Absent}] /\ \A o \in Referenced : o \in Referenced' => heap'[o] = heap[o]
  <2>1. Referenced \subseteq Obj
    BY DEF SInv, Typed, Referenced, RequestState, Cached!Entry
  <2> QED
    BY <1>2, <2>1 DEF Collected, SInv, Typed
<1>5. PICK q : q = [req[r] EXCEPT !.pc = "fetching", !.asOf = now]
  OBVIOUS
<1>6. /\ req' = [req EXCEPT ![r] = q]
      /\ q \in RequestState
      /\ q.pc = "fetching" /\ q.status = 0 /\ q.asOf = now /\ q.obj = Absent
      /\ q.path = req[r].path /\ q.identity = req[r].identity
  BY <1>1, <1>2, <1>5 DEF SInv, Typed, RequestState, PC
<1>7. Control(q)
  BY <1>1, <1>6 DEF Control
<1>8. now <= now + MaxFetch
  BY <1>1, SecretReadsAssumption
<1>9. Fresh(q)'
  BY <1>2, <1>6, <1>8 DEF Fresh
<1>10. req[r].path \in Path /\ q.obj = req[r].obj
  BY <1>1, <1>6 DEF Control
<1>11. \A o \in DOMAIN items' : KeptOrNew(o, req[r].path)
  BY <1>3 DEF KeptOrNew
<1> QED
  BY <1>2, <1>3, <1>4, <1>6, <1>7, <1>9, <1>10, <1>11, EntriesMove

LEMMA FetchRepliesStep ==
  ASSUME SInv, NEW r \in Request, FetchReplies(r)
  PROVE  SInv'
<1> DEFINE p == req[r].path
           c == secret[p]
<1>1. /\ req[r] \in RequestState /\ Control(req[r]) /\ now \in Nat
      /\ req[r].pc = "fetching" /\ req[r].obj = Absent /\ req[r].status = 0
  BY DEF SInv, Typed, Control, FetchReplies
<1>2. /\ p \in Path /\ Access!Validate(p)
      /\ req[r].identity \in Store!Identity /\ Access!CheckAccess(roles, req[r].identity, p)
  BY <1>1 DEF Control
<1>3. UNCHANGED <<now, byToken, items, secret, lastHeld>>
  BY DEF FetchReplies, storeVars, cacheVars, providerVars
<1>4. c \in Held /\ lastHeld[p][c] >= now /\ now <= now + MaxFetch
  BY <1>1, <1>2, SecretReadsAssumption DEF SInv, Typed, History
<1>5. CASE c = Absent
  <2>1. PICK q : q = [req[r] EXCEPT !.pc = "fetched", !.status = 404, !.asOf = now]
    OBVIOUS
  <2>2. /\ req' = [req EXCEPT ![r] = q] /\ heap' = heap
        /\ q \in RequestState
        /\ q.pc = "fetched" /\ q.status = 404 /\ q.asOf = now /\ q.obj = Absent
        /\ q.path = p /\ q.identity = req[r].identity
    BY <1>1, <1>5, <2>1 DEF FetchReplies, SInv, Typed, RequestState, PC
  <2>3. Control(q)
    BY <1>2, <2>2 DEF Control
  <2>4. Fresh(q)'
    BY <1>3, <1>4, <1>5, <2>2 DEF Fresh
  <2> QED
    BY <1>3, <2>2, <2>3, <2>4, RequestMoves DEF SInv, Typed
<1>6. CASE c # Absent
  <2>1. PICK o : o = FreshObj
    OBVIOUS
  <2>2. o \in Obj /\ o \notin Referenced /\ o # Absent
    BY <2>1, FreshObjExists
  <2>3. PICK q : q = [req[r] EXCEPT !.pc = "fetched", !.status = 200, !.asOf = now, !.obj = o]
    OBVIOUS
  <2>4. /\ req' = [req EXCEPT ![r] = q] /\ heap' = [heap EXCEPT ![o] = c]
        /\ q \in RequestState
        /\ q.pc = "fetched" /\ q.status = 200 /\ q.asOf = now /\ q.obj = o
        /\ q.path = p /\ q.identity = req[r].identity
    <3>1. /\ req' = [req EXCEPT ![r].pc = "fetched", ![r].status = 200, ![r].asOf = now, ![r].obj = o]
          /\ heap' = [heap EXCEPT ![o] = c]
      BY <1>6, <2>1 DEF FetchReplies
    <3> QED
      BY <1>1, <2>2, <2>3, <3>1 DEF SInv, Typed, RequestState, PC
  <2>5. Control(q)
    BY <1>2, <2>2, <2>4 DEF Control
  <2>6. c \in Value
    BY <1>4, <1>6 DEF Held
  <2>7. heap'[o] = c /\ \A u \in Referenced : u # req[r].obj => heap'[u] = heap[u]
    BY <2>2, <2>4 DEF SInv, Typed
  <2>8. heap' \in [Obj -> Contents \cup {Absent}]
    BY <2>2, <2>4, <2>6 DEF SInv, Typed, Contents
  <2>9. Fresh(q)'
    BY <1>3, <1>4, <2>4, <2>6, <2>7 DEF Fresh
  <2> QED
    BY <1>3, <2>2, <2>4, <2>5, <2>7, <2>8, <2>9, RequestMoves
<1> QED
  BY <1>5, <1>6

LEMMA FetchFailsStep ==
  ASSUME SInv, NEW r \in Request, FetchFails(r)
  PROVE  SInv'
<1>1. /\ req[r] \in RequestState /\ Control(req[r]) /\ now \in Nat
      /\ req[r].pc = "fetching" /\ req[r].obj = Absent /\ req[r].status = 0
  BY DEF SInv, Typed, Control, FetchFails
<1>2. UNCHANGED <<now, byToken, items, heap, secret, lastHeld>>
  BY DEF FetchFails, storeVars, cacheVars, providerVars
<1>3. PICK q : q = [req[r] EXCEPT !.pc = "answered", !.status = 502, !.asOf = now]
  OBVIOUS
<1>4. /\ req' = [req EXCEPT ![r] = q]
      /\ q \in RequestState
      /\ q.pc = "answered" /\ q.status = 502 /\ q.asOf = now /\ q.obj = Absent
      /\ q.path = req[r].path /\ q.identity = req[r].identity
  BY <1>1, <1>3 DEF FetchFails, Reply, SInv, Typed, RequestState, PC
<1>5. Control(q)
  BY <1>1, <1>4 DEF Control
<1>6. Fresh(q)'
  BY <1>4 DEF Fresh
<1> QED
  BY <1>2, <1>4, <1>5, <1>6, RequestMoves DEF SInv, Typed

\* What the cache's store does to its entries: the new one, and old ones.
LEMMA StoreEffect ==
  ASSUME SInv, NEW path, NEW entry, NEW kept \in SUBSET (DOMAIN items \cup {path}),
         \/ path \in DOMAIN items /\ items' = [items EXCEPT ![path] = entry]
         \/ path \notin DOMAIN items /\ items' = [p \in kept |-> IF p = path THEN entry ELSE items[p]]
  PROVE  /\ items' = [p \in DOMAIN items' |-> items'[p]]
         /\ \A p \in DOMAIN items' : \/ p \in DOMAIN items /\ items'[p] = items[p]
                                     \/ p = path /\ items'[p] = entry
<1>1. CASE path \in DOMAIN items /\ items' = [items EXCEPT ![path] = entry]
  BY <1>1 DEF SInv, Typed
<1>2. CASE path \notin DOMAIN items /\ items' = [p \in kept |-> IF p = path THEN entry ELSE items[p]]
  BY <1>2
<1> QED
  BY <1>1, <1>2

LEMMA FillStep ==
  ASSUME SInv, NEW r \in Request, Fill(r)
  PROVE  SInv'
<1>1. PICK p, copy : p = req[r].path /\ copy = FreshObj
  OBVIOUS
<1>2. /\ req[r] \in RequestState /\ Control(req[r]) /\ Fresh(req[r]) /\ now \in Nat
      /\ req[r].pc = "fetched" /\ req[r].status = 200
  BY DEF SInv, Typed, Fill
<1>3. /\ p \in Path /\ Access!Validate(p) /\ req[r].obj # Absent
      /\ req[r].identity \in Store!Identity /\ Access!CheckAccess(roles, req[r].identity, p)
  BY <1>1, <1>2 DEF Control
<1>4. copy \in Obj /\ copy \notin Referenced /\ copy # Absent
  BY <1>1, FreshObjExists
<1>5. /\ req' = [req EXCEPT ![r].pc = "answered"]
      /\ heap' = Collected([heap EXCEPT ![copy] = heap[req[r].obj]])
      /\ UNCHANGED <<byToken, secret, lastHeld>>
      /\ Cached!Set(p, copy)
  BY <1>1 DEF Fill, CloneForCache, storeVars, providerVars
<1>6. /\ now' = now
      /\ items' = [u \in DOMAIN items' |-> items'[u]]
      /\ \A u \in DOMAIN items' :
           \/ u \in DOMAIN items /\ items'[u] = items[u]
           \/ u = p /\ items'[u] = [value |-> copy, isNegative |-> FALSE, expiresAt |-> now + TTL]
  <2>1. CASE TTL > 0
    <3> DEFINE grown == DOMAIN items \cup {p}
    <3>1. PICK entry : entry = [value |-> copy, isNegative |-> FALSE, expiresAt |-> now + TTL]
      OBVIOUS
    <3>2. PICK kept : kept = IF Cached!Overfull(grown)
                             THEN grown \ {Cached!Back(Cached!PushFront(lru, p))} ELSE grown
      OBVIOUS
    <3>3. /\ now' = now
          /\ \/ p \in DOMAIN items /\ items' = [items EXCEPT ![p] = entry]
             \/ p \notin DOMAIN items /\ items' = [u \in kept |-> IF u = p THEN entry ELSE items[u]]
      BY <1>5, <2>1, <3>1, <3>2 DEF Cached!Set, Cached!store
    <3>4. kept \in SUBSET (DOMAIN items \cup {p})
      BY <3>2
    <3>5. /\ items' = [u \in DOMAIN items' |-> items'[u]]
          /\ \A u \in DOMAIN items' : \/ u \in DOMAIN items /\ items'[u] = items[u]
                                      \/ u = p /\ items'[u] = entry
      BY <3>3, <3>4, StoreEffect
    <3> QED
      BY <3>1, <3>3, <3>5
  <2>2. CASE ~(TTL > 0)
    BY <1>5, <2>2 DEF Cached!Set, Cached!vars, SInv, Typed
  <2> QED
    BY <2>1, <2>2
<1>7. heap[req[r].obj] \in Value /\ req[r].obj \in Obj
      /\ lastHeld[p][heap[req[r].obj]] >= req[r].asOf
      /\ lastHeld[p][heap[req[r].obj]] \in Int /\ req[r].asOf \in Nat
      /\ now <= req[r].asOf + MaxFetch
  BY <1>1, <1>2, <1>3 DEF Fresh, RequestState, SInv, Typed, Held
<1>8. /\ heap' \in [Obj -> Contents \cup {Absent}]
      /\ \A o \in Referenced : o \in Referenced' => heap'[o] = heap[o]
      /\ copy \in Referenced' => heap'[copy] = heap[req[r].obj]
  <2>1. Referenced \subseteq Obj
    BY DEF SInv, Typed, Referenced, RequestState, Cached!Entry
  <2> QED
    BY <1>4, <1>5, <1>7, <2>1 DEF Collected, SInv, Typed, Contents
<1>9. PICK q : q = [req[r] EXCEPT !.pc = "answered"]
  OBVIOUS
<1>10. /\ req' = [req EXCEPT ![r] = q]
       /\ q \in RequestState
       /\ q.pc = "answered" /\ q.status = 200 /\ q.asOf = req[r].asOf /\ q.obj = req[r].obj
       /\ q.path = p /\ q.identity = req[r].identity
  BY <1>1, <1>2, <1>5, <1>9 DEF SInv, Typed, RequestState, PC
<1>11. Control(q)
  BY <1>3, <1>10 DEF Control
<1>12. heap'[q.obj] = heap[q.obj]
  <2>1. req'[r] = q
    BY <1>10 DEF SInv, Typed
  <2> QED
    BY <1>3, <1>8, <1>10, <2>1, HeldIsReferenced
<1>13. Fresh(q)'
  <2>1. lastHeld[p][heap[q.obj]] >= q.asOf - TTL - MaxFetch
    BY <1>7, <1>10, SecretReadsAssumption
  <2> QED
    BY <1>5, <1>7, <1>10, <1>12, <2>1 DEF Fresh
<1>14. Allowed(p)
  BY <1>3 DEF Allowed
<1>15. ASSUME NEW u \in DOMAIN items', ~(u \in DOMAIN items /\ items'[u] = items[u])
       PROVE  /\ u = p /\ items'[u] \in Cached!Entry /\ items'[u].value \notin Referenced
              /\ Sound(u, items[u])' /\ Allowed(u)
  <2>1. u = p /\ items'[u] = [value |-> copy, isNegative |-> FALSE, expiresAt |-> now + TTL]
    BY <1>6, <1>15
  <2>2. now + TTL \in Nat
    BY <1>2, SecretReadsAssumption
  <2>3. items'[u] \in Cached!Entry /\ items'[u].value = copy
        /\ items'[u].isNegative = FALSE /\ items'[u].expiresAt = now + TTL
    BY <1>4, <2>1, <2>2 DEF Cached!Entry
  <2>4. heap'[copy] = heap[req[r].obj]
    BY <1>4, <1>8, <2>3, HeldIsReferenced
  <2>5. lastHeld[p][heap[req[r].obj]] >= (now + TTL) - TTL - MaxFetch
    BY <1>2, <1>7, SecretReadsAssumption
  <2>6. Sound(u, items[u])'
    BY <1>4, <1>5, <1>7, <2>1, <2>3, <2>4, <2>5 DEF Sound
  <2> QED
    BY <1>4, <1>14, <2>1, <2>3, <2>6
<1>16. \A u \in DOMAIN items' : KeptOrNew(u, p)
  BY <1>15 DEF KeptOrNew
<1>17. UNCHANGED <<now, byToken, secret, lastHeld>> /\ items' = [u \in DOMAIN items' |-> items'[u]]
  BY <1>5, <1>6
<1>18. heap' \in [Obj -> Contents \cup {Absent}] /\ \A o \in Referenced : o \in Referenced' => heap'[o] = heap[o]
  BY <1>8
<1>19. p \in Path /\ q \in RequestState /\ req' = [req EXCEPT ![r] = q] /\ q.obj = req[r].obj
  BY <1>3, <1>10
<1> QED
  BY <1>11, <1>13, <1>16, <1>17, <1>18, <1>19, EntriesMove

LEMMA FillNegativeStep ==
  ASSUME SInv, NEW r \in Request, FillNegative(r)
  PROVE  SInv'
<1>1. PICK p : p = req[r].path
  OBVIOUS
<1>2. /\ req[r] \in RequestState /\ Control(req[r]) /\ Fresh(req[r]) /\ now \in Nat
      /\ req[r].pc = "fetched" /\ req[r].status = 404
  BY DEF SInv, Typed, FillNegative
<1>3. /\ p \in Path /\ Access!Validate(p)
      /\ req[r].identity \in Store!Identity /\ Access!CheckAccess(roles, req[r].identity, p)
  BY <1>1, <1>2 DEF Control
<1>4. /\ req' = [req EXCEPT ![r].pc = "answered"] /\ heap' = Collected(heap)
      /\ UNCHANGED <<byToken, secret, lastHeld>>
      /\ Cached!SetNegative(p)
  BY <1>1 DEF FillNegative, storeVars, providerVars
<1>5. /\ now' = now
      /\ items' = [u \in DOMAIN items' |-> items'[u]]
      /\ \A u \in DOMAIN items' :
           \/ u \in DOMAIN items /\ items'[u] = items[u]
           \/ u = p /\ items'[u] = [value |-> Absent, isNegative |-> TRUE, expiresAt |-> now + NegativeTTL]
  <2>1. CASE NegativeTTL > 0
    <3> DEFINE grown == DOMAIN items \cup {p}
    <3>1. PICK entry : entry = [value |-> Absent, isNegative |-> TRUE, expiresAt |-> now + NegativeTTL]
      OBVIOUS
    <3>2. PICK kept : kept = IF Cached!Overfull(grown)
                             THEN grown \ {Cached!Back(Cached!PushFront(lru, p))} ELSE grown
      OBVIOUS
    <3>3. /\ now' = now
          /\ \/ p \in DOMAIN items /\ items' = [items EXCEPT ![p] = entry]
             \/ p \notin DOMAIN items /\ items' = [u \in kept |-> IF u = p THEN entry ELSE items[u]]
      BY <1>4, <2>1, <3>1, <3>2 DEF Cached!SetNegative, Cached!store
    <3>4. kept \in SUBSET (DOMAIN items \cup {p})
      BY <3>2
    <3>5. /\ items' = [u \in DOMAIN items' |-> items'[u]]
          /\ \A u \in DOMAIN items' : \/ u \in DOMAIN items /\ items'[u] = items[u]
                                      \/ u = p /\ items'[u] = entry
      BY <3>3, <3>4, StoreEffect
    <3> QED
      BY <3>1, <3>3, <3>5
  <2>2. CASE ~(NegativeTTL > 0)
    BY <1>4, <2>2 DEF Cached!SetNegative, Cached!vars, SInv, Typed
  <2> QED
    BY <2>1, <2>2
<1>6. /\ lastHeld[p][Absent] >= req[r].asOf
      /\ lastHeld[p][Absent] \in Int /\ req[r].asOf \in Nat
      /\ now <= req[r].asOf + MaxFetch
  BY <1>1, <1>2, <1>3 DEF Fresh, RequestState, SInv, Typed, Held
<1>7. /\ heap' \in [Obj -> Contents \cup {Absent}]
      /\ \A o \in Referenced : o \in Referenced' => heap'[o] = heap[o]
  <2>1. Referenced \subseteq Obj
    BY DEF SInv, Typed, Referenced, RequestState, Cached!Entry
  <2> QED
    BY <1>4, <2>1 DEF Collected, SInv, Typed
<1>8. PICK q : q = [req[r] EXCEPT !.pc = "answered"]
  OBVIOUS
<1>9. /\ req' = [req EXCEPT ![r] = q]
      /\ q \in RequestState
      /\ q.pc = "answered" /\ q.status = 404 /\ q.asOf = req[r].asOf /\ q.obj = req[r].obj
      /\ q.path = p /\ q.identity = req[r].identity
  BY <1>1, <1>2, <1>4, <1>8 DEF SInv, Typed, RequestState, PC
<1>10. Control(q)
  BY <1>3, <1>9 DEF Control
<1>11. q.obj # Absent => heap'[q.obj] \in Value
  <2>1. req'[r] = q
    BY <1>9 DEF SInv, Typed
  <2> QED
    BY <1>2, <1>7, <1>9, <2>1, HeldIsReferenced DEF Fresh
<1>12. Fresh(q)'
  <2>1. lastHeld[p][Absent] >= q.asOf - NegativeTTL - MaxFetch
    BY <1>6, <1>9, SecretReadsAssumption
  <2> QED
    BY <1>4, <1>9, <1>11, <2>1 DEF Fresh
<1>13. Allowed(p)
  BY <1>3 DEF Allowed
<1>14. ASSUME NEW u \in DOMAIN items', ~(u \in DOMAIN items /\ items'[u] = items[u])
       PROVE  /\ u = p /\ items'[u] \in Cached!Entry /\ items'[u].value \notin Referenced
              /\ Sound(u, items[u])' /\ Allowed(u)
  <2>1. u = p /\ items'[u] = [value |-> Absent, isNegative |-> TRUE, expiresAt |-> now + NegativeTTL]
    BY <1>5, <1>14
  <2>2. now + NegativeTTL \in Nat
    BY <1>2, SecretReadsAssumption
  <2>3. items'[u] \in Cached!Entry /\ items'[u].value = Absent
        /\ items'[u].isNegative = TRUE /\ items'[u].expiresAt = now + NegativeTTL
    BY <2>1, <2>2 DEF Cached!Entry
  <2>4. lastHeld[p][Absent] >= (now + NegativeTTL) - NegativeTTL - MaxFetch
    BY <1>2, <1>6, SecretReadsAssumption
  <2>5. Sound(u, items[u])'
    BY <1>4, <2>1, <2>3, <2>4 DEF Sound
  <2>6. Absent \notin Referenced
    BY DEF Referenced
  <2> QED
    BY <1>13, <2>1, <2>3, <2>5, <2>6
<1>15. \A u \in DOMAIN items' : KeptOrNew(u, p)
  BY <1>14 DEF KeptOrNew
<1>16. UNCHANGED <<now, byToken, secret, lastHeld>> /\ items' = [u \in DOMAIN items' |-> items'[u]]
  BY <1>4, <1>5
<1> QED
  BY <1>3, <1>7, <1>9, <1>10, <1>12, <1>15, <1>16, EntriesMove

LEMMA RespondStep ==
  ASSUME SInv, NEW r \in Request, Respond(r)
  PROVE  SInv'
<1>1. /\ req[r] \in RequestState /\ Control(req[r]) /\ Fresh(req[r]) /\ req[r].pc = "answered"
  BY DEF SInv, Typed, Respond
<1>2. UNCHANGED <<now, byToken, items, heap, secret, lastHeld>>
  BY DEF Respond, storeVars, cacheVars, providerVars
<1>3. PICK sent : sent = IF req[r].status = 200 THEN heap[req[r].obj] ELSE Absent
  OBVIOUS
<1>4. sent \in Contents \cup {Absent}
  BY <1>1, <1>3 DEF Control, Fresh, Contents
<1>5. PICK q : q = [req[r] EXCEPT !.pc = "responded", !.sent = sent]
  OBVIOUS
<1>6. /\ req' = [req EXCEPT ![r] = q]
      /\ q \in RequestState
      /\ q.pc = "responded" /\ q.status = req[r].status /\ q.asOf = req[r].asOf /\ q.obj = req[r].obj
      /\ q.path = req[r].path /\ q.identity = req[r].identity /\ q.sent = sent
  <2>1. req' = [req EXCEPT ![r].pc = "responded", ![r].sent = sent]
    BY <1>3 DEF Respond
  <2> QED
    BY <1>1, <1>4, <1>5, <2>1 DEF SInv, Typed, RequestState, PC
<1>7. Control(q)
  BY <1>1, <1>6 DEF Control
<1>8. Fresh(q)'
  BY <1>1, <1>2, <1>3, <1>6 DEF Fresh
<1> QED
  BY <1>2, <1>6, <1>7, <1>8, RequestMoves DEF SInv, Typed

LEMMA FinishStep ==
  ASSUME SInv, NEW r \in Request, Finish(r)
  PROVE  SInv'
<1>1. /\ req' = [req EXCEPT ![r] = Idle]
      /\ UNCHANGED <<now, byToken, items, secret, lastHeld>>
  BY DEF Finish, storeVars, cacheVars, providerVars
<1>2. PICK h : h = IF req[r].obj = Absent THEN heap ELSE [heap EXCEPT ![req[r].obj] = Scrubbed]
  OBVIOUS
<1>3. /\ h \in [Obj -> Contents \cup {Absent}]
      /\ \A o \in Obj : o # req[r].obj => h[o] = heap[o]
  BY <1>2 DEF SInv, Typed, Contents
<1>4. heap' = [o \in Obj |-> IF o \in Referenced' THEN h[o] ELSE Absent]
  BY <1>2 DEF Finish, Collected
<1>5. heap' \in [Obj -> Contents \cup {Absent}]
  BY <1>3, <1>4
<1>6. \A s \in Request \ {r} : req'[s] = req[s]
  BY <1>1 DEF SInv, Typed
<1>7. \A o \in Referenced : o # req[r].obj => o \in Referenced' /\ o \in Obj
  BY <1>1, <1>6 DEF Referenced, SInv, Typed, RequestState, Cached!Entry
<1>8. \A o \in Referenced : o # req[r].obj => heap'[o] = heap[o]
  BY <1>3, <1>4, <1>7
<1>9. Idle \in RequestState /\ Idle.obj = Absent /\ Control(Idle)
  BY DEF Idle, RequestState, PC, Control
<1>10. Fresh(Idle)'
  BY DEF Fresh, Idle
<1> QED
  BY <1>1, <1>5, <1>8, <1>9, <1>10, RequestMoves

--------------------------------------------------------------------------------
(* The theorems *)

LEMMA NextSInv == SInv /\ [Next]_vars => SInv'
<1> SUFFICES ASSUME SInv, [Next]_vars PROVE SInv'
  OBVIOUS
<1>1. CASE UNCHANGED vars
  <2>1. UNCHANGED <<now, byToken, items, heap, secret, lastHeld, req>>
    BY <1>1 DEF vars
  <2>2. Typed' /\ History' /\ Forwards
    BY <2>1, Unmoved DEF SInv, Typed, History
  <2>3. \A r \in Request : req[r].pc \in {"fetching", "fetched"} => now' <= req[r].asOf + MaxFetch
    BY <2>1 DEF SInv, Fresh
  <2> QED
    BY <2>1, <2>2, <2>3, WorldMoves
<1>2. CASE \/ \E t \in Token, identity \in Store!Identity : Login(t, identity)
           \/ CleanupExpired
  BY <1>2, StoreSteps
<1>3. CASE \E p \in Used, c \in Held : Change(p, c)
  BY <1>3, ChangeStep
<1>4. CASE \E r \in Request, t \in Token, p \in Path : Begin(r, t, p)
  BY <1>4, BeginStep
<1>5. ASSUME NEW r \in Request, Step(r) PROVE SInv'
  BY <1>5, LookupHitStep, LookupMissStep, FetchRepliesStep, FetchFailsStep, FillStep,
     FillNegativeStep, RespondStep, FinishStep DEF Step
<1>6. CASE Tick
  BY <1>6, TickStep
<1> QED
  BY <1>1, <1>2, <1>3, <1>4, <1>5, <1>6 DEF Next

LEMMA AlwaysSInv == Spec => []SInv
<1>1. Init => SInv
  BY InitSInv
<1>2. SInv /\ [Next]_vars => SInv'
  BY NextSInv
<1> QED
  BY <1>1, <1>2, PTL DEF Spec

\* No map is reachable from two places, for any number of requests: GetSecret's
\* cloneMap, on the way into the cache and on the way out of it, is enough for the
\* handler's clearMap to wipe nobody else's secret.
THEOREM MapsAreNotShared == Spec => []NoSharedMaps
<1>1. SInv => NoSharedMaps
  BY DEF SInv
<1> QED
  BY <1>1, AlwaysSInv, PTL

\* A 200 of SecretReadHandler carries a secret, not the rest of a map that another
\* request has wiped.
THEOREM ServesIntactSecrets == Spec => []ServedIntact
<1>1. SInv => ServedIntact
  <2> SUFFICES ASSUME SInv, NEW r \in Request, req[r].pc = "responded", req[r].status = 200
               PROVE  req[r].sent \in Value
    BY DEF ServedIntact
  <2>1. Control(req[r]) /\ Fresh(req[r])
    BY DEF SInv
  <2> QED
    BY <2>1 DEF Control, Fresh
<1> QED
  BY <1>1, AlwaysSInv, PTL

\* However the fills of racing reads are ordered, a 200 was true at the provider at
\* most cache.ttl and one provider call before the handler had its answer, and a 404 at
\* most cache.negativeTTL and one call.
THEOREM AnswersAreRecent == Spec => []BoundedStaleness
<1>1. SInv => BoundedStaleness
  <2> SUFFICES ASSUME SInv, NEW r \in Request, req[r].pc = "responded"
               PROVE  /\ req[r].status = 200 =>
                           lastHeld[req[r].path][req[r].sent] >= req[r].asOf - TTL - MaxFetch
                      /\ req[r].status = 404 =>
                           lastHeld[req[r].path][Absent] >= req[r].asOf - NegativeTTL - MaxFetch
    BY DEF BoundedStaleness
  <2>1. Fresh(req[r])
    BY DEF SInv
  <2> QED
    BY <2>1 DEF Fresh
<1> QED
  BY <1>1, AlwaysSInv, PTL

\* Every request that gets past RBAC is for a path its role allows, and every cached path
\* is one that some role allows.
THEOREM AccessBeforeCache == Spec => []OnlyAllowedPathsReachTheCache
<1>1. SInv => OnlyAllowedPathsReachTheCache
  <2> SUFFICES ASSUME SInv PROVE OnlyAllowedPathsReachTheCache
    OBVIOUS
  <2>1. \A r \in Request : Control(req[r])
    BY DEF SInv
  <2>2. \A p \in DOMAIN items : Allowed(p)
    BY DEF SInv
  <2> QED
    BY <2>1, <2>2 DEF OnlyAllowedPathsReachTheCache, Control, Allowed
<1> QED
  BY <1>1, AlwaysSInv, PTL
================================================================================
