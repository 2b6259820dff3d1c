-------------------------- MODULE VaultInjectProofs --------------------------
(***************************************************************************)
(* Proofs about VaultInject, for every environment, every set of secrets   *)
(* and every choice of the timeouts and of the number of attempts.         *)
(***************************************************************************)
EXTENDS VaultInject, FiniteSetTheorems, SequenceTheorems, TLAPS

-------------------------------------------------------------------------------
(* The least-number principle, for sets *)

\* A set of naturals that is not empty has a least member.
LEMMA LeastNatural ==
  ASSUME NEW B \in SUBSET Nat, B # {}
  PROVE  \E n \in B : \A m \in B : n <= m
<1> DEFINE T == {1 .. n : n \in B}
<1>1. T \subseteq FiniteSubsetsOf(Nat)
  <2> SUFFICES ASSUME NEW n \in B PROVE 1 .. n \in FiniteSubsetsOf(Nat)
    OBVIOUS
  <2>1. n \in Int /\ 1 \in Int
    OBVIOUS
  <2>2. IsFiniteSet(1 .. n)
    BY <2>1, FS_Interval
  <2>3. 1 .. n \in SUBSET Nat
    BY <2>1
  <2> QED BY <2>2, <2>3 DEF FiniteSubsetsOf
<1>2. T # {}
  OBVIOUS
<1>3. PICK x \in T : \A y \in T : ~ (<<y, x>> \in StrictSubsetOrdering(Nat))
  <2> HIDE DEF T
  <2>1. IsWellFoundedOn(StrictSubsetOrdering(Nat), FiniteSubsetsOf(Nat))
    BY FS_StrictSubsetOrderingWellFounded
  <2> QED BY <1>1, <1>2, <2>1, WFMin
<1>4. PICK n \in B : x = 1 .. n
  OBVIOUS
<1>5. ASSUME NEW m \in B, m < n PROVE FALSE
  <2>1. 1 .. m \in T
    OBVIOUS
  <2>2. 1 .. m \in SUBSET Nat /\ 1 .. n \in SUBSET Nat
    OBVIOUS
  <2>3. 1 .. m \subseteq 1 .. n
    BY <1>5
  <2>4. n \in 1 .. n /\ n \notin 1 .. m
    BY <1>5
  <2>5. <<1 .. m, 1 .. n>> \in StrictSubsetOrdering(Nat)
    BY <2>2, <2>3, <2>4 DEF StrictSubsetOrdering
  <2> QED BY <1>3, <1>4, <2>1, <2>5
<1> QED BY <1>5

-------------------------------------------------------------------------------
(* Pause: the recursive definition has a solution, which doubles *)

Doubles(f, n) == /\ f \in [0 .. n -> Nat] /\ f[0] = Base
                 /\ \A i \in 1 .. n : f[i] = 2 * f[i - 1]

LEMMA DoublesExist == \A n \in Nat : \E f : Doubles(f, n)
<1> DEFINE B == {n \in Nat : ~\E f : Doubles(f, n)}
<1>1. ASSUME NEW n \in B, \A k \in B : n <= k PROVE FALSE
  <2>1. n \in Nat /\ Base \in Nat
    BY VaultInjectAssumption
  <2>2. CASE n = 0
    <3>1. Doubles([i \in 0 .. 0 |-> Base], 0)
      BY <2>1 DEF Doubles
    <3> QED BY <2>2, <3>1
  <2>3. CASE n # 0
    <3>1. n - 1 \in Nat /\ n - 1 \notin B
      BY <1>1, <2>1, <2>3
    <3>2. PICK f : Doubles(f, n - 1)
      BY <3>1
    <3> DEFINE g == [i \in 0 .. n |-> IF i = n THEN 2 * f[n - 1] ELSE f[i]]
    <3>3. f[n - 1] \in Nat
      BY <3>1, <3>2 DEF Doubles
    <3>4. g \in [0 .. n -> Nat] /\ g[0] = Base
      BY <2>1, <2>3, <3>2, <3>3 DEF Doubles
    <3>5. ASSUME NEW i \in 1 .. n PROVE g[i] = 2 * g[i - 1]
      <4>1. CASE i = n
        BY <2>1, <4>1
      <4>2. CASE i # n
        <5>1. i \in 1 .. n - 1
          BY <2>1, <4>2
        <5>2. g[i] = f[i] /\ g[i - 1] = f[i - 1]
          BY <2>1, <5>1
        <5> QED BY <3>2, <5>1, <5>2 DEF Doubles
      <4> QED BY <4>1, <4>2
    <3>6. Doubles(g, n)
      BY <3>4, <3>5 DEF Doubles
    <3> QED BY <3>6
  <2> QED BY <2>2, <2>3
<1>2. B = {}
  <2>1. B \in SUBSET Nat
    OBVIOUS
  <2> HIDE DEF B
  <2> QED BY <1>1, <2>1, LeastNatural
<1> QED BY <1>2

LEMMA DoublesAgree ==
  ASSUME NEW n \in Nat, NEW m \in Nat, NEW f, NEW g, Doubles(f, n), Doubles(g, m),
         NEW i \in Nat, i <= n, i <= m
  PROVE  f[i] = g[i]
<1> DEFINE B == {k \in Nat : k <= n /\ k <= m /\ f[k] # g[k]}
<1>1. ASSUME NEW k \in B, \A j \in B : k <= j PROVE FALSE
  <2>1. CASE k = 0
    BY <2>1 DEF Doubles
  <2>2. CASE k # 0
    <3>1. k - 1 \in Nat /\ k - 1 \notin B /\ k \in 1 .. n /\ k \in 1 .. m
      BY <1>1, <2>2
    <3>2. f[k - 1] = g[k - 1]
      BY <3>1
    <3> QED BY <3>1, <3>2 DEF Doubles
  <2> QED BY <2>1, <2>2
<1>2. B = {}
  <2>1. B \in SUBSET Nat
    OBVIOUS
  <2> HIDE DEF B
  <2> QED BY <1>1, <2>1, LeastNatural
<1> QED BY <1>2

PauseIs(f) == f = [i \in Nat |-> IF i = 0 THEN Base ELSE 2 * f[i - 1]]

\* The pauses start with the base and double.
LEMMA PausesDouble ==
  /\ Pause \in [Nat -> Nat]
  /\ Pause[0] = Base
  /\ \A n \in Nat : Pause[n + 1] = 2 * Pause[n]
<1> DEFINE upTo(n) == CHOOSE f : Doubles(f, n)
<1> DEFINE F == [n \in Nat |-> upTo(n)[n]]
<1>1. \A n \in Nat : Doubles(upTo(n), n)
  BY DoublesExist
<1> HIDE DEF upTo
<1>2. \A n \in Nat : F[n] \in Nat
  BY <1>1 DEF Doubles
<1>3. F[0] = Base
  BY <1>1 DEF Doubles
<1>4. ASSUME NEW n \in Nat, n # 0 PROVE F[n] = 2 * F[n - 1]
  <2>1. n - 1 \in Nat /\ n - 1 <= n /\ n - 1 <= n - 1 /\ n \in 1 .. n
    BY <1>4
  <2>2. upTo(n)[n - 1] = upTo(n - 1)[n - 1]
    BY <1>1, <2>1, DoublesAgree
  <2>3. upTo(n)[n] = 2 * upTo(n)[n - 1]
    BY <1>1, <2>1 DEF Doubles
  <2> QED BY <2>1, <2>2, <2>3
<1>5. PauseIs(F)
  <2>1. \A i \in Nat : F[i] = IF i = 0 THEN Base ELSE 2 * F[i - 1]
    BY <1>3, <1>4
  <2> QED BY <2>1 DEF PauseIs
<1>6. Pause = CHOOSE f : PauseIs(f)
  BY DEF Pause, PauseIs
<1>7. PauseIs(Pause)
  BY <1>5, <1>6
<1>8. \A i \in Nat : Pause[i] = IF i = 0 THEN Base ELSE 2 * Pause[i - 1]
  BY <1>7 DEF PauseIs
<1>9. Pause[0] = Base /\ \A n \in Nat : Pause[n + 1] = 2 * Pause[n]
  BY <1>8
<1>10. \A n \in Nat : Pause[n] \in Nat
  <2> DEFINE B == {n \in Nat : Pause[n] \notin Nat}
  <2>1. ASSUME NEW n \in B, \A k \in B : n <= k PROVE FALSE
    <3>1. Base \in Nat
      BY VaultInjectAssumption
    <3>2. CASE n = 0
      BY <1>9, <3>1, <3>2
    <3>3. CASE n # 0
      <4>1. n - 1 \in Nat /\ n - 1 \notin B
        BY <2>1, <3>3
      <4>2. Pause[n] = 2 * Pause[n - 1] /\ Pause[n - 1] \in Nat
        BY <1>8, <3>3, <4>1
      <4> QED BY <4>2
    <3> QED BY <3>2, <3>3
  <2>2. B \in SUBSET Nat
    OBVIOUS
  <2>3. B = {}
    <3> HIDE DEF B
    <3> QED BY <2>1, <2>2, LeastNatural
  <2> QED BY <2>3
<1> QED BY <1>7, <1>9, <1>10 DEF PauseIs

\* A later pause is no shorter.
LEMMA PausesGrow == \A m, n \in Nat : m <= n => Pause[m] <= Pause[n]
<1> SUFFICES ASSUME NEW m \in Nat PROVE \A n \in Nat : m <= n => Pause[m] <= Pause[n]
  OBVIOUS
<1> DEFINE B == {n \in Nat : m <= n /\ ~(Pause[m] <= Pause[n])}
<1>1. ASSUME NEW n \in B, \A k \in B : n <= k PROVE FALSE
  <2>1. CASE n = m
    BY <2>1, PausesDouble
  <2>2. CASE n # m
    <3>1. n - 1 \in Nat /\ n - 1 \notin B /\ m <= n - 1
      BY <1>1, <2>2
    <3>2. Pause[(n - 1) + 1] = 2 * Pause[n - 1] /\ (n - 1) + 1 = n
      BY <3>1, PausesDouble
    <3>3. Pause[m] \in Nat /\ Pause[n - 1] \in Nat /\ Pause[n] \in Nat
      BY <3>1, PausesDouble
    <3>4. Pause[m] <= Pause[n - 1]
      BY <3>1
    <3> QED BY <3>2, <3>3, <3>4
  <2> QED BY <2>1, <2>2
<1>2. B = {}
  <2>1. B \in SUBSET Nat
    OBVIOUS
  <2> HIDE DEF B
  <2> QED BY <1>1, <2>1, LeastNatural
<1> QED BY <1>2

-------------------------------------------------------------------------------
(* The inductive invariant *)

Text == STRING \cup {""} \cup UNION {Keys[p] : p \in Path}
Entry == [name : Text, kind : {"plain", "bare", "ref", "secret"},
          path : Path \cup {NoPath}, key : Text, version : Nat]

Typed ==
  /\ setting \in Settings
  /\ pc \in {"copy", "copying", "start", "login", "login sent", "backoff", "resolve", "read sent",
             "exec", "failed"}
  /\ now \in Nat /\ attempt \in Nat /\ started \in Nat /\ wake \in Nat /\ issued \in Nat
  /\ next \in 1 .. Len(Work) + 1
  /\ DOMAIN cache \subseteq Path /\ \A p \in DOMAIN cache : cache[p] \in Nat
  /\ version \in [Path -> Nat]
  /\ newEnv \in Seq(Entry)

\* Where the wrapper is: what it has behind it.
Control ==
  /\ pc \notin {"copy", "copying"} => binary = "whole"
  /\ pc = "read sent" => next <= Len(Work) /\ Item.kind \in {"ref", "from"} /\ ~Cached(Item.path)
  /\ pc = "exec" => next > Len(Work)

\* Each attempt issues one token at most, and begins within the login timeout and the
\* pauses there were before it.
InTime ==
  /\ attempt <= MaxAttempts - 1
  /\ pc = "backoff" => attempt < MaxAttempts - 1
  /\ issued <= attempt + 1
  /\ pc \in {"copy", "copying", "start", "login", "login sent"} => issued <= attempt
  /\ pc # "backoff" => now <= LoginTimeout + (Pause[attempt] - Base)
  /\ pc = "backoff" => now <= wake /\ wake <= LoginTimeout + (Pause[attempt + 1] - Base)

\* Every value injected is of the version its path was read at.
Fetched(env, fetched) ==
  \A j \in DOMAIN env :
    env[j].kind = "secret" => env[j].path \in DOMAIN fetched /\ env[j].version = fetched[env[j].path]

\* The environment env has what the item asks for.
Answered(item, env) ==
  /\ item.kind = "ref" =>
       \E j \in DOMAIN env : /\ env[j].name = item.name /\ env[j].kind = "secret"
                             /\ env[j].path = item.path /\ env[j].key = item.key
                             /\ env[j].key \in Keys[env[j].path]
  /\ item.kind = "from" =>
       \A k \in Keys[item.path] : \E j \in DOMAIN env :
         env[j].name = k /\ env[j].path = item.path /\ env[j].key = k

NoRefs(env) == \A j \in DOMAIN env : env[j].kind # "ref"

ResolvedSoFar ==
  ~IgnoreMissing => NoRefs(newEnv) /\ \A i \in 1 .. next - 1 : Answered(Work[i], newEnv)

\* The application's own variables among the first n.
OwnUpTo(n) == {j \in Own : j <= n}

KeptSoFar ==
  /\ Len(newEnv) >= Cardinality(OwnUpTo(next - 1))
  /\ next <= Len(Environ) + 1 => Len(newEnv) = Cardinality(OwnUpTo(next - 1))
  /\ \A i \in Own : i < next => newEnv[Cardinality(OwnUpTo(i))].name = Environ[i].name

VInv ==
  /\ Typed /\ Control /\ InTime
  /\ Fetched(newEnv, cache) /\ ResolvedSoFar /\ KeptSoFar

-------------------------------------------------------------------------------
(* The work list and the entries made of it *)

FromItem(path) == [name |-> "", kind |-> "from", path |-> path, key |-> ""]

LEMMA EnvironShape ==
  ASSUME setting \in Settings
  PROVE  /\ Environ \in Seq(Variable) /\ FromPaths \in Seq(Path) /\ IgnoreMissing \in BOOLEAN
         /\ \A i \in DOMAIN Environ : Environ[i].kind = "ref" => Environ[i].path \in Path
BY VaultInjectAssumption DEF Environ, FromPaths, IgnoreMissing

LEMMA WorkShape ==
  ASSUME setting \in Settings
  PROVE  /\ Len(Environ) \in Nat /\ Len(FromPaths) \in Nat
         /\ Len(Work) = Len(Environ) + Len(FromPaths)
         /\ DOMAIN Environ = 1 .. Len(Environ) /\ DOMAIN FromPaths = 1 .. Len(FromPaths)
         /\ \A i \in 1 .. Len(Environ) : Work[i] = Environ[i]
         /\ \A i \in 1 .. Len(FromPaths) : Work[Len(Environ) + i] = FromItem(FromPaths[i])
<1>1. PICK e : e = Environ
  OBVIOUS
<1>2. PICK f : f = FromPaths
  OBVIOUS
<1> DEFINE g == [i \in DOMAIN f |-> FromItem(f[i])]
<1>3. Work = e \o g
  BY <1>1, <1>2, Zenon DEF Work, FromItem
<1>4. e \in Seq(Variable) /\ f \in Seq(Path)
  BY <1>1, <1>2, EnvironShape
<1>5. DOMAIN e = 1 .. Len(e) /\ DOMAIN f = 1 .. Len(f) /\ Len(e) \in Nat /\ Len(f) \in Nat
  BY <1>4
<1> DEFINE F == {FromItem(f[i]) : i \in DOMAIN f}
<1>6. g \in Seq(F) /\ Len(g) = Len(f) /\ \A i \in 1 .. Len(f) : g[i] = FromItem(f[i])
  BY <1>5
<1>7. e \in Seq(Variable \cup F) /\ g \in Seq(Variable \cup F)
  <2> HIDE DEF F, g
  <2> QED BY <1>4, <1>6
<1> HIDE DEF F, g
<1>8. Len(e \o g) = Len(e) + Len(f)
  BY <1>5, <1>6, <1>7
<1>9. \A i \in 1 .. Len(e) : (e \o g)[i] = e[i]
  BY <1>5, <1>6, <1>7
<1>10. \A i \in 1 .. Len(f) : (e \o g)[Len(e) + i] = g[i]
  BY <1>5, <1>6, <1>7
<1> QED BY <1>1, <1>2, <1>3, <1>5, <1>6, <1>8, <1>9, <1>10

\* An item names a path with a secret when it needs one, and the from-paths come last.
IsItem(item) ==
  /\ item.kind \in {"config", "plain", "bare", "ref", "from"}
  /\ item.kind \in {"ref", "from"} => item.path \in Path
  /\ item.name \in Text /\ item.key \in Text

LEMMA ItemShape ==
  ASSUME setting \in Settings, NEW i \in 1 .. Len(Work)
  PROVE  IsItem(Work[i]) /\ (Work[i].kind = "from" <=> i > Len(Environ))
<1>1. CASE i <= Len(Environ)
  <2>1. i \in 1 .. Len(Environ) /\ Work[i] = Environ[i] /\ i \in DOMAIN Environ
    BY <1>1, WorkShape
  <2>2. Environ[i] \in Variable
    BY <2>1, EnvironShape
  <2>3. /\ Environ[i].kind \in {"config", "plain", "bare", "ref"}
        /\ Environ[i].name \in STRING /\ Environ[i].key \in STRING
    BY <2>2 DEF Variable
  <2>4. Environ[i].name \in Text /\ Environ[i].key \in Text
    BY <2>3 DEF Text
  <2>5. Environ[i].kind = "ref" => Environ[i].path \in Path
    BY <2>1, EnvironShape
  <2>6. Environ[i].kind # "from"
    BY <2>3
  <2>7. ~(i > Len(Environ))
    BY <1>1, WorkShape
  <2> QED BY <2>1, <2>3, <2>4, <2>5, <2>6, <2>7 DEF IsItem
<1>2. CASE i > Len(Environ)
  <2>1. PICK k \in 1 .. Len(FromPaths) : i = Len(Environ) + k
    <3>1. i - Len(Environ) \in 1 .. Len(FromPaths) /\ i = Len(Environ) + (i - Len(Environ))
      BY <1>2, WorkShape
    <3> QED BY <3>1
  <2>2. Work[i] = FromItem(FromPaths[k]) /\ FromPaths[k] \in Path
    BY <2>1, WorkShape, EnvironShape
  <2>3. "" \in Text
    BY DEF Text
  <2>4. PICK w : w = FromPaths[k]
    OBVIOUS
  <2>5. /\ FromItem(w).kind = "from" /\ FromItem(w).path = w
        /\ FromItem(w).name = "" /\ FromItem(w).key = ""
    BY DEF FromItem
  <2>6. IsItem(FromItem(w))
    BY <2>2, <2>3, <2>4, <2>5 DEF IsItem
  <2> QED BY <1>2, <2>2, <2>4, <2>5, <2>6
<1> QED BY <1>1, <1>2, WorkShape

\* The work does not change.
LEMMA SameWork ==
  ASSUME setting' = setting
  PROVE  /\ Work' = Work /\ Environ' = Environ /\ FromPaths' = FromPaths
         /\ IgnoreMissing' = IgnoreMissing /\ Own' = Own
<1>1. Environ' = Environ /\ FromPaths' = FromPaths /\ IgnoreMissing' = IgnoreMissing
  BY DEF Environ, FromPaths, IgnoreMissing
<1> QED BY <1>1, Zenon DEF Work, Own

LEMMA RawIsEntry ==
  ASSUME NEW item, IsItem(item), item.kind \in {"plain", "bare", "ref"}
  PROVE  /\ Raw(item) \in Entry
         /\ Raw(item).name = item.name /\ Raw(item).kind = item.kind
<1>1. "" \in Text
  BY DEF Text
<1> QED BY <1>1 DEF Raw, Entry, IsItem

LEMMA ResolvedIsEntry ==
  ASSUME NEW name \in Text, NEW path \in Path, NEW key \in Text, NEW v \in Nat
  PROVE  /\ Resolved(name, path, key, v) \in Entry
         /\ Resolved(name, path, key, v).name = name
         /\ Resolved(name, path, key, v).kind = "secret"
         /\ Resolved(name, path, key, v).path = path
         /\ Resolved(name, path, key, v).key = key
         /\ Resolved(name, path, key, v).version = v
BY DEF Resolved, Entry

-------------------------------------------------------------------------------
(* Extending the environment *)

LEMMA Concat ==
  ASSUME NEW S, NEW s \in Seq(S), NEW t \in Seq(S)
  PROVE  /\ s \o t \in Seq(S) /\ Len(s \o t) = Len(s) + Len(t)
         /\ \A i \in DOMAIN s : i \in DOMAIN (s \o t) /\ (s \o t)[i] = s[i]
         /\ \A i \in DOMAIN t : Len(s) + i \in DOMAIN (s \o t) /\ (s \o t)[Len(s) + i] = t[i]
         /\ \A i \in DOMAIN (s \o t) : \/ i \in DOMAIN s
                                       \/ \E k \in DOMAIN t : i = Len(s) + k
<1>1. s \o t \in Seq(S) /\ Len(s \o t) = Len(s) + Len(t)
  OBVIOUS
<1>2. /\ Len(s) \in Nat /\ Len(t) \in Nat
      /\ DOMAIN s = 1 .. Len(s) /\ DOMAIN t = 1 .. Len(t)
      /\ DOMAIN (s \o t) = 1 .. Len(s) + Len(t)
  BY <1>1
<1>3. \A i \in DOMAIN s : i \in DOMAIN (s \o t) /\ (s \o t)[i] = s[i]
  BY <1>2
<1>4. \A i \in DOMAIN t : Len(s) + i \in DOMAIN (s \o t) /\ (s \o t)[Len(s) + i] = t[i]
  BY <1>2
<1>5. ASSUME NEW i \in DOMAIN (s \o t), i \notin DOMAIN s
      PROVE  \E k \in DOMAIN t : i = Len(s) + k
  <2>1. i - Len(s) \in DOMAIN t /\ i = Len(s) + (i - Len(s))
    BY <1>2, <1>5
  <2> QED BY <2>1
<1> QED BY <1>1, <1>3, <1>4, <1>5

LEMMA FetchedConcat ==
  ASSUME NEW s \in Seq(Entry), NEW t \in Seq(Entry), NEW c, NEW d,
         Fetched(s, c), Fetched(t, d),
         \A p \in DOMAIN c : p \in DOMAIN d /\ d[p] = c[p]
  PROVE  Fetched(s \o t, d)
<1> SUFFICES ASSUME NEW j \in DOMAIN (s \o t), (s \o t)[j].kind = "secret"
             PROVE  /\ (s \o t)[j].path \in DOMAIN d
                    /\ (s \o t)[j].version = d[(s \o t)[j].path]
  BY DEF Fetched
<1>1. CASE j \in DOMAIN s
  <2>1. (s \o t)[j] = s[j]
    BY <1>1, Concat
  <2> QED BY <1>1, <2>1 DEF Fetched
<1>2. CASE j \notin DOMAIN s
  <2>1. PICK k \in DOMAIN t : j = Len(s) + k
    BY <1>2, Concat
  <2>2. (s \o t)[j] = t[k]
    BY <2>1, Concat
  <2> QED BY <2>2 DEF Fetched
<1> QED BY <1>1, <1>2

LEMMA NoRefsConcat ==
  ASSUME NEW s \in Seq(Entry), NEW t \in Seq(Entry), NoRefs(s), NoRefs(t)
  PROVE  NoRefs(s \o t)
<1> SUFFICES ASSUME NEW j \in DOMAIN (s \o t) PROVE (s \o t)[j].kind # "ref"
  BY DEF NoRefs
<1>1. CASE j \in DOMAIN s
  <2>1. (s \o t)[j] = s[j]
    BY <1>1, Concat
  <2> QED BY <1>1, <2>1 DEF NoRefs
<1>2. CASE j \notin DOMAIN s
  <2>1. PICK k \in DOMAIN t : j = Len(s) + k
    BY <1>2, Concat
  <2>2. (s \o t)[j] = t[k]
    BY <2>1, Concat
  <2> QED BY <2>2 DEF NoRefs
<1> QED BY <1>1, <1>2

\* Everything one environment has, a larger one has.
LEMMA AnsweredStays ==
  ASSUME NEW item, NEW s, NEW u, Answered(item, s),
         \A j \in DOMAIN s : \E l \in DOMAIN u : u[l] = s[j]
  PROVE  Answered(item, u)
<1>1. ASSUME item.kind = "ref"
      PROVE  \E j \in DOMAIN u : /\ u[j].name = item.name /\ u[j].kind = "secret"
                                 /\ u[j].path = item.path /\ u[j].key = item.key
                                 /\ u[j].key \in Keys[u[j].path]
  <2>1. PICK j \in DOMAIN s : /\ s[j].name = item.name /\ s[j].kind = "secret"
                              /\ s[j].path = item.path /\ s[j].key = item.key
                              /\ s[j].key \in Keys[s[j].path]
    BY <1>1 DEF Answered
  <2>2. PICK l \in DOMAIN u : u[l] = s[j]
    OBVIOUS
  <2> QED BY <2>1, <2>2
<1>2. ASSUME item.kind = "from", NEW k \in Keys[item.path]
      PROVE  \E j \in DOMAIN u : u[j].name = k /\ u[j].path = item.path /\ u[j].key = k
  <2>1. PICK j \in DOMAIN s : s[j].name = k /\ s[j].path = item.path /\ s[j].key = k
    BY <1>2 DEF Answered
  <2>2. PICK l \in DOMAIN u : u[l] = s[j]
    OBVIOUS
  <2> QED BY <2>1, <2>2
<1> QED BY <1>1, <1>2 DEF Answered

LEMMA AnsweredConcat ==
  ASSUME NEW item, NEW s \in Seq(Entry), NEW t \in Seq(Entry),
         Answered(item, s) \/ Answered(item, t)
  PROVE  Answered(item, s \o t)
<1>1. \A j \in DOMAIN s : \E l \in DOMAIN (s \o t) : (s \o t)[l] = s[j]
  BY Concat
<1>2. ASSUME NEW j \in DOMAIN t PROVE \E l \in DOMAIN (s \o t) : (s \o t)[l] = t[j]
  <2>1. Len(s) + j \in DOMAIN (s \o t) /\ (s \o t)[Len(s) + j] = t[j]
    BY Concat
  <2> QED BY <2>1
<1>3. CASE Answered(item, s)
  BY <1>1, <1>3, AnsweredStays
<1>4. CASE Answered(item, t)
  BY <1>2, <1>4, AnsweredStays
<1> QED BY <1>3, <1>4

\* The application's own variables are numbered without gaps.
LEMMA OwnRanks ==
  ASSUME setting \in Settings, NEW n \in Nat
  PROVE  /\ Cardinality(OwnUpTo(n)) \in Nat
         /\ \A i \in Own : i <= n => Cardinality(OwnUpTo(i)) \in 1 .. Cardinality(OwnUpTo(n))
         /\ n + 1 \in Own => Cardinality(OwnUpTo(n + 1)) = Cardinality(OwnUpTo(n)) + 1
         /\ n + 1 \notin Own => OwnUpTo(n + 1) = OwnUpTo(n)
<1>1. Own \subseteq 1 .. Len(Environ) /\ Len(Environ) \in Nat
  BY WorkShape DEF Own
<1>2. \A m \in Nat : IsFiniteSet(OwnUpTo(m)) /\ OwnUpTo(m) \subseteq Own
  <2> SUFFICES ASSUME NEW m \in Nat PROVE IsFiniteSet(OwnUpTo(m)) /\ OwnUpTo(m) \subseteq Own
    OBVIOUS
  <2>1. OwnUpTo(m) \subseteq Own
    BY DEF OwnUpTo
  <2>2. IsFiniteSet(1 .. Len(Environ))
    BY <1>1, FS_Interval
  <2> QED BY <1>1, <2>1, <2>2, FS_Subset
<1>3. \A m \in Nat : Cardinality(OwnUpTo(m)) \in Nat
  BY <1>2, FS_CardinalityType
<1>4. ASSUME NEW i \in Own, i <= n
      PROVE  Cardinality(OwnUpTo(i)) \in 1 .. Cardinality(OwnUpTo(n))
  <2>1. i \in Nat /\ \A j \in Own : j \in Nat
    BY <1>1
  <2>2. OwnUpTo(i) \subseteq OwnUpTo(n) /\ i \in OwnUpTo(i)
    <3>1. \A j \in Own : j <= i => j <= n
      BY <1>4, <2>1
    <3>2. i <= i
      BY <2>1
    <3> QED BY <3>1, <3>2 DEF OwnUpTo
  <2>3. Cardinality(OwnUpTo(i)) <= Cardinality(OwnUpTo(n))
    BY <1>2, <2>2, FS_Subset
  <2>4. Cardinality(OwnUpTo(i)) # 0
    BY <1>2, <2>1, <2>2, FS_EmptySet
  <2> QED BY <1>3, <2>1, <2>3, <2>4
<1>5. ASSUME n + 1 \in Own PROVE Cardinality(OwnUpTo(n + 1)) = Cardinality(OwnUpTo(n)) + 1
  <2>1. \A j \in Own : j \in Nat
    BY <1>1
  <2>2. OwnUpTo(n + 1) = OwnUpTo(n) \cup {n + 1}
    BY <1>5, <2>1 DEF OwnUpTo
  <2>3. n + 1 \notin OwnUpTo(n)
    BY DEF OwnUpTo
  <2> QED BY <1>2, <2>2, <2>3, FS_AddElement
<1>6. ASSUME n + 1 \notin Own PROVE OwnUpTo(n + 1) = OwnUpTo(n)
  <2>1. \A j \in Own : j \in Nat /\ j # n + 1
    BY <1>1, <1>6
  <2> QED BY <2>1 DEF OwnUpTo
<1> QED BY <1>3, <1>4, <1>5, <1>6

\* What a turn of the loop that goes on to the next item adds to the environment.
Adds(es) ==
  /\ es \in Seq(Entry)
  /\ newEnv' = newEnv \o es /\ next' = next + 1
  /\ Fetched(es, cache')
  /\ ~IgnoreMissing => NoRefs(es) /\ Answered(Item, es)
  /\ Item.kind = "config" => es = <<>>
  /\ Item.kind \in {"plain", "bare", "ref"} => Len(es) = 1 /\ es[1].name = Item.name

CacheGrows ==
  \A p \in DOMAIN cache : p \in DOMAIN cache' /\ cache'[p] = cache[p]

LEMMA AddsKeepsKept ==
  ASSUME setting \in Settings, next \in 1 .. Len(Work), setting' = setting,
         newEnv \in Seq(Entry), KeptSoFar, NEW es, Adds(es)
  PROVE  KeptSoFar'
<1>1. PICK k \in Nat : next = k + 1 /\ k + 1 <= Len(Work)
  <2>1. next - 1 \in Nat /\ next = (next - 1) + 1 /\ next <= Len(Work)
    BY WorkShape
  <2> QED BY <2>1
<1>2. next - 1 = k /\ next' = k + 2 /\ next' - 1 = k + 1
  BY <1>1 DEF Adds
<1>3. Own' = Own /\ Environ' = Environ /\ \A n : OwnUpTo(n)' = OwnUpTo(n)
  BY SameWork DEF OwnUpTo
<1>4. PICK e : e = newEnv
  OBVIOUS
<1>5. newEnv' = e \o es /\ e \in Seq(Entry) /\ es \in Seq(Entry)
  BY <1>4 DEF Adds
<1>6. /\ Len(e \o es) = Len(e) + Len(es) /\ Len(e) \in Nat /\ Len(es) \in Nat
      /\ \A i \in 1 .. Len(e) : (e \o es)[i] = e[i]
      /\ \A i \in DOMAIN es : (e \o es)[Len(e) + i] = es[i]
  BY <1>5, Concat, SMTT(30)
<1>7. /\ Len(e) >= Cardinality(OwnUpTo(k))
      /\ k + 1 <= Len(Environ) + 1 => Len(e) = Cardinality(OwnUpTo(k))
      /\ \A i \in Own : i < k + 1 => e[Cardinality(OwnUpTo(i))].name = Environ[i].name
  BY <1>1, <1>2, <1>4 DEF KeptSoFar
<1>8. Own \subseteq 1 .. Len(Environ) /\ Len(Environ) \in Nat
  BY WorkShape DEF Own
<1>9. SUFFICES /\ Len(e \o es) >= Cardinality(OwnUpTo(k + 1))
               /\ k + 2 <= Len(Environ) + 1 => Len(e \o es) = Cardinality(OwnUpTo(k + 1))
               /\ \A i \in Own : i < k + 2 =>
                    (e \o es)[Cardinality(OwnUpTo(i))].name = Environ[i].name
  BY <1>2, <1>3, <1>5 DEF KeptSoFar
<1>10. ASSUME NEW i \in Own, i <= k
       PROVE  (e \o es)[Cardinality(OwnUpTo(i))].name = Environ[i].name
  <2>1. Cardinality(OwnUpTo(i)) \in 1 .. Cardinality(OwnUpTo(k)) /\ Cardinality(OwnUpTo(k)) \in Nat
    BY <1>10, OwnRanks
  <2>2. Cardinality(OwnUpTo(i)) \in 1 .. Len(e)
    BY <1>6, <1>7, <2>1
  <2>3. i < k + 1
    BY <1>8, <1>10
  <2> QED BY <1>6, <1>7, <2>2, <2>3
<1>11. Cardinality(OwnUpTo(k)) \in Nat
  BY OwnRanks
<1>12. Item = Work[k + 1] /\ k + 1 \in 1 .. Len(Work)
  BY <1>1 DEF Item
<1>13. CASE k + 1 \in Own
  <2>1. k + 1 <= Len(Environ) /\ k + 1 \in 1 .. Len(Environ)
    BY <1>8, <1>13
  <2>2. Item = Environ[k + 1]
    BY <1>12, <2>1, WorkShape
  <2>3. Item.kind # "config"
    BY <1>13, <2>2 DEF Own
  <2>4. IsItem(Item) /\ Item.kind # "from"
    <3>1. ~(k + 1 > Len(Environ))
      BY <1>8, <2>1
    <3> QED BY <1>12, <3>1, ItemShape
  <2>5. Len(es) = 1 /\ es[1].name = Environ[k + 1].name
    BY <2>2, <2>3, <2>4 DEF Adds, IsItem
  <2>6. Cardinality(OwnUpTo(k + 1)) = Len(e) + 1
    <3>1. k + 1 <= Len(Environ) + 1
      BY <1>8, <2>1
    <3>2. Cardinality(OwnUpTo(k + 1)) = Cardinality(OwnUpTo(k)) + 1
      BY <1>13, OwnRanks
    <3> QED BY <1>7, <3>1, <3>2
  <2>7. (e \o es)[Len(e) + 1] = es[1]
    BY <1>5, <1>6, <2>5
  <2>8. ASSUME NEW i \in Own, i < k + 2
        PROVE  (e \o es)[Cardinality(OwnUpTo(i))].name = Environ[i].name
    <3>1. CASE i = k + 1
      BY <2>5, <2>6, <2>7, <3>1
    <3>2. CASE i # k + 1
      <4>1. i <= k
        BY <1>8, <2>8, <3>2
      <4> QED BY <1>10, <4>1
    <3> QED BY <3>1, <3>2
  <2>9. Len(e \o es) = Cardinality(OwnUpTo(k + 1))
    BY <1>6, <2>5, <2>6
  <2>10. Len(e \o es) >= Cardinality(OwnUpTo(k + 1))
    <3>1. Len(e \o es) \in Nat
      BY <1>6
    <3> QED BY <2>9, <3>1
  <2> QED BY <2>8, <2>9, <2>10
<1>14. CASE k + 1 \notin Own
  <2>1. OwnUpTo(k + 1) = OwnUpTo(k)
    BY <1>14, OwnRanks
  <2>2. ASSUME NEW i \in Own, i < k + 2 PROVE i <= k
    BY <1>8, <1>14, <2>2
  <2>3. ASSUME k + 2 <= Len(Environ) + 1 PROVE Len(e \o es) = Cardinality(OwnUpTo(k + 1))
    <3>1. k + 1 \in 1 .. Len(Environ) /\ k + 1 <= Len(Environ) + 1
      BY <1>8, <2>3
    <3>2. Item = Environ[k + 1] /\ k + 1 \in DOMAIN Environ
      BY <1>12, <3>1, WorkShape
    <3>3. Item.kind = "config"
      BY <1>14, <3>2 DEF Own
    <3>4. es = <<>>
      BY <3>3 DEF Adds
    <3>5. Len(es) = 0
      BY <3>4
    <3> QED BY <1>6, <1>7, <2>1, <3>1, <3>5
  <2>4. Len(e \o es) >= Cardinality(OwnUpTo(k + 1))
    BY <1>6, <1>7, <1>11, <2>1
  <2> QED BY <1>10, <2>2, <2>3, <2>4
<1> QED BY <1>13, <1>14

LEMMA AddsKeeps ==
  ASSUME VInv, next <= Len(Work), setting' = setting, CacheGrows, NEW es, Adds(es)
  PROVE  /\ next' \in 1 .. Len(Work) + 1 /\ newEnv' \in Seq(Entry)
         /\ Fetched(newEnv', cache') /\ ResolvedSoFar' /\ KeptSoFar'
<1>1. setting \in Settings /\ newEnv \in Seq(Entry) /\ es \in Seq(Entry)
  BY DEF VInv, Typed, Adds
<1>2. next \in 1 .. Len(Work) /\ Len(Work) \in Nat
  <2>1. Len(Work) \in Nat
    BY <1>1, WorkShape
  <2>2. next \in 1 .. Len(Work) + 1
    BY DEF VInv, Typed
  <2> QED BY <2>1, <2>2
<1>3. next' \in 1 .. Len(Work) + 1
  BY <1>2 DEF Adds
<1>4. PICK e : e = newEnv
  OBVIOUS
<1>5. newEnv' = e \o es /\ e \in Seq(Entry)
  BY <1>1, <1>4 DEF Adds
<1>6. newEnv' \in Seq(Entry)
  BY <1>1, <1>5, Concat
<1>7. Fetched(newEnv', cache')
  <2>1. PICK c : c = cache
    OBVIOUS
  <2>2. PICK d : d = cache'
    OBVIOUS
  <2>3. Fetched(e, c) /\ Fetched(es, d) /\ \A p \in DOMAIN c : p \in DOMAIN d /\ d[p] = c[p]
    BY <1>4, <2>1, <2>2 DEF VInv, Adds, CacheGrows
  <2>4. Fetched(e \o es, d)
    BY <1>1, <1>5, <2>3, FetchedConcat
  <2> QED BY <1>5, <2>2, <2>4
<1>8. ResolvedSoFar'
  <2>1. SUFFICES ASSUME ~IgnoreMissing
                 PROVE  NoRefs(e \o es) /\ \A i \in 1 .. next' - 1 : Answered(Work[i], e \o es)
    BY <1>5, SameWork DEF ResolvedSoFar, NoRefs
  <2>2. NoRefs(e) /\ \A i \in 1 .. next - 1 : Answered(Work[i], e)
    BY <1>4, <2>1 DEF VInv, ResolvedSoFar
  <2>3. NoRefs(es) /\ Answered(Item, es)
    BY <2>1 DEF Adds
  <2>4. NoRefs(e \o es)
    BY <1>1, <1>5, <2>2, <2>3, NoRefsConcat
  <2>5. ASSUME NEW i \in 1 .. next' - 1 PROVE Answered(Work[i], e \o es)
    <3>1. next' - 1 = next
      BY <1>2 DEF Adds
    <3>2. CASE i = next
      <4>1. Answered(Work[i], es)
        BY <2>3, <3>2 DEF Item
      <4> QED BY <1>1, <1>5, <4>1, AnsweredConcat
    <3>3. CASE i # next
      <4>1. i \in 1 .. next - 1
        BY <1>2, <3>1, <3>3
      <4>2. Answered(Work[i], e)
        BY <2>2, <4>1
      <4> QED BY <1>1, <1>5, <4>2, AnsweredConcat
    <3> QED BY <3>2, <3>3
  <2> QED BY <2>4, <2>5
<1>9. KeptSoFar'
  BY <1>1, <1>2, AddsKeepsKept DEF VInv
<1> QED BY <1>3, <1>6, <1>7, <1>8, <1>9

-------------------------------------------------------------------------------
(* What the turns of the loop add *)

LEMMA AddsNothing ==
  ASSUME newEnv \in Seq(Entry), newEnv' = newEnv, next' = next + 1,
         Item.kind = "config" \/ (Item.kind = "from" /\ IgnoreMissing)
  PROVE  \E es : Adds(es)
<1>1. <<>> \in Seq(Entry) /\ newEnv \o <<>> = newEnv /\ DOMAIN <<>> = {}
  OBVIOUS
<1>2. Fetched(<<>>, cache') /\ NoRefs(<<>>)
  BY <1>1 DEF Fetched, NoRefs
<1>3. Item.kind = "config" => Answered(Item, <<>>)
  BY DEF Answered
<1>4. Item.kind \notin {"plain", "bare", "ref"}
  OBVIOUS
<1>5. Adds(<<>>)
  BY <1>1, <1>2, <1>3, <1>4 DEF Adds
<1> QED BY <1>5

LEMMA AddsOne ==
  ASSUME newEnv \in Seq(Entry), next' = next + 1, NEW x \in Entry, newEnv' = Append(newEnv, x),
         Item.kind \in {"plain", "bare", "ref"}, x.name = Item.name,
         x.kind = "secret" => x.path \in DOMAIN cache' /\ x.version = cache'[x.path],
         ~IgnoreMissing => /\ x.kind # "ref"
                           /\ Item.kind = "ref" => /\ x.kind = "secret" /\ x.path = Item.path
                                                  /\ x.key = Item.key /\ x.key \in Keys[x.path]
  PROVE  \E es : Adds(es)
<1>1. /\ <<x>> \in Seq(Entry) /\ Append(newEnv, x) = newEnv \o <<x>>
      /\ DOMAIN <<x>> = {1} /\ <<x>>[1] = x /\ Len(<<x>>) = 1
  OBVIOUS
<1>2. PICK es : es = <<x>>
  OBVIOUS
<1>3. /\ es \in Seq(Entry) /\ newEnv' = newEnv \o es
      /\ DOMAIN es = {1} /\ es[1] = x /\ Len(es) = 1
  BY <1>1, <1>2
<1>4. Fetched(es, cache')
  BY <1>3 DEF Fetched
<1>5. ~IgnoreMissing => NoRefs(es)
  BY <1>3 DEF NoRefs
<1>6. ~IgnoreMissing => Answered(Item, es)
  BY <1>3 DEF Answered
<1>7. Item.kind # "config"
  OBVIOUS
<1>8. Adds(es)
  BY <1>3, <1>4, <1>5, <1>6, <1>7 DEF Adds
<1> QED BY <1>8

LEMMA AddsAll ==
  ASSUME newEnv \in Seq(Entry), next' = next + 1, NEW v \in Nat, InjectAll(Item.path, v),
         Item.kind = "from", Item.path \in Path,
         Item.path \in DOMAIN cache', v = cache'[Item.path]
  PROVE  \E es : Adds(es)
<1>1. PICK p : p = Item.path
  OBVIOUS
<1>2. PICK K : K = Keys[p]
  OBVIOUS
<1>3. PICK order \in [1 .. Cardinality(K) -> K] :
        /\ \A k \in K : \E i \in DOMAIN order : order[i] = k
        /\ newEnv' = newEnv \o [i \in DOMAIN order |-> Resolved(order[i], p, order[i], v)]
  BY <1>1, <1>2 DEF InjectAll
<1>4. IsFiniteSet(K) /\ p \in Path
  BY <1>1, <1>2, VaultInjectAssumption
<1>5. Cardinality(K) \in Nat
  BY <1>4, FS_CardinalityType
<1>6. PICK n \in Nat : n = Cardinality(K)
  BY <1>5
<1>7. DOMAIN order = 1 .. n /\ \A i \in 1 .. n : order[i] \in K /\ order[i] \in Text
  BY <1>2, <1>3, <1>4, <1>6 DEF Text
<1>8. PICK es : es = [i \in 1 .. n |-> Resolved(order[i], p, order[i], v)]
  OBVIOUS
<1>9. newEnv' = newEnv \o es /\ DOMAIN es = 1 .. n
  BY <1>3, <1>7, <1>8
<1>10. ASSUME NEW i \in 1 .. n
       PROVE  /\ es[i] \in Entry /\ es[i].name = order[i] /\ es[i].kind = "secret"
              /\ es[i].path = p /\ es[i].key = order[i] /\ es[i].version = v
  <2>1. PICK w : w = order[i]
    OBVIOUS
  <2>2. es[i] = Resolved(w, p, w, v) /\ w \in Text
    BY <1>7, <1>8, <2>1
  <2> QED BY <1>4, <2>1, <2>2, ResolvedIsEntry
<1>11. es \in Seq(Entry)
  <2>1. es = [i \in 1 .. n |-> es[i]]
    BY <1>8, <1>9
  <2>2. es \in [1 .. n -> Entry]
    BY <1>10, <2>1
  <2> QED BY <2>2
<1>12. Fetched(es, cache')
  BY <1>1, <1>9, <1>10 DEF Fetched
<1>13. NoRefs(es)
  BY <1>9, <1>10 DEF NoRefs
<1>14. Answered(Item, es)
  <2>1. ASSUME NEW k \in Keys[Item.path]
        PROVE  \E j \in DOMAIN es : es[j].name = k /\ es[j].path = Item.path /\ es[j].key = k
    <3>1. PICK i \in 1 .. n : order[i] = k
      BY <1>1, <1>2, <1>3, <1>7
    <3> QED BY <1>1, <1>9, <1>10, <3>1
  <2> QED BY <2>1 DEF Answered
<1>15. Item.kind # "config" /\ Item.kind \notin {"plain", "bare", "ref"}
  OBVIOUS
<1>16. Adds(es)
  BY <1>9, <1>11, <1>12, <1>13, <1>14, <1>15 DEF Adds
<1> QED BY <1>16

\* A turn of the loop goes on to the next item, or fails and leaves all as it is.
Turn ==
  \/ pc' = "resolve" /\ \E es : Adds(es)
  \/ pc' = "failed" /\ newEnv' = newEnv /\ next' = next

LEMMA UseDataTurns ==
  ASSUME setting \in Settings, next \in 1 .. Len(Work), newEnv \in Seq(Entry),
         NEW v \in Nat, UseData(v), Item.path \in DOMAIN cache', v = cache'[Item.path]
  PROVE  Turn
<1>1. IsItem(Item)
  BY ItemShape DEF Item
<1>2. CASE Item.kind = "ref" /\ HasKey(Item.path, Item.key)
  <2>1. PICK x : x = Resolved(Item.name, Item.path, Item.key, v)
    OBVIOUS
  <2>2. newEnv' = Append(newEnv, x) /\ pc' = "resolve" /\ next' = next + 1
    BY <1>2, <2>1 DEF UseData
  <2>3. /\ x \in Entry /\ x.name = Item.name /\ x.kind = "secret" /\ x.path = Item.path
        /\ x.key = Item.key /\ x.version = v
    <3>1. PICK a : a = Item.name
      OBVIOUS
    <3>2. PICK b : b = Item.path
      OBVIOUS
    <3>3. PICK c : c = Item.key
      OBVIOUS
    <3>4. a \in Text /\ b \in Path /\ c \in Text
      BY <1>1, <1>2, <3>1, <3>2, <3>3 DEF IsItem
    <3> QED BY <2>1, <3>1, <3>2, <3>3, <3>4, ResolvedIsEntry
  <2>4. x.key \in Keys[x.path]
    BY <1>2, <2>3 DEF HasKey
  <2>5. \E es : Adds(es)
    BY <1>2, <2>2, <2>3, <2>4, AddsOne
  <2> QED BY <2>2, <2>5 DEF Turn
<1>3. CASE Item.kind = "ref" /\ ~HasKey(Item.path, Item.key) /\ IgnoreMissing
  <2>1. PICK x : x = Raw(Item)
    OBVIOUS
  <2>2. newEnv' = Append(newEnv, x) /\ pc' = "resolve" /\ next' = next + 1
    BY <1>3, <2>1 DEF UseData
  <2>3. x \in Entry /\ x.name = Item.name /\ x.kind = "ref"
    <3>1. PICK a : a = Item
      OBVIOUS
    <3> QED BY <1>1, <1>3, <2>1, <3>1, RawIsEntry
  <2>4. \E es : Adds(es)
    BY <1>3, <2>2, <2>3, AddsOne
  <2> QED BY <2>2, <2>4 DEF Turn
<1>4. CASE Item.kind = "ref" /\ ~HasKey(Item.path, Item.key) /\ ~IgnoreMissing
  BY <1>4 DEF UseData, Turn
<1>5. CASE Item.kind = "from"
  <2>1. InjectAll(Item.path, v) /\ pc' = "resolve" /\ next' = next + 1
    BY <1>5 DEF UseData
  <2>2. Item.path \in Path
    BY <1>1, <1>5 DEF IsItem
  <2>3. \E es : Adds(es)
    BY <1>5, <2>1, <2>2, AddsAll
  <2> QED BY <2>1, <2>3 DEF Turn
<1> QED BY <1>2, <1>3, <1>4, <1>5 DEF UseData

LEMMA ReadErrorTurns ==
  ASSUME setting \in Settings, next \in 1 .. Len(Work), newEnv \in Seq(Entry),
         Item.kind \in {"ref", "from"}, ReadError
  PROVE  Turn
<1>1. IsItem(Item)
  BY ItemShape DEF Item
<1>2. CASE ~IgnoreMissing
  BY <1>2 DEF ReadError, Turn
<1>3. CASE IgnoreMissing /\ Item.kind = "from"
  <2>1. newEnv' = newEnv /\ pc' = "resolve" /\ next' = next + 1
    BY <1>3 DEF ReadError
  <2>2. \E es : Adds(es)
    BY <1>3, <2>1, AddsNothing
  <2> QED BY <2>1, <2>2 DEF Turn
<1>4. CASE IgnoreMissing /\ Item.kind = "ref"
  <2>1. PICK x : x = Raw(Item)
    OBVIOUS
  <2>2. newEnv' = Append(newEnv, x) /\ pc' = "resolve" /\ next' = next + 1
    BY <1>4, <2>1 DEF ReadError
  <2>3. x \in Entry /\ x.name = Item.name /\ x.kind = "ref"
    <3>1. PICK a : a = Item
      OBVIOUS
    <3> QED BY <1>1, <1>4, <2>1, <3>1, RawIsEntry
  <2>4. \E es : Adds(es)
    BY <1>4, <2>2, <2>3, AddsOne
  <2> QED BY <2>2, <2>4 DEF Turn
<1> QED BY <1>2, <1>3, <1>4

LEMMA KeepOrStripTurns ==
  ASSUME setting \in Settings, next \in 1 .. Len(Work), newEnv \in Seq(Entry), KeepOrStrip
  PROVE  Turn
<1>1. IsItem(Item) /\ Item.kind \in {"config", "plain", "bare"}
  BY ItemShape DEF Item, KeepOrStrip
<1>2. pc' = "resolve" /\ next' = next + 1
  BY DEF KeepOrStrip, Resolving
<1>3. CASE Item.kind = "config"
  <2>1. newEnv' = newEnv
    BY <1>3 DEF KeepOrStrip
  <2>2. \E es : Adds(es)
    BY <1>2, <1>3, <2>1, AddsNothing
  <2> QED BY <1>2, <2>2 DEF Turn
<1>4. CASE Item.kind # "config"
  <2>1. PICK x : x = Raw(Item)
    OBVIOUS
  <2>2. newEnv' = Append(newEnv, x)
    BY <1>4, <2>1 DEF KeepOrStrip
  <2>3. x \in Entry /\ x.name = Item.name /\ x.kind = Item.kind
    <3>1. PICK a : a = Item
      OBVIOUS
    <3>2. IsItem(a) /\ a.kind \in {"plain", "bare", "ref"}
      BY <1>1, <1>4, <3>1
    <3> QED BY <2>1, <3>1, <3>2, RawIsEntry
  <2>4. x.kind # "secret" /\ x.kind # "ref" /\ Item.kind # "ref" /\ Item.kind \in {"plain", "bare", "ref"}
    BY <1>1, <1>4, <2>3
  <2>5. \E es : Adds(es)
    BY <1>2, <2>2, <2>3, <2>4, AddsOne
  <2> QED BY <1>2, <2>5 DEF Turn
<1> QED BY <1>3, <1>4

-------------------------------------------------------------------------------
(* The invariant is inductive *)

LEMMA EarliestOfTwo ==
  ASSUME NEW a \in Nat, NEW b \in Nat
  PROVE  Earliest({a, b}) \in Nat /\ Earliest({a, b}) <= a
<1>1. \E t \in {a, b} : \A u \in {a, b} : t <= u
  <2>1. CASE a <= b
    BY <2>1
  <2>2. CASE b <= a
    BY <2>2
  <2> QED BY <2>1, <2>2
<1>2. PICK S : S = {a, b}
  OBVIOUS
<1>3. Earliest(S) \in S /\ \A u \in S : Earliest(S) <= u
  BY <1>1, <1>2 DEF Earliest
<1> QED BY <1>2, <1>3

LEMMA EarliestOfThree ==
  ASSUME NEW a \in Nat, NEW b \in Nat, NEW c \in Nat
  PROVE  Earliest({a, b, c}) \in Nat /\ Earliest({a, b, c}) <= a
<1>1. \E t \in {a, b, c} : \A u \in {a, b, c} : t <= u
  <2>1. CASE a <= b /\ a <= c
    BY <2>1
  <2>2. CASE b <= a /\ b <= c
    BY <2>2
  <2>3. CASE c <= a /\ c <= b
    BY <2>3
  <2> QED BY <2>1, <2>2, <2>3
<1>2. PICK S : S = {a, b, c}
  OBVIOUS
<1>3. Earliest(S) \in S /\ \A u \in S : Earliest(S) <= u
  BY <1>1, <1>2 DEF Earliest
<1> QED BY <1>2, <1>3

LEMMA Numbers ==
  /\ LoginTimeout \in Nat /\ ReadTimeout \in Nat /\ ClientTimeout \in Nat
  /\ MaxAttempts \in Nat /\ MaxAttempts >= 1 /\ Base \in Nat
<1>1. \A n \in {LoginTimeout, ReadTimeout, ClientTimeout, MaxAttempts, Base} : n \in Nat \ {0}
  BY VaultInjectAssumption
<1>2. /\ LoginTimeout \in Nat /\ ReadTimeout \in Nat /\ ClientTimeout \in Nat
      /\ MaxAttempts \in Nat \ {0} /\ Base \in Nat
  BY <1>1
<1>3. MaxAttempts >= 1
  BY <1>2
<1> QED BY <1>2, <1>3

LEMMA PausesBounded ==
  ASSUME NEW n \in Nat
  PROVE  Pause[n] \in Nat /\ Pause[n] >= Base /\ Pause[n + 1] = 2 * Pause[n] /\ Pause[n + 1] \in Nat
<1>1. Pause[0] = Base /\ Pause[0] <= Pause[n]
  BY PausesDouble, PausesGrow
<1>2. Pause[n] \in Nat /\ Pause[n + 1] \in Nat
  BY PausesDouble
<1> QED BY <1>1, <1>2, PausesDouble, Numbers

\* Steps that do not touch what the loop works on.
Aside == setting' = setting /\ next' = next /\ cache' = cache /\ newEnv' = newEnv

LEMMA AsideKeeps ==
  ASSUME VInv, Aside
  PROVE  /\ setting' \in Settings /\ next' \in 1 .. Len(Work)' + 1
         /\ DOMAIN cache' \subseteq Path /\ \A p \in DOMAIN cache' : cache'[p] \in Nat
         /\ newEnv' \in Seq(Entry)
         /\ Fetched(newEnv', cache') /\ ResolvedSoFar' /\ KeptSoFar'
         /\ Item' = Item /\ \A p : Cached(p)' <=> Cached(p)
         /\ Len(Work)' = Len(Work)
<1>1. Work' = Work /\ Environ' = Environ /\ IgnoreMissing' = IgnoreMissing /\ Own' = Own
  BY SameWork DEF Aside
<1>2. Len(Work)' = Len(Work) /\ Item' = Item
  BY <1>1 DEF Item, Aside
<1>3. Fetched(newEnv', cache')
  BY DEF VInv, Aside
<1>4. ResolvedSoFar'
  BY <1>1 DEF VInv, ResolvedSoFar, Aside, NoRefs
<1>5. KeptSoFar'
  <2>1. \A n : OwnUpTo(n)' = OwnUpTo(n)
    BY <1>1 DEF OwnUpTo
  <2> QED BY <1>1, <2>1 DEF VInv, KeptSoFar, Aside
<1>6. \A p : Cached(p)' <=> Cached(p)
  BY DEF Cached, Aside
<1> QED BY <1>2, <1>3, <1>4, <1>5, <1>6 DEF VInv, Typed, Aside

LEMMA InitVInv == Init => VInv
<1> SUFFICES ASSUME Init PROVE VInv
  OBVIOUS
<1>1. setting \in Settings /\ pc = "copy" /\ next = 1 /\ newEnv = <<>> /\ DOMAIN cache = {}
  BY DEF Init
<1>2. Len(Work) \in Nat
  BY <1>1, WorkShape
<1>3. Typed
  BY <1>1, <1>2 DEF Init, Typed
<1>4. Control
  BY <1>1 DEF Control
<1>5. InTime
  BY <1>1, Numbers, PausesDouble DEF Init, InTime
<1>6. DOMAIN newEnv = {} /\ Len(newEnv) = 0
  BY <1>1
<1>7. Fetched(newEnv, cache)
  BY <1>6 DEF Fetched
<1>8. ResolvedSoFar
  BY <1>1, <1>6 DEF ResolvedSoFar, NoRefs
<1>9. KeptSoFar
  <2>1. \A i \in Own : i \in Nat /\ i >= 1
    BY <1>1, WorkShape DEF Own
  <2>2. OwnUpTo(next - 1) = {}
    BY <1>1, <2>1 DEF OwnUpTo
  <2>3. Cardinality(OwnUpTo(next - 1)) = 0
    BY <2>2, FS_EmptySet
  <2> QED BY <1>1, <1>6, <2>1, <2>3 DEF KeptSoFar
<1> QED BY <1>3, <1>4, <1>5, <1>7, <1>8, <1>9 DEF VInv

\* A turn of the loop keeps the invariant.
LEMMA TurnKeepsVInv ==
  ASSUME VInv, Turn, next <= Len(Work), pc \in {"resolve", "read sent"},
         setting' = setting, binary' = binary, now' = now, started' = started,
         attempt' = attempt, wake' = wake, issued' = issued, version' = version,
         CacheGrows, DOMAIN cache' \subseteq Path, \A p \in DOMAIN cache' : cache'[p] \in Nat
  PROVE  VInv'
<1>1. Len(Work)' = Len(Work) /\ IgnoreMissing' = IgnoreMissing /\ Work' = Work
      /\ Own' = Own /\ Environ' = Environ
  BY SameWork
<1>2. pc' \in {"resolve", "failed"}
  BY DEF Turn
<1>3. Control'
  BY <1>2 DEF VInv, Control
<1>4. InTime'
  BY <1>2 DEF VInv, InTime
<1>5. /\ next' \in 1 .. Len(Work) + 1 /\ newEnv' \in Seq(Entry)
      /\ Fetched(newEnv', cache') /\ ResolvedSoFar' /\ KeptSoFar'
  <2>1. CASE \E es : Adds(es)
    BY <2>1, AddsKeeps
  <2>2. CASE newEnv' = newEnv /\ next' = next
    <3>1. next' \in 1 .. Len(Work) + 1 /\ newEnv' \in Seq(Entry)
      BY <2>2 DEF VInv, Typed
    <3>2. Fetched(newEnv', cache')
      BY <2>2 DEF VInv, Fetched, CacheGrows
    <3>3. ResolvedSoFar'
      BY <1>1, <2>2 DEF VInv, ResolvedSoFar, NoRefs
    <3>4. KeptSoFar'
      <4>1. \A n : OwnUpTo(n)' = OwnUpTo(n)
        BY <1>1 DEF OwnUpTo
      <4> QED BY <1>1, <2>2, <4>1 DEF VInv, KeptSoFar
    <3> QED BY <3>1, <3>2, <3>3, <3>4
  <2> QED BY <2>1, <2>2 DEF Turn
<1>6. Typed'
  <2>1. setting' \in Settings /\ now' \in Nat /\ attempt' \in Nat /\ started' \in Nat
        /\ wake' \in Nat /\ issued' \in Nat /\ version' \in [Path -> Nat]
    BY DEF VInv, Typed
  <2> QED BY <1>1, <1>2, <1>5, <2>1 DEF Typed
<1> QED BY <1>3, <1>4, <1>5, <1>6 DEF VInv

LEMMA CopyKeepsVInv ==
  ASSUME VInv, CopyStep
  PROVE  VInv'
<1>1. Aside
  BY DEF CopyStep, CopyOpens, CopyEnds, CopyFails, containerVars, resolveVars, Aside
<1>2. /\ pc \in {"copy", "copying"} /\ pc' \in {"copy", "copying", "start"}
      /\ pc' = "start" => binary' = "whole"
      /\ now' = now /\ started' = started /\ version' = version
      /\ attempt' = attempt /\ wake' = wake /\ issued' = issued
  BY DEF CopyStep, CopyOpens, CopyEnds, CopyFails, loginVars
<1>3. Typed'
  BY <1>1, <1>2, AsideKeeps DEF VInv, Typed
<1>4. Control'
  BY <1>2 DEF Control
<1>5. InTime'
  BY <1>2 DEF VInv, InTime
<1> QED BY <1>1, <1>3, <1>4, <1>5, AsideKeeps DEF VInv

LEMMA LoginKeepsVInv ==
  ASSUME VInv, LoginStep
  PROVE  VInv'
<1>1. Aside /\ binary' = binary /\ now' = now /\ version' = version
  BY DEF LoginStep, Prepare, LoginSend, LoginServed, LoginRejected, LoginFails, LoginTimesOut,
         BackoffEnds, containerVars, resolveVars, Aside
<1>2. /\ binary = "whole" /\ now \in Nat /\ attempt \in Nat /\ started \in Nat
      /\ wake \in Nat /\ issued \in Nat /\ version' \in [Path -> Nat]
  <2>1. pc \in {"start", "login", "login sent", "backoff"}
    BY DEF LoginStep, Prepare, LoginSend, LoginServed, LoginRejected, LoginFails, LoginTimesOut,
           BackoffEnds
  <2> QED BY <1>1, <2>1 DEF VInv, Typed, Control
<1>3. SUFFICES
        /\ pc' \in {"login", "login sent", "backoff", "resolve", "failed"}
        /\ attempt' \in Nat /\ started' \in Nat /\ wake' \in Nat /\ issued' \in Nat
        /\ InTime'
  <2>1. ASSUME pc' \in {"login", "login sent", "backoff", "resolve", "failed"},
               attempt' \in Nat, started' \in Nat, wake' \in Nat, issued' \in Nat
        PROVE  Typed' /\ Control'
    <3>1. Typed'
      BY <1>1, <1>2, <2>1, AsideKeeps DEF Typed
    <3>2. Control'
      BY <1>1, <1>2, <2>1 DEF Control
    <3> QED BY <3>1, <3>2
  <2> QED BY <1>1, <2>1, AsideKeeps DEF VInv
<1>4. CASE Prepare
  BY <1>2, <1>4 DEF Prepare, loginVars, VInv, InTime
<1>5. CASE LoginSend
  BY <1>2, <1>5 DEF LoginSend, loginVars, VInv, InTime
<1>6. CASE LoginServed
  <2>1. /\ pc = "login sent" /\ pc' = "resolve" /\ issued' = issued + 1
        /\ attempt' = attempt /\ started' = started /\ wake' = wake
    BY <1>6 DEF LoginServed
  <2>2. issued <= attempt
    BY <2>1 DEF VInv, InTime
  <2>3. issued' \in Nat /\ issued' <= attempt + 1
    <3>1. issued \in Nat /\ attempt \in Nat
      BY <1>2
    <3>2. issued' = issued + 1
      BY <2>1
    <3> QED BY <2>2, <3>1, <3>2
  <2> QED BY <1>1, <1>2, <2>1, <2>3 DEF VInv, InTime
<1>7. CASE LoginRejected
  BY <1>2, <1>7 DEF LoginRejected, loginVars, VInv, InTime
<1>8. CASE LoginFails \/ LoginTimesOut
  <2>1. /\ pc = "login sent" /\ RetryOrFail /\ issued' \in {issued, issued + 1}
        /\ attempt' = attempt /\ started' = started /\ now' = now
    BY <1>8 DEF LoginFails, LoginTimesOut
  <2>2. /\ issued <= attempt /\ attempt <= MaxAttempts - 1
        /\ now <= LoginTimeout + (Pause[attempt] - Base)
    BY <2>1 DEF VInv, InTime
  <2>3. /\ Pause[attempt] \in Nat /\ Pause[attempt + 1] \in Nat
        /\ Pause[attempt + 1] = 2 * Pause[attempt]
    BY <1>2, PausesBounded
  <2>4. issued' \in Nat /\ issued' <= attempt + 1
    <3>1. CASE issued' = issued
      BY <1>2, <2>2, <3>1
    <3>2. CASE issued' = issued + 1
      BY <1>2, <2>2, <3>2
    <3> QED BY <2>1, <3>1, <3>2
  <2>5. CASE MoreAttempts
    <3>1. pc' = "backoff" /\ wake' = now + Pause[attempt]
      BY <2>1, <2>5 DEF RetryOrFail
    <3>2. attempt < MaxAttempts - 1
      BY <2>5 DEF MoreAttempts
    <3>3. wake' \in Nat /\ now <= wake' /\ wake' <= LoginTimeout + (Pause[attempt + 1] - Base)
      BY <1>2, <2>2, <2>3, <3>1, Numbers
    <3> QED BY <1>2, <2>1, <2>2, <2>4, <3>1, <3>2, <3>3 DEF InTime
  <2>6. CASE ~MoreAttempts
    <3>1. pc' = "failed" /\ wake' = wake
      BY <2>1, <2>6 DEF RetryOrFail
    <3> QED BY <1>2, <2>1, <2>2, <2>4, <3>1 DEF InTime
  <2> QED BY <2>5, <2>6
<1>9. CASE BackoffEnds
  <2>1. /\ pc = "backoff" /\ pc' = "login" /\ attempt' = attempt + 1
        /\ started' = started /\ wake' = wake /\ issued' = issued
    BY <1>9 DEF BackoffEnds
  <2>2. /\ attempt < MaxAttempts - 1 /\ issued <= attempt + 1
        /\ now <= wake /\ wake <= LoginTimeout + (Pause[attempt + 1] - Base)
    BY <2>1 DEF VInv, InTime
  <2>3. Pause[attempt + 1] \in Nat
    BY <1>2, PausesBounded
  <2>4. now <= LoginTimeout + (Pause[attempt + 1] - Base)
    BY <1>2, <2>2, <2>3, Numbers
  <2>5. attempt + 1 <= MaxAttempts - 1
    BY <1>2, <2>2, Numbers
  <2>6. issued <= (attempt + 1) + 1
    BY <1>2, <2>2
  <2> QED BY <1>1, <1>2, <2>1, <2>2, <2>4, <2>5, <2>6 DEF InTime
<1> QED BY <1>4, <1>5, <1>6, <1>7, <1>8, <1>9 DEF LoginStep

LEMMA ResolveKeepsVInv ==
  ASSUME VInv, ResolveStep
  PROVE  VInv'
<1>1. setting \in Settings /\ newEnv \in Seq(Entry) /\ next \in 1 .. Len(Work) + 1
      /\ Len(Work) \in Nat
  <2>1. setting \in Settings /\ newEnv \in Seq(Entry) /\ next \in 1 .. Len(Work) + 1
    BY DEF VInv, Typed
  <2>2. Len(Work) \in Nat
    BY <2>1, WorkShape
  <2> QED BY <2>1, <2>2
<1>2. /\ DOMAIN cache \subseteq Path /\ \A p \in DOMAIN cache : cache[p] \in Nat
      /\ version \in [Path -> Nat]
  BY DEF VInv, Typed
<1>3. pc = "read sent" => next <= Len(Work) /\ Item.kind \in {"ref", "from"} /\ ~Cached(Item.path)
  BY DEF VInv, Control
<1>4. next <= Len(Work) => next \in 1 .. Len(Work)
  BY <1>1
<1>5. CASE KeepOrStrip
  <2>1. /\ pc = "resolve" /\ next <= Len(Work) /\ setting' = setting /\ binary' = binary
        /\ now' = now /\ started' = started /\ attempt' = attempt /\ wake' = wake
        /\ issued' = issued /\ version' = version /\ cache' = cache
    BY <1>5 DEF KeepOrStrip, Resolving, containerVars, loginVars
  <2>2. Turn
    BY <1>1, <1>4, <1>5, <2>1, KeepOrStripTurns
  <2>3. CacheGrows
    BY <2>1 DEF CacheGrows
  <2> QED BY <1>2, <2>1, <2>2, <2>3, TurnKeepsVInv
<1>6. CASE UseCached
  <2>1. /\ pc = "resolve" /\ next <= Len(Work) /\ setting' = setting /\ binary' = binary
        /\ now' = now /\ started' = started /\ attempt' = attempt /\ wake' = wake
        /\ issued' = issued /\ version' = version /\ cache' = cache
        /\ Item.path \in DOMAIN cache /\ UseData(cache[Item.path])
    BY <1>6 DEF UseCached, Resolving, containerVars, loginVars, Cached
  <2>2. PICK v \in Nat : v = cache[Item.path]
    BY <1>2, <2>1
  <2>3. UseData(v) /\ Item.path \in DOMAIN cache' /\ v = cache'[Item.path]
    BY <2>1, <2>2
  <2>4. Turn
    BY <1>1, <1>4, <2>1, <2>3, UseDataTurns
  <2>5. CacheGrows
    BY <2>1 DEF CacheGrows
  <2> QED BY <1>2, <2>1, <2>4, <2>5, TurnKeepsVInv
<1>7. CASE ReadSend
  <2>1. Aside /\ binary' = binary /\ now' = now /\ version' = version /\ attempt' = attempt
        /\ wake' = wake /\ issued' = issued /\ started' = now
        /\ pc = "resolve" /\ pc' = "read sent"
    BY <1>7 DEF ReadSend, Resolving, containerVars, loginVars, Aside
  <2>2. next <= Len(Work) /\ Item.kind \in {"ref", "from"} /\ ~Cached(Item.path)
    BY <1>7 DEF ReadSend, Resolving
  <2>3. Typed'
    BY <2>1, AsideKeeps DEF VInv, Typed
  <2>4. Control'
    <3>1. binary' = "whole"
      BY <2>1 DEF VInv, Control
    <3>2. next' <= Len(Work)' /\ Item' = Item
      BY <2>1, <2>2, AsideKeeps DEF Aside
    <3>3. ~Cached(Item.path)'
      BY <2>1, <2>2, <3>2 DEF Aside, Cached
    <3> QED BY <2>1, <2>2, <3>1, <3>2, <3>3 DEF Control
  <2>5. InTime'
    BY <2>1 DEF VInv, InTime
  <2> QED BY <2>1, <2>3, <2>4, <2>5, AsideKeeps DEF VInv
<1>8. CASE ReadServed
  <2>1. /\ pc = "read sent" /\ setting' = setting /\ binary' = binary
        /\ now' = now /\ started' = started /\ attempt' = attempt /\ wake' = wake
        /\ issued' = issued /\ version' = version
    BY <1>8 DEF ReadServed, containerVars, loginVars
  <2>2. next <= Len(Work) /\ Item.kind \in {"ref", "from"} /\ ~Cached(Item.path)
    BY <1>3, <2>1
  <2>3. IsItem(Item)
    BY <1>1, <1>4, <2>2, ItemShape DEF Item
  <2>4. Item.path \in Path /\ Item.path \notin DOMAIN cache
    BY <2>2, <2>3 DEF IsItem, Cached
  <2>5. PICK v \in Nat : v = version[Item.path]
    BY <1>2, <2>4
  <2>6. /\ cache' = [p \in DOMAIN cache \cup {Item.path} |-> IF p = Item.path THEN v ELSE cache[p]]
        /\ UseData(v)
    BY <1>8, <2>5 DEF ReadServed
  <2>7. /\ DOMAIN cache' \subseteq Path /\ \A p \in DOMAIN cache' : cache'[p] \in Nat
        /\ Item.path \in DOMAIN cache' /\ v = cache'[Item.path]
    BY <1>2, <2>4, <2>6
  <2>8. CacheGrows
    BY <2>4, <2>6 DEF CacheGrows
  <2>9. Turn
    BY <1>1, <1>4, <2>2, <2>6, <2>7, UseDataTurns
  <2> QED BY <2>1, <2>2, <2>7, <2>8, <2>9, TurnKeepsVInv
<1>9. CASE ReadFails \/ ReadTimesOut
  <2>1. pc = "read sent" /\ ReadError
    BY <1>9 DEF ReadFails, ReadTimesOut
  <2>2. /\ setting' = setting /\ binary' = binary
        /\ now' = now /\ started' = started /\ attempt' = attempt /\ wake' = wake
        /\ issued' = issued /\ version' = version /\ cache' = cache
    BY <2>1 DEF ReadError, containerVars, loginVars
  <2>3. Turn
    BY <1>1, <1>3, <1>4, <2>1, ReadErrorTurns
  <2>4. CacheGrows
    BY <2>2 DEF CacheGrows
  <2> QED BY <1>2, <1>3, <2>1, <2>2, <2>3, <2>4, TurnKeepsVInv
<1>10. CASE Exec
  <2>1. Aside /\ binary' = binary /\ now' = now /\ version' = version /\ attempt' = attempt
        /\ wake' = wake /\ issued' = issued /\ started' = started
        /\ pc = "resolve" /\ pc' \in {"exec", "failed"} /\ next > Len(Work)
    BY <1>10 DEF Exec, containerVars, loginVars, resolveVars, Aside
  <2>2. Typed'
    BY <2>1, AsideKeeps DEF VInv, Typed
  <2>3. Control'
    <3>1. binary' = "whole" /\ next' > Len(Work)'
      BY <2>1, AsideKeeps DEF VInv, Control, Aside
    <3> QED BY <2>1, <3>1 DEF Control
  <2>4. InTime'
    BY <2>1 DEF VInv, InTime
  <2> QED BY <2>1, <2>2, <2>3, <2>4, AsideKeeps DEF VInv
<1> QED BY <1>5, <1>6, <1>7, <1>8, <1>9, <1>10 DEF ResolveStep

LEMMA EnvironmentKeepsVInv ==
  ASSUME VInv, (\E p \in Path : Change(p)) \/ Tick \/ UNCHANGED vars
  PROVE  VInv'
<1>1. /\ Aside /\ binary' = binary /\ pc' = pc /\ attempt' = attempt /\ wake' = wake
      /\ issued' = issued /\ started' = started
  BY DEF Change, Tick, vars, containerVars, loginVars, resolveVars, Aside
<1>2. Control'
  <2>1. next' = next /\ Len(Work)' = Len(Work) /\ Item' = Item /\ \A p : Cached(p)' <=> Cached(p)
    BY <1>1, AsideKeeps DEF Aside
  <2>2. Cached(Item.path)' <=> Cached(Item.path)
    BY <1>1, <2>1 DEF Cached, Aside
  <2> QED BY <1>1, <2>1, <2>2 DEF VInv, Control
<1>3. SUFFICES now' \in Nat /\ version' \in [Path -> Nat] /\ InTime'
  <2>1. ASSUME now' \in Nat, version' \in [Path -> Nat] PROVE Typed'
    BY <1>1, <2>1, AsideKeeps DEF VInv, Typed
  <2> QED BY <1>1, <1>2, <2>1, AsideKeeps DEF VInv
<1>4. now \in Nat /\ version \in [Path -> Nat] /\ started \in Nat /\ attempt \in Nat /\ wake \in Nat
  BY DEF VInv, Typed
<1>5. CASE \E p \in Path : Change(p)
  <2>1. now' = now
    BY <1>5 DEF Change
  <2>2. version' \in [Path -> Nat]
    BY <1>4, <1>5 DEF Change
  <2> QED BY <1>1, <1>4, <2>1, <2>2 DEF VInv, InTime
<1>6. CASE Tick
  <2>1. now' = now + 1 /\ version' = version
    BY <1>6 DEF Tick
  <2>2. CASE pc = "backoff"
    <3>1. now < wake
      BY <1>6, <2>2 DEF Tick
    <3>2. now + 1 <= wake
      BY <1>4, <3>1
    <3> QED BY <1>1, <1>4, <2>1, <2>2, <3>2 DEF VInv, InTime
  <2>3. CASE pc # "backoff"
    <3>1. now < LoginTimeout
      <4>1. LoginDeadline \in Nat /\ LoginDeadline <= LoginTimeout
        BY <1>4, Numbers, EarliestOfTwo DEF LoginDeadline
      <4>2. ReadDeadline \in Nat /\ ReadDeadline <= LoginTimeout
        BY <1>4, Numbers, EarliestOfThree DEF ReadDeadline
      <4>3. now < LoginDeadline \/ now < ReadDeadline
        BY <1>6, <2>3 DEF Tick
      <4> QED BY <1>4, <4>1, <4>2, <4>3, Numbers
    <3>2. Pause[attempt] \in Nat /\ Pause[attempt] >= Base
      BY <1>4, PausesBounded
    <3>3. now + 1 <= LoginTimeout + (Pause[attempt] - Base)
      BY <1>4, <3>1, <3>2, Numbers
    <3>4. now' <= LoginTimeout + (Pause[attempt'] - Base)
      BY <1>1, <2>1, <3>3
    <3>5. InTime'
      BY <1>1, <2>3, <3>4 DEF VInv, InTime
    <3>6. now' \in Nat /\ version' \in [Path -> Nat]
      BY <1>4, <2>1
    <3> QED BY <3>5, <3>6
  <2> QED BY <2>2, <2>3
<1>7. CASE UNCHANGED vars
  BY <1>4, <1>7 DEF vars, VInv, InTime
<1> QED BY <1>5, <1>6, <1>7

LEMMA NextKeepsVInv == VInv /\ [Next]_vars => VInv'
<1> SUFFICES ASSUME VInv, [Next]_vars PROVE VInv'
  OBVIOUS
<1>1. CASE CopyStep
  BY <1>1, CopyKeepsVInv
<1>2. CASE LoginStep
  BY <1>2, LoginKeepsVInv
<1>3. CASE ResolveStep
  BY <1>3, ResolveKeepsVInv
<1>4. CASE (\E p \in Path : Change(p)) \/ Tick \/ UNCHANGED vars
  BY <1>4, EnvironmentKeepsVInv
<1>5. CASE Done
  BY <1>5, EnvironmentKeepsVInv DEF Done
<1> QED BY <1>1, <1>2, <1>3, <1>4, <1>5 DEF Next

LEMMA Invariant == Spec => []VInv
BY InitVInv, NextKeepsVInv, PTL DEF Spec

-------------------------------------------------------------------------------
(* Theorems *)

\* The application is started only from a whole copy of the wrapper and, unless
\* missing secrets are ignored, with every reference of its environment resolved and
\* every from-path injected whole.
THEOREM StartsOnlyResolved == Spec => []StartsResolved
<1>1. ASSUME VInv PROVE StartsResolved
  <2>1. pc = "exec" => binary = "whole"
    BY <1>1 DEF VInv, Control
  <2>2. ASSUME pc = "exec", ~IgnoreMissing
        PROVE  /\ NoRefs(newEnv)
               /\ \A i \in 1 .. Len(Work) : Answered(Work[i], newEnv)
    <3>1. next > Len(Work) /\ next \in 1 .. Len(Work) + 1 /\ setting \in Settings
      BY <1>1, <2>2 DEF VInv, Control, Typed
    <3>2. Len(Work) \in Nat
      BY <3>1, WorkShape
    <3>3. next - 1 = Len(Work)
      BY <3>1, <3>2
    <3> QED BY <1>1, <2>2, <3>3 DEF VInv, ResolvedSoFar
  <2>3. setting \in Settings
    BY <1>1 DEF VInv, Typed
  <2>4. ASSUME pc = "exec", ~IgnoreMissing, NEW i \in Refs
        PROVE  \E j \in DOMAIN newEnv :
                 /\ newEnv[j].name = Environ[i].name /\ newEnv[j].kind = "secret"
                 /\ newEnv[j].path = Environ[i].path /\ newEnv[j].key = Environ[i].key
                 /\ newEnv[j].key \in Keys[newEnv[j].path]
    <3>1. i \in 1 .. Len(Environ) /\ Environ[i].kind = "ref"
      BY <2>3, WorkShape DEF Refs
    <3>2. i \in 1 .. Len(Work) /\ Work[i] = Environ[i]
      BY <2>3, <3>1, WorkShape
    <3> QED BY <2>2, <2>4, <3>1, <3>2 DEF Answered
  <2>5. ASSUME pc = "exec", ~IgnoreMissing, NEW i \in DOMAIN FromPaths, NEW k \in Keys[FromPaths[i]]
        PROVE  \E j \in DOMAIN newEnv :
                 newEnv[j].name = k /\ newEnv[j].path = FromPaths[i] /\ newEnv[j].key = k
    <3>1. /\ i \in 1 .. Len(FromPaths) /\ Len(Environ) + i \in 1 .. Len(Work)
          /\ Work[Len(Environ) + i] = FromItem(FromPaths[i])
      BY <2>3, WorkShape
    <3>2. PICK w : w = FromPaths[i]
      OBVIOUS
    <3>3. FromItem(w).kind = "from" /\ FromItem(w).path = w
      BY DEF FromItem
    <3>4. Answered(FromItem(w), newEnv)
      BY <2>2, <2>5, <3>1, <3>2
    <3> QED BY <2>5, <3>2, <3>3, <3>4 DEF Answered
  <2>6. ASSUME pc = "exec", ~IgnoreMissing PROVE \A j \in DOMAIN newEnv : newEnv[j].kind # "ref"
    BY <2>2, <2>6 DEF NoRefs
  <2> QED BY <2>1, <2>4, <2>5, <2>6 DEF StartsResolved
<1> QED BY <1>1, Invariant, PTL

\* Whatever failed or was ignored, the application gets each of its own variables, in
\* their order and before the injected ones.
THEOREM VariablesAreKept == Spec => []VariablesKept
<1>1. ASSUME VInv PROVE VariablesKept
  <2>1. SUFFICES ASSUME pc = "exec"
                 PROVE  /\ Len(newEnv) >= Cardinality(Own)
                        /\ \A i \in Own : newEnv[Cardinality(OwnUpTo(i))].name = Environ[i].name
    BY DEF VariablesKept, OwnUpTo
  <2>2. next > Len(Work) /\ next \in 1 .. Len(Work) + 1 /\ setting \in Settings
    BY <1>1, <2>1 DEF VInv, Control, Typed
  <2>3. /\ Own \subseteq 1 .. Len(Environ) /\ Len(Environ) \in Nat /\ Len(FromPaths) \in Nat
        /\ Len(Work) = Len(Environ) + Len(FromPaths)
    BY <2>2, WorkShape DEF Own
  <2>4. \A i \in Own : i \in Nat /\ i <= next - 1 /\ i < next
    BY <2>2, <2>3
  <2>5. OwnUpTo(next - 1) = Own
    BY <2>4 DEF OwnUpTo
  <2> QED BY <1>1, <2>4, <2>5 DEF VInv, KeptSoFar
<1> QED BY <1>1, Invariant, PTL

\* All values injected from one path are of one version of its secret, however often
\* it changed during the startup.
THEOREM PathsAreReadOnce == Spec => []OneVersionPerPath
<1>1. ASSUME VInv PROVE OneVersionPerPath
  BY <1>1 DEF VInv, Fetched, OneVersionPerPath
<1> QED BY <1>1, Invariant, PTL

\* Startup takes no longer than the login timeout and the pauses between the attempts,
\* and leaves at most one token per attempt at the gateway.
THEOREM StartupIsBounded == Spec => []StartupBounded
<1>1. ASSUME VInv PROVE StartupBounded
  <2>1. now \in Nat /\ attempt \in Nat /\ issued \in Nat /\ wake \in Nat
    BY <1>1 DEF VInv, Typed
  <2>2. attempt <= MaxAttempts - 1 /\ issued <= attempt + 1
    BY <1>1 DEF VInv, InTime
  <2>3. issued <= MaxAttempts
    BY <2>1, <2>2, Numbers
  <2>4. PICK a \in Nat : a <= MaxAttempts - 1 /\ now <= LoginTimeout + (Pause[a] - Base)
    <3>1. CASE pc # "backoff"
      BY <1>1, <2>1, <2>2, <3>1 DEF VInv, InTime
    <3>2. CASE pc = "backoff"
      <4>1. attempt < MaxAttempts - 1 /\ now <= wake /\ wake <= LoginTimeout + (Pause[attempt + 1] - Base)
        BY <1>1, <3>2 DEF VInv, InTime
      <4>2. Pause[attempt + 1] \in Nat
        BY <2>1, PausesBounded
      <4>3. attempt + 1 \in Nat /\ attempt + 1 <= MaxAttempts - 1
        BY <2>1, <4>1, Numbers
      <4>4. now <= LoginTimeout + (Pause[attempt + 1] - Base)
        BY <2>1, <4>1, <4>2, Numbers
      <4> QED BY <4>3, <4>4
    <3> QED BY <3>1, <3>2
  <2>5. MaxAttempts - 1 \in Nat
    BY Numbers
  <2>6. Pause[a] <= Pause[MaxAttempts - 1] /\ Pause[a] \in Nat /\ Pause[MaxAttempts - 1] \in Nat
    BY <2>4, <2>5, PausesGrow, PausesBounded
  <2>7. now <= LoginTimeout + (Pause[MaxAttempts - 1] - Base)
    BY <2>1, <2>4, <2>6, Numbers
  <2> QED BY <2>3, <2>7 DEF StartupBounded
<1> QED BY <1>1, Invariant, PTL
==============================================================================
