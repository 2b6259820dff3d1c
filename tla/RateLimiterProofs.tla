--------------------------- MODULE RateLimiterProofs ---------------------------
(***************************************************************************)
(* Per-address rate limiting for every set of addresses and requests and   *)
(* every rate, burst and idle time that refills a bucket: one bucket per   *)
(* address, and dropping idle ones cannot be noticed.                      *)
(***************************************************************************)
EXTENDS RateLimiter, FiniteSetTheorems, TLAPS

TypeOK ==
  /\ now \in Nat
  /\ DOMAIN items \subseteq IP /\ items \in [DOMAIN items -> [limiter : Limiter, lastUse : Nat]]
  /\ bucket \in [Limiter -> [tokens : Nat, last : Nat]]
  /\ req \in [Request -> [pc : {"idle", "found", "told"}, ip : IP \cup {NoIP},
                          limiter : Limiter \cup {NoLimiter}, since : Nat]]
  /\ sweeper \in [pc : {"waiting", "locking"}, cutoff : Int]

\* No two addresses share a limiter.
LimitersDistinct ==
  \A i, j \in DOMAIN items : items[i].limiter = items[j].limiter => i = j

\* A request between the two steps of allow holds the limiter of its address, and
\* its use was noted less than MaxStall ago; the others hold none.
FoundIsNoted ==
  \A r \in Request :
    IF req[r].pc = "found"
    THEN /\ req[r].ip \in DOMAIN items /\ items[req[r].ip].limiter = req[r].limiter
         /\ req[r].since <= items[req[r].ip].lastUse
         /\ now <= req[r].since + MaxStall
    ELSE req[r].limiter = NoLimiter

\* A token is taken at most MaxStall after the use that lastUse notes.
TakenAfterUse ==
  \A ip \in DOMAIN items :
    /\ items[ip].lastUse <= now
    /\ bucket[items[ip].limiter].last <= now
    /\ bucket[items[ip].limiter].last <= items[ip].lastUse + MaxStall

\* The cutoff cleanup computed before it took the lock.
CutoffIsPast == sweeper.pc = "locking" => sweeper.cutoff <= now - MaxIdle

\* The inductive invariant.
IInv == TypeOK /\ LimitersDistinct /\ FoundIsNoted /\ TakenAfterUse /\ CutoffIsPast

--------------------------------------------------------------------------------

LEMMA BurstType == Burst \in Nat \ {0}
BY RateLimiterAssumption DEF Burst

\* A limiter in use is the limiter of some address.
LEMMA UsedIsKept ==
  ASSUME IInv
  PROVE  InUse \subseteq {items[ip].limiter : ip \in DOMAIN items} \cup {NoLimiter}
BY DEF IInv, FoundIsNoted, InUse

\* newIPLimiterSet's map never runs out of limiters: a new address gets one that
\* nothing refers to.
LEMMA FreshExists ==
  ASSUME IInv, NEW ip \in IP, ip \notin DOMAIN items
  PROVE  FreshLimiter \in Limiter /\ FreshLimiter \notin InUse
<1> DEFINE held == {items[i].limiter : i \in DOMAIN items}
<1>1. IsFiniteSet(DOMAIN items) /\ Cardinality(DOMAIN items) < Cardinality(IP)
  <2>1. DOMAIN items \subseteq IP \ {ip}
    BY DEF IInv, TypeOK
  <2>2. IsFiniteSet(IP \ {ip}) /\ Cardinality(IP \ {ip}) = Cardinality(IP) - 1
    BY LimiterAssumption, FS_RemoveElement
  <2>3. IsFiniteSet(DOMAIN items) /\ Cardinality(DOMAIN items) <= Cardinality(IP \ {ip})
    BY <2>1, <2>2, FS_Subset
  <2> QED
    BY <2>2, <2>3, LimiterAssumption, FS_CardinalityType
<1>2. IsFiniteSet(held) /\ Cardinality(held) <= Cardinality(DOMAIN items)
  <2> DEFINE f == [i \in DOMAIN items |-> items[i].limiter]
  <2>1. f \in Surjection(DOMAIN items, held)
    BY DEF Surjection
  <2> QED
    BY <1>1, <2>1, FS_Surjection
<1>3. ~(Limiter \subseteq held)
  <2> SUFFICES ASSUME Limiter \subseteq held PROVE FALSE
    OBVIOUS
  <2>1. Cardinality(Limiter) <= Cardinality(held)
    BY <1>2, FS_Subset
  <2> QED
    BY <1>1, <1>2, <2>1, LimiterAssumption, FS_CardinalityType
<1>4. \E l \in Limiter : l \notin InUse
  BY <1>3, UsedIsKept, LimiterAssumption
<1> QED
  BY <1>4 DEF FreshLimiter

LEMMA InitIInv == Init => IInv
<1> SUFFICES ASSUME Init PROVE IInv
  OBVIOUS
<1> USE DEF Init
<1>1. TypeOK
  BY DEF TypeOK, Blank, Idle
<1>2. LimitersDistinct /\ TakenAfterUse /\ CutoffIsPast
  BY DEF LimitersDistinct, TakenAfterUse, CutoffIsPast
<1>3. FoundIsNoted
  BY DEF FoundIsNoted, Idle
<1> QED
  BY <1>1, <1>2, <1>3 DEF IInv

\* allow, under the lock.
LEMMA FindKeepsIInv ==
  ASSUME IInv, NEW r \in Request, NEW ip \in IP, Find(r, ip)
  PROVE  IInv'
<1> DEFINE l == IF ip \in DOMAIN items THEN items[ip].limiter ELSE FreshLimiter
<1>1. /\ now' = now /\ sweeper' = sweeper
      /\ items' = [i \in DOMAIN items \cup {ip} |->
                     IF i = ip THEN [limiter |-> l, lastUse |-> now] ELSE items[i]]
      /\ bucket' = IF ip \in DOMAIN items THEN bucket
                   ELSE [bucket EXCEPT ![l] = [tokens |-> Burst, last |-> now]]
      /\ req' = [req EXCEPT ![r] = [pc |-> "found", ip |-> ip, limiter |-> l, since |-> now]]
  BY DEF Find, LastUse
<1>2. /\ l \in Limiter
      /\ ip \in DOMAIN items => l = items[ip].limiter
      /\ ip \notin DOMAIN items => \A i \in DOMAIN items : items[i].limiter # l
  BY FreshExists DEF IInv, TypeOK, InUse
<1> HIDE DEF l
<1>3. now \in Nat /\ MaxStall \in Nat
  BY RateLimiterAssumption DEF IInv, TypeOK
<1>4. /\ DOMAIN items' = DOMAIN items \cup {ip}
      /\ items'[ip] = [limiter |-> l, lastUse |-> now]
      /\ \A i \in DOMAIN items : i # ip => items'[i] = items[i]
  BY <1>1
<1>5. TypeOK'
  <2>1. items' \in [DOMAIN items' -> [limiter : Limiter, lastUse : Nat]] /\ DOMAIN items' \subseteq IP
    BY <1>1, <1>2, <1>3 DEF IInv, TypeOK
  <2>2. bucket' \in [Limiter -> [tokens : Nat, last : Nat]]
    BY <1>1, <1>3, BurstType DEF IInv, TypeOK
  <2>3. req' \in [Request -> [pc : {"idle", "found", "told"}, ip : IP \cup {NoIP},
                              limiter : Limiter \cup {NoLimiter}, since : Nat]]
    BY <1>1, <1>2, <1>3 DEF IInv, TypeOK
  <2> QED
    BY <1>1, <2>1, <2>2, <2>3 DEF IInv, TypeOK
<1>6. LimitersDistinct'
  BY <1>2, <1>4 DEF IInv, LimitersDistinct
<1>7. FoundIsNoted'
  <2> SUFFICES ASSUME NEW q \in Request
               PROVE  IF req'[q].pc = "found"
                      THEN /\ req'[q].ip \in DOMAIN items'
                           /\ items'[req'[q].ip].limiter = req'[q].limiter
                           /\ req'[q].since <= items'[req'[q].ip].lastUse
                           /\ now <= req'[q].since + MaxStall
                      ELSE req'[q].limiter = NoLimiter
    BY <1>1 DEF FoundIsNoted
  <2>1. CASE q = r
    BY <1>1, <1>3, <1>4, <2>1 DEF IInv, TypeOK
  <2>2. CASE q # r
    <3>1. req'[q] = req[q]
      BY <1>1, <2>2 DEF IInv, TypeOK
    <3>2. CASE req[q].pc = "found"
      <4>1. /\ req[q].ip \in DOMAIN items /\ items[req[q].ip].limiter = req[q].limiter
            /\ req[q].since <= items[req[q].ip].lastUse /\ items[req[q].ip].lastUse <= now
            /\ now <= req[q].since + MaxStall
            /\ req[q].since \in Nat /\ items[req[q].ip].lastUse \in Nat
        BY <3>2 DEF IInv, TypeOK, FoundIsNoted, TakenAfterUse
      <4>2. CASE req[q].ip = ip
        BY <1>2, <1>3, <1>4, <3>1, <3>2, <4>1, <4>2
      <4>3. CASE req[q].ip # ip
        BY <1>4, <3>1, <3>2, <4>1, <4>3
      <4> QED
        BY <4>2, <4>3
    <3>3. CASE req[q].pc # "found"
      BY <3>1, <3>3 DEF IInv, FoundIsNoted
    <3> QED
      BY <3>2, <3>3
  <2> QED
    BY <2>1, <2>2
<1>8. TakenAfterUse'
  <2> SUFFICES ASSUME NEW i \in DOMAIN items'
               PROVE  /\ items'[i].lastUse <= now
                      /\ bucket'[items'[i].limiter].last <= now
                      /\ bucket'[items'[i].limiter].last <= items'[i].lastUse + MaxStall
    BY <1>1 DEF TakenAfterUse
  <2>1. CASE i = ip /\ ip \in DOMAIN items
    <3>1. bucket' = bucket /\ bucket[l].last \in Nat /\ bucket[l].last <= now
      BY <1>1, <1>2, <2>1 DEF IInv, TypeOK, TakenAfterUse
    <3> QED
      BY <1>3, <1>4, <2>1, <3>1
  <2>2. CASE i = ip /\ ip \notin DOMAIN items
    <3>1. bucket'[l].last = now
      BY <1>1, <1>2, <2>2 DEF IInv, TypeOK
    <3> QED
      BY <1>3, <1>4, <2>2, <3>1
  <2>3. CASE i # ip
    <3>1. i \in DOMAIN items /\ items'[i] = items[i]
      BY <1>4, <2>3
    <3>2. items[i].limiter \in Limiter
      BY <3>1 DEF IInv, TypeOK
    <3>3. bucket'[items[i].limiter] = bucket[items[i].limiter]
      BY <1>1, <1>2, <3>1, <3>2 DEF IInv, TypeOK
    <3> QED
      BY <3>1, <3>3 DEF IInv, TakenAfterUse
  <2> QED
    BY <2>1, <2>2, <2>3
<1>9. CutoffIsPast'
  BY <1>1 DEF IInv, CutoffIsPast
<1> QED
  BY <1>5, <1>6, <1>7, <1>8, <1>9 DEF IInv

\* Products of the rate.
LEMMA RateTimes ==
  /\ \A d \in Nat : Rate * d \in Nat
  /\ \A d \in Int : Rate * (d + 1) = Rate * d + Rate
  /\ \A d, e \in Nat : d <= e => Rate * d <= Rate * e
<1> Rate \in Nat
  BY RateLimiterAssumption
<1>1. \A d \in Nat : Rate * d \in Nat
  OBVIOUS
<1>2. \A d \in Int : Rate * (d + 1) = Rate * d + Rate
  OBVIOUS
<1>3. ASSUME NEW d \in Nat, NEW e \in Nat, d <= e PROVE Rate * d <= Rate * e
  <2>1. e - d \in Nat /\ Rate * (e - d) \in Nat
    BY <1>3, <1>1
  <2>2. Rate * (e - d) = Rate * e - Rate * d
    OBVIOUS
  <2>3. Rate * e \in Nat /\ Rate * d \in Nat
    BY <1>1
  <2> QED
    BY <2>1, <2>2, <2>3
<1> QED
  BY <1>1, <1>2, <1>3

\* A bucket's level is a number of tokens within the burst.
LEMMA LevelType ==
  ASSUME IInv, NEW l \in Limiter, bucket[l].last <= now
  PROVE  Level(l) \in Nat /\ Level(l) <= Burst
<1>1. bucket[l].tokens \in Nat /\ bucket[l].last \in Nat /\ now \in Nat
  BY DEF IInv, TypeOK
<1>2. now - bucket[l].last \in Nat
  BY <1>1
<1>3. Rate * (now - bucket[l].last) \in Nat
  BY <1>2, RateTimes
<1> QED
  BY <1>1, <1>3, BurstType DEF Level, Least

\* The limiters the set holds survive garbage collection.
LEMMA KeptIsNotCollected ==
  ASSUME NEW b, bucket' = Collected(b), NEW ip \in DOMAIN items', items'[ip].limiter \in Limiter
  PROVE  bucket'[items'[ip].limiter] = b[items'[ip].limiter]
<1>1. items'[ip].limiter \in InUse'
  BY DEF InUse
<1> QED
  BY <1>1 DEF Collected

LEMMA CollectedType ==
  ASSUME NEW b \in [Limiter -> [tokens : Nat, last : Nat]], bucket' = Collected(b)
  PROVE  bucket' \in [Limiter -> [tokens : Nat, last : Nat]]
BY DEF Collected, Blank

\* allow, after the lock.
LEMMA AllowKeepsIInv ==
  ASSUME IInv, NEW r \in Request, Allow(r)
  PROVE  IInv'
<1> DEFINE l == req[r].limiter
           b == IF Level(l) >= 1 THEN [bucket EXCEPT ![l] = [tokens |-> Level(l) - 1, last |-> now]]
                                 ELSE bucket
<1>1. /\ now' = now /\ sweeper' = sweeper /\ items' = items
      /\ req' = [req EXCEPT ![r] = [Idle EXCEPT !.pc = "told"]]
      /\ bucket' = Collected(b)
      /\ req[r].pc = "found"
  BY DEF Allow
<1>2. /\ req[r].ip \in DOMAIN items /\ items[req[r].ip].limiter = l
      /\ req[r].since <= items[req[r].ip].lastUse /\ now <= req[r].since + MaxStall
      /\ bucket[l].last <= now
  BY <1>1 DEF IInv, FoundIsNoted, TakenAfterUse
<1>3. /\ l \in Limiter /\ now \in Nat /\ MaxStall \in Nat
      /\ req[r].since \in Nat /\ items[req[r].ip].lastUse \in Nat
  BY <1>2, RateLimiterAssumption DEF IInv, TypeOK
<1>4. Level(l) \in Nat
  BY <1>2, <1>3, LevelType
<1>5. b \in [Limiter -> [tokens : Nat, last : Nat]]
  BY <1>3, <1>4 DEF IInv, TypeOK
<1>6. \A k \in Limiter : b[k] = bucket[k] \/ (k = l /\ b[k].last = now)
  BY <1>3 DEF IInv, TypeOK
<1> HIDE DEF l, b
<1>7. TypeOK'
  <2>1. req' \in [Request -> [pc : {"idle", "found", "told"}, ip : IP \cup {NoIP},
                              limiter : Limiter \cup {NoLimiter}, since : Nat]]
    BY <1>1 DEF IInv, TypeOK, Idle
  <2> QED
    BY <1>1, <1>5, <2>1, CollectedType DEF IInv, TypeOK
<1>8. LimitersDistinct' /\ CutoffIsPast'
  BY <1>1 DEF IInv, LimitersDistinct, CutoffIsPast
<1>9. FoundIsNoted'
  <2>1. \A q \in Request : q # r => req'[q] = req[q]
    BY <1>1 DEF IInv, TypeOK
  <2>2. req'[r].pc = "told" /\ req'[r].limiter = NoLimiter
    BY <1>1 DEF IInv, TypeOK, Idle
  <2> QED
    BY <1>1, <2>1, <2>2 DEF IInv, FoundIsNoted
<1>10. TakenAfterUse'
  <2> SUFFICES ASSUME NEW i \in DOMAIN items
               PROVE  /\ items[i].lastUse <= now
                      /\ bucket'[items[i].limiter].last <= now
                      /\ bucket'[items[i].limiter].last <= items[i].lastUse + MaxStall
    BY <1>1 DEF TakenAfterUse
  <2>1. items[i].limiter \in Limiter
    BY DEF IInv, TypeOK
  <2>2. bucket'[items[i].limiter] = b[items[i].limiter]
    BY <1>1, <2>1, KeptIsNotCollected
  <2>3. CASE items[i].limiter = l /\ b[items[i].limiter].last = now
    <3>1. i = req[r].ip
      BY <1>2, <2>3 DEF IInv, LimitersDistinct
    <3>2. items[i].lastUse <= now
      BY DEF IInv, TakenAfterUse
    <3> QED
      BY <1>2, <1>3, <2>2, <2>3, <3>1, <3>2
  <2>4. CASE b[items[i].limiter] = bucket[items[i].limiter]
    BY <2>2, <2>4 DEF IInv, TakenAfterUse
  <2> QED
    BY <1>6, <2>1, <2>3, <2>4
<1> QED
  BY <1>7, <1>8, <1>9, <1>10 DEF IInv

LEMMA DoneKeepsIInv ==
  ASSUME IInv, NEW r \in Request, Done(r)
  PROVE  IInv'
<1>1. /\ now' = now /\ items' = items /\ bucket' = bucket /\ sweeper' = sweeper
      /\ req' = [req EXCEPT ![r] = Idle]
  BY DEF Done
<1>2. TypeOK'
  BY <1>1 DEF IInv, TypeOK, Idle
<1>3. FoundIsNoted'
  BY <1>1 DEF IInv, TypeOK, FoundIsNoted, Idle
<1>4. LimitersDistinct' /\ TakenAfterUse' /\ CutoffIsPast'
  BY <1>1 DEF IInv, LimitersDistinct, TakenAfterUse, CutoffIsPast
<1> QED
  BY <1>2, <1>3, <1>4 DEF IInv

\* cleanup drops an address only if no request is between the two steps of allow
\* for it: such a request noted its use no longer than MaxStall ago.
LEMMA CleanupKeepsIInv ==
  ASSUME IInv, Cleanup
  PROVE  IInv'
<1> DEFINE kept == {i \in DOMAIN items : ~(items[i].lastUse < sweeper.cutoff)}
<1>1. /\ now' = now /\ req' = req /\ sweeper' = [pc |-> "waiting", cutoff |-> 0]
      /\ items' = [ip \in kept |-> items[ip]]
      /\ bucket' = Collected(bucket)
      /\ sweeper.cutoff <= now - MaxIdle
  BY DEF Cleanup, IInv, CutoffIsPast
<1>2. DOMAIN items' = kept /\ kept \subseteq DOMAIN items /\ \A i \in kept : items'[i] = items[i]
  BY <1>1
<1>3. \A i \in kept : bucket'[items'[i].limiter] = bucket[items[i].limiter]
  <2> SUFFICES ASSUME NEW i \in kept PROVE bucket'[items'[i].limiter] = bucket[items[i].limiter]
    OBVIOUS
  <2>1. items'[i].limiter \in Limiter /\ i \in DOMAIN items'
    BY <1>2 DEF IInv, TypeOK
  <2> QED
    BY <1>1, <1>2, <2>1, KeptIsNotCollected
<1>4. TypeOK'
  <2>1. bucket' \in [Limiter -> [tokens : Nat, last : Nat]]
    BY <1>1, CollectedType DEF IInv, TypeOK
  <2>2. DOMAIN items' \subseteq IP /\ items' \in [DOMAIN items' -> [limiter : Limiter, lastUse : Nat]]
    BY <1>1, <1>2 DEF IInv, TypeOK
  <2> QED
    BY <1>1, <2>1, <2>2 DEF IInv, TypeOK
<1>5. LimitersDistinct'
  BY <1>2 DEF IInv, LimitersDistinct
<1>6. FoundIsNoted'
  <2>1. ASSUME NEW r \in Request, req[r].pc = "found"
        PROVE  req[r].ip \in kept
    <3>1. /\ req[r].ip \in DOMAIN items /\ req[r].since <= items[req[r].ip].lastUse
          /\ now <= req[r].since + MaxStall
          /\ req[r].since \in Nat /\ items[req[r].ip].lastUse \in Nat /\ now \in Nat
          /\ sweeper.cutoff \in Int
      BY <2>1 DEF IInv, TypeOK, FoundIsNoted
    <3> QED
      BY <1>1, <3>1, RateLimiterAssumption
  <2> QED
    BY <1>1, <1>2, <2>1 DEF IInv, FoundIsNoted
<1>7. TakenAfterUse'
  BY <1>1, <1>2, <1>3 DEF IInv, TakenAfterUse
<1>8. CutoffIsPast'
  BY <1>1 DEF CutoffIsPast
<1> QED
  BY <1>4, <1>5, <1>6, <1>7, <1>8 DEF IInv

LEMMA CutoffKeepsIInv ==
  ASSUME IInv, CleanupCutoff
  PROVE  IInv'
<1>1. /\ now' = now /\ items' = items /\ bucket' = bucket /\ req' = req
      /\ sweeper' = [pc |-> "locking", cutoff |-> now - MaxIdle]
  BY DEF CleanupCutoff
<1>2. now \in Nat /\ MaxIdle \in Nat
  BY RateLimiterAssumption DEF IInv, TypeOK
<1>3. TypeOK' /\ CutoffIsPast'
  BY <1>1, <1>2 DEF IInv, TypeOK, CutoffIsPast
<1>4. LimitersDistinct' /\ FoundIsNoted' /\ TakenAfterUse'
  BY <1>1 DEF IInv, LimitersDistinct, FoundIsNoted, TakenAfterUse
<1> QED
  BY <1>3, <1>4 DEF IInv

LEMMA TickKeepsIInv ==
  ASSUME IInv, Tick
  PROVE  IInv'
<1>1. /\ now' = now + 1 /\ items' = items /\ bucket' = bucket /\ req' = req /\ sweeper' = sweeper
      /\ \A r \in Request : req[r].pc = "found" => now < req[r].since + MaxStall
  BY DEF Tick
<1>2. now \in Nat /\ MaxIdle \in Nat /\ MaxStall \in Nat
  BY RateLimiterAssumption DEF IInv, TypeOK
<1>3. TypeOK' /\ LimitersDistinct'
  BY <1>1, <1>2 DEF IInv, TypeOK, LimitersDistinct
<1>4. FoundIsNoted'
  BY <1>1, <1>2 DEF IInv, TypeOK, FoundIsNoted
<1>5. TakenAfterUse'
  <2>1. \A i \in DOMAIN items : /\ items[i].lastUse \in Nat
                                /\ bucket[items[i].limiter].last \in Nat
    BY DEF IInv, TypeOK
  <2> QED
    BY <1>1, <1>2, <2>1 DEF IInv, TakenAfterUse
<1>6. CutoffIsPast'
  BY <1>1, <1>2 DEF IInv, TypeOK, CutoffIsPast
<1> QED
  BY <1>3, <1>4, <1>5, <1>6 DEF IInv

LEMMA NextKeepsIInv == IInv /\ [Next]_vars => IInv'
<1> SUFFICES ASSUME IInv, [Next]_vars PROVE IInv'
  OBVIOUS
<1>1. CASE UNCHANGED vars
  BY <1>1 DEF vars, IInv, TypeOK, LimitersDistinct, FoundIsNoted, TakenAfterUse, CutoffIsPast
<1> QED
  BY <1>1, FindKeepsIInv, AllowKeepsIInv, DoneKeepsIInv, CutoffKeepsIInv, CleanupKeepsIInv,
     TickKeepsIInv DEF Next

\* Between the two steps of allow the limiter a request holds stays the one of its
\* address: cleanup cannot give one address two buckets, whatever the interleaving.
THEOREM OneBucket == Spec => []OneBucketPerAddress
<1>1. IInv => OneBucketPerAddress
  BY DEF IInv, FoundIsNoted, OneBucketPerAddress
<1> QED
  BY <1>1, InitIInv, NextKeepsIInv, PTL DEF Spec

--------------------------------------------------------------------------------
(* RateContract *)

\* The level of a bucket at an instant.
LevelAt(b, t) == Least(Burst, b.tokens + Rate * (t - b.last))

LEMMA LevelIsLevelAt == \A l : Level(l) = LevelAt(bucket[l], now)
BY DEF Level, LevelAt

\* A bucket noted at an instant is then at the level noted, and from one tick to the
\* next it gains the rate, up to the burst.
LEMMA LevelArithmetic ==
  /\ \A t, n \in Nat : n <= Burst => LevelAt([tokens |-> n, last |-> t], t) = n
  /\ \A b \in [tokens : Nat, last : Nat], t \in Nat :
       b.last <= t => LevelAt(b, t + 1) = Least(Burst, LevelAt(b, t) + Rate)
<1>0. Rate \in Nat /\ Burst \in Nat
  BY RateLimiterAssumption, BurstType
<1>1. ASSUME NEW t \in Nat, NEW n \in Nat, n <= Burst
      PROVE  LevelAt([tokens |-> n, last |-> t], t) = n
  <2>1. Rate * (t - t) = 0
    BY <1>0
  <2> QED
    BY <1>0, <1>1, <2>1 DEF LevelAt, Least
<1>2. ASSUME NEW b \in [tokens : Nat, last : Nat], NEW t \in Nat, b.last <= t
      PROVE  LevelAt(b, t + 1) = Least(Burst, LevelAt(b, t) + Rate)
  <2> DEFINE d == t - b.last
  <2>1. d \in Nat /\ (t + 1) - b.last = d + 1 /\ b.tokens \in Nat
    BY <1>2
  <2> HIDE DEF d
  <2>2. Rate * (d + 1) = Rate * d + Rate /\ Rate * d \in Nat
    BY <2>1, RateTimes, SMTT(30)
  <2>3. LevelAt(b, t + 1) = Least(Burst, b.tokens + (Rate * d + Rate))
    BY <2>1, <2>2 DEF LevelAt
  <2>4. LevelAt(b, t) = Least(Burst, b.tokens + Rate * d)
    BY DEF LevelAt, d
  <2> QED
    BY <1>0, <2>1, <2>2, <2>3, <2>4 DEF Least
<1> QED
  BY <1>1, <1>2

\* The refinement mapping: an address that is not in the set has a full bucket.
LevelOf(ip) == IF ip \in DOMAIN items THEN LevelAt(bucket[items[ip].limiter], now) ELSE Burst
level == [ip \in IP |-> LevelOf(ip)]

LEMMA Mapping ==
  level = [ip \in IP |-> IF ip \in DOMAIN items THEN Level(items[ip].limiter) ELSE Burst]
BY DEF level, LevelOf, Level, LevelAt

\* The contract's state and steps under the mapping.
LEMMA ContractUnderMapping ==
  ASSUME NEW r \in Request, NEW ip \in IP
  PROVE  /\ level' = level /\ verdict' = verdict => UNCHANGED Contract!vars
         /\ /\ level[ip] >= 1 /\ level' = [level EXCEPT ![ip] = @ - 1]
            /\ verdict' = [verdict EXCEPT ![r] = [ip |-> ip, answer |-> "admitted"]]
            => Contract!Admit(r, ip)
         /\ /\ level[ip] < 1 /\ level' = level
            /\ verdict' = [verdict EXCEPT ![r] = [ip |-> ip, answer |-> "denied"]]
            => Contract!Deny(r, ip)
         /\ level' = level /\ verdict' = [verdict EXCEPT ![r] = Undecided] => Contract!Forget(r)
<1>1. level' = [i \in IP |-> IF i \in DOMAIN items THEN Level(items[i].limiter) ELSE Burst]'
  BY DEF level, LevelOf, Level, LevelAt
<1>2. level' = level /\ verdict' = verdict => UNCHANGED Contract!vars
  BY <1>1, Mapping DEF Contract!vars
<1>3. (/\ level[ip] >= 1 /\ level' = [level EXCEPT ![ip] = @ - 1]
       /\ verdict' = [verdict EXCEPT ![r] = [ip |-> ip, answer |-> "admitted"]])
      => Contract!Admit(r, ip)
  BY <1>1, Mapping DEF Contract!Admit
<1>4. (/\ level[ip] < 1 /\ level' = level
       /\ verdict' = [verdict EXCEPT ![r] = [ip |-> ip, answer |-> "denied"]])
      => Contract!Deny(r, ip)
  BY <1>1, Mapping DEF Contract!Deny
<1>5. level' = level /\ verdict' = [verdict EXCEPT ![r] = Undecided] => Contract!Forget(r)
  BY <1>1, Mapping DEF Contract!Forget, Undecided, NoIP, Contract!Undecided
<1> QED
  BY <1>2, <1>3, <1>4, <1>5

\* Making a limiter is invisible: it starts full, as the address it is for was.
LEMMA FindKeepsLevel ==
  ASSUME IInv, NEW r \in Request, NEW ip \in IP, Find(r, ip)
  PROVE  level' = level /\ verdict' = verdict
<1>0. PICK l : l = IF ip \in DOMAIN items THEN items[ip].limiter ELSE FreshLimiter
  OBVIOUS
<1>1. /\ now' = now /\ verdict' = verdict
      /\ items' = [i \in DOMAIN items \cup {ip} |->
                     IF i = ip THEN [limiter |-> l, lastUse |-> now] ELSE items[i]]
      /\ bucket' = IF ip \in DOMAIN items THEN bucket
                   ELSE [bucket EXCEPT ![l] = [tokens |-> Burst, last |-> now]]
  BY <1>0 DEF Find, LastUse
<1>2. /\ l \in Limiter
      /\ ip \in DOMAIN items => l = items[ip].limiter
      /\ ip \notin DOMAIN items => \A i \in DOMAIN items : items[i].limiter # l
  BY <1>0, FreshExists DEF IInv, TypeOK, InUse
<1>3. now \in Nat /\ bucket \in [Limiter -> [tokens : Nat, last : Nat]]
  BY DEF IInv, TypeOK
<1>4. ASSUME NEW i \in IP PROVE LevelOf(i)' = LevelOf(i)
  <2>1. CASE i \in DOMAIN items
    <3>1. i \in DOMAIN items' /\ items'[i].limiter = items[i].limiter
      BY <1>1, <1>2, <2>1
    <3>2. bucket'[items[i].limiter] = bucket[items[i].limiter]
      BY <1>1, <1>2, <1>3, <2>1
    <3> QED
      BY <1>1, <2>1, <3>1, <3>2 DEF LevelOf
  <2>2. CASE i \notin DOMAIN items /\ i = ip
    <3>1. bucket'[l] = [tokens |-> Burst, last |-> now]
      BY <1>1, <1>2, <1>3, <2>2
    <3>2. LevelAt(bucket'[l], now) = Burst
      BY <1>3, <3>1, LevelArithmetic, BurstType
    <3>3. i \in DOMAIN items' /\ items'[i].limiter = l
      BY <1>1, <2>2
    <3> QED
      BY <1>1, <2>2, <3>2, <3>3 DEF LevelOf
  <2>3. CASE i \notin DOMAIN items /\ i # ip
    <3>1. i \notin DOMAIN items'
      BY <1>1, <2>3
    <3> QED
      BY <2>3, <3>1 DEF LevelOf
  <2> QED
    BY <2>1, <2>2, <2>3
<1> QED
  BY <1>1, <1>4 DEF level

\* limiter.Allow, asked after the lock, takes a token from the address's own bucket
\* or finds that bucket empty.
LEMMA AllowDecides ==
  ASSUME IInv, NEW r \in Request, Allow(r)
  PROVE  \E ip \in IP : Contract!Admit(r, ip) \/ Contract!Deny(r, ip)
<1>0. PICK l, ip, n : l = req[r].limiter /\ ip = req[r].ip /\ n = Level(req[r].limiter)
  OBVIOUS
<1> DEFINE b == IF n >= 1 THEN [bucket EXCEPT ![l] = [tokens |-> n - 1, last |-> now]] ELSE bucket
<1>1. /\ now' = now /\ items' = items /\ bucket' = Collected(b) /\ req[r].pc = "found"
      /\ verdict' = [verdict EXCEPT ![r] = [ip |-> ip,
                        answer |-> IF n >= 1 THEN "admitted" ELSE "denied"]]
  BY <1>0 DEF Allow
<1>2. ip \in DOMAIN items /\ items[ip].limiter = l /\ bucket[l].last <= now
  BY <1>0, <1>1 DEF IInv, FoundIsNoted, TakenAfterUse
<1>3. ip \in IP /\ l \in Limiter /\ now \in Nat /\ bucket \in [Limiter -> [tokens : Nat, last : Nat]]
  BY <1>2 DEF IInv, TypeOK
<1>4. n \in Nat /\ n <= Burst
  BY <1>0, <1>2, <1>3, LevelType
<1>5. \A i \in DOMAIN items : items[i].limiter \in Limiter /\ bucket'[items[i].limiter] = b[items[i].limiter]
  <2> HIDE DEF b
  <2> SUFFICES ASSUME NEW i \in DOMAIN items
               PROVE  items[i].limiter \in Limiter /\ bucket'[items[i].limiter] = b[items[i].limiter]
    OBVIOUS
  <2>1. items[i].limiter \in Limiter
    BY DEF IInv, TypeOK
  <2>2. i \in DOMAIN items' /\ items'[i].limiter = items[i].limiter
    BY <1>1
  <2> QED
    BY <1>1, <2>1, <2>2, KeptIsNotCollected
<1>6. level[ip] = n
  BY <1>0, <1>2, <1>3, LevelIsLevelAt DEF level, LevelOf
<1>7. ASSUME NEW i \in IP, i # ip PROVE LevelOf(i)' = LevelOf(i)
  <2>1. CASE i \in DOMAIN items
    <3>1. items[i].limiter # l
      BY <1>2, <1>7, <2>1 DEF IInv, LimitersDistinct
    <3>2. b[items[i].limiter] = bucket[items[i].limiter]
      BY <1>3, <1>5, <2>1, <3>1
    <3> QED
      BY <1>1, <1>5, <2>1, <3>2 DEF LevelOf
  <2>2. CASE i \notin DOMAIN items
    BY <1>1, <2>2 DEF LevelOf
  <2> QED
    BY <2>1, <2>2
<1>8. CASE n >= 1
  <2>1. bucket'[l] = [tokens |-> n - 1, last |-> now]
    BY <1>2, <1>3, <1>5, <1>8
  <2>2. n - 1 \in Nat /\ n - 1 <= Burst
    BY <1>4, <1>8, BurstType
  <2>3. LevelAt(bucket'[l], now) = n - 1
    BY <1>3, <2>1, <2>2, LevelArithmetic
  <2>4. LevelOf(ip)' = level[ip] - 1
    BY <1>1, <1>2, <1>6, <2>3 DEF LevelOf
  <2>5. level' = [level EXCEPT ![ip] = @ - 1]
    BY <1>3, <1>7, <2>4 DEF level
  <2>6. Contract!Admit(r, ip)
    BY <1>1, <1>3, <1>6, <1>8, <2>5, ContractUnderMapping
  <2> QED
    BY <1>3, <2>6
<1>9. CASE ~(n >= 1)
  <2>1. LevelOf(ip)' = LevelOf(ip)
    BY <1>1, <1>2, <1>5, <1>9 DEF LevelOf
  <2>2. level' = level
    BY <1>7, <2>1 DEF level
  <2>3. level[ip] < 1
    BY <1>4, <1>6, <1>9
  <2>4. Contract!Deny(r, ip)
    BY <1>1, <1>3, <1>9, <2>2, <2>3, ContractUnderMapping
  <2> QED
    BY <1>3, <2>4
<1> QED
  BY <1>8, <1>9

\* A bucket that cleanup drops is full: it was last drawn from at most MaxStall after
\* lastUse, which is more than MaxIdle ago, and that refills it.
LEMMA CleanupKeepsLevel ==
  ASSUME IInv, Cleanup
  PROVE  level' = level /\ verdict' = verdict
<1> DEFINE kept == {i \in DOMAIN items : ~(items[i].lastUse < sweeper.cutoff)}
<1>1. /\ now' = now /\ verdict' = verdict
      /\ items' = [ip \in kept |-> items[ip]]
      /\ bucket' = Collected(bucket)
      /\ sweeper.cutoff <= now - MaxIdle
  BY DEF Cleanup, IInv, CutoffIsPast
<1>2. ASSUME NEW i \in IP PROVE LevelOf(i)' = LevelOf(i)
  <2>1. CASE i \in kept
    <3>1. i \in DOMAIN items /\ i \in DOMAIN items' /\ items'[i] = items[i] /\ items'[i].limiter \in Limiter
      BY <1>1, <2>1 DEF IInv, TypeOK
    <3>2. bucket'[items'[i].limiter] = bucket[items[i].limiter]
      BY <1>1, <3>1, KeptIsNotCollected
    <3> QED
      BY <1>1, <3>1, <3>2 DEF LevelOf
  <2>2. CASE i \in DOMAIN items /\ i \notin kept
    <3> DEFINE b == bucket[items[i].limiter]
    <3>1. /\ b.tokens \in Nat /\ b.last \in Nat /\ items[i].lastUse \in Nat /\ now \in Nat
          /\ sweeper.cutoff \in Int
      BY <2>2 DEF IInv, TypeOK
    <3>2. b.last <= items[i].lastUse + MaxStall /\ items[i].lastUse < sweeper.cutoff /\ b.last <= now
      BY <2>2 DEF IInv, TakenAfterUse
    <3> HIDE DEF b
    <3>3. /\ now - b.last \in Nat /\ MaxIdle - MaxStall \in Nat
          /\ MaxIdle - MaxStall <= now - b.last
      BY <1>1, <3>1, <3>2, RateLimiterAssumption
    <3>4. Rate * (MaxIdle - MaxStall) <= Rate * (now - b.last) /\ Rate * (now - b.last) \in Nat
      BY <3>3, RateTimes
    <3>5. Rate * (MaxIdle - MaxStall) \in Nat /\ Rate * (MaxIdle - MaxStall) >= Burst
      BY <3>3, RateTimes, RateLimiterAssumption
    <3>6. LevelAt(b, now) = Burst
      BY <3>1, <3>4, <3>5, BurstType DEF LevelAt, Least
    <3>7. i \notin DOMAIN items'
      BY <1>1, <2>2
    <3> QED
      BY <2>2, <3>6, <3>7 DEF LevelOf, b
  <2>3. CASE i \notin DOMAIN items
    <3>1. i \notin DOMAIN items'
      BY <1>1, <2>3
    <3> QED
      BY <2>3, <3>1 DEF LevelOf
  <2> QED
    BY <2>1, <2>2, <2>3
<1> QED
  BY <1>1, <1>2 DEF level

\* A tick refills every bucket, kept or not.
LEMMA TickRefills ==
  ASSUME IInv, Tick
  PROVE  Contract!Refill
<1>1. /\ now' = now + 1 /\ items' = items /\ bucket' = bucket /\ verdict' = verdict
  BY DEF Tick
<1>2. now \in Nat /\ Rate \in Nat
  BY RateLimiterAssumption DEF IInv, TypeOK
<1>3. ASSUME NEW i \in IP PROVE LevelOf(i)' = Least(Burst, LevelOf(i) + Rate)
  <2>1. CASE i \in DOMAIN items
    <3>1. bucket[items[i].limiter] \in [tokens : Nat, last : Nat] /\ bucket[items[i].limiter].last <= now
      BY <2>1 DEF IInv, TypeOK, TakenAfterUse
    <3>2. LevelAt(bucket[items[i].limiter], now + 1) = Least(Burst, LevelAt(bucket[items[i].limiter], now) + Rate)
      BY <1>2, <3>1, LevelArithmetic
    <3> QED
      BY <1>1, <2>1, <3>2 DEF LevelOf
  <2>2. CASE i \notin DOMAIN items
    <3>1. Least(Burst, Burst + Rate) = Burst
      BY <1>2, BurstType DEF Least
    <3> QED
      BY <1>1, <2>2, <3>1 DEF LevelOf
  <2> QED
    BY <2>1, <2>2
<1>4. level' = [ip \in IP |-> Least(Burst, level[ip] + Rate)]
  BY <1>3 DEF level
<1>5. level' = [i \in IP |-> IF i \in DOMAIN items THEN Level(items[i].limiter) ELSE Burst]'
  BY DEF level, LevelOf, Level, LevelAt
<1> QED
  BY <1>1, <1>4, <1>5, Mapping DEF Contract!Refill, Least, Contract!Least

LEMMA StepSimulation ==
  ASSUME IInv, [Next]_vars
  PROVE  [Contract!Next]_(Contract!vars)
<1>0. ASSUME level' = level, verdict' = verdict PROVE UNCHANGED Contract!vars
  <2>1. level' = [i \in IP |-> IF i \in DOMAIN items THEN Level(items[i].limiter) ELSE Burst]'
    BY DEF level, LevelOf, Level, LevelAt
  <2> QED
    BY <1>0, <2>1, Mapping DEF Contract!vars
<1>1. ASSUME NEW r \in Request, NEW ip \in IP, Find(r, ip) PROVE UNCHANGED Contract!vars
  BY <1>0, <1>1, FindKeepsLevel
<1>2. ASSUME NEW r \in Request, Allow(r) PROVE Contract!Next
  BY <1>2, AllowDecides DEF Contract!Next
<1>3. ASSUME items' = items, bucket' = bucket, now' = now PROVE level' = level
  BY <1>3 DEF level, LevelOf
<1>4. ASSUME NEW r \in Request, Done(r) PROVE Contract!Next
  <2>1. level' = level /\ verdict' = [verdict EXCEPT ![r] = Undecided]
    BY <1>3, <1>4 DEF Done
  <2>2. level' = [i \in IP |-> IF i \in DOMAIN items THEN Level(items[i].limiter) ELSE Burst]'
    BY DEF level, LevelOf, Level, LevelAt
  <2>3. Contract!Forget(r)
    BY <2>1, <2>2, Mapping DEF Contract!Forget, Undecided, NoIP, Contract!Undecided
  <2> QED
    BY <2>3 DEF Contract!Next
<1>5. CASE CleanupCutoff \/ UNCHANGED vars
  BY <1>0, <1>3, <1>5 DEF CleanupCutoff, vars
<1>6. CASE Cleanup
  BY <1>0, <1>6, CleanupKeepsLevel
<1>7. CASE Tick
  BY <1>7, TickRefills DEF Contract!Next
<1> QED
  BY <1>1, <1>2, <1>4, <1>5, <1>6, <1>7 DEF Next

\* ipLimiterSet implements the contract: every address is treated as if its bucket
\* were kept for ever, although cleanup drops idle ones and runs between the two
\* steps of allow.
THEOREM LimiterImplementsContract == Spec => ImplementsContract
<1>1. Init => Contract!Init
  <2> SUFFICES ASSUME Init PROVE Contract!Init
    OBVIOUS
  <2>1. level = [ip \in IP |-> Burst]
    BY DEF Init, level, LevelOf
  <2> QED
    BY <2>1, Mapping DEF Init, Contract!Init, Undecided, NoIP, Contract!Undecided
<1>2. IInv /\ [Next]_vars => [Contract!Next]_(Contract!vars)
  BY StepSimulation
<1> QED
  BY <1>1, <1>2, InitIInv, NextKeepsIInv, PTL DEF Spec, ImplementsContract, Contract!Spec
================================================================================
