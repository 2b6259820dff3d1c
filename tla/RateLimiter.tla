------------------------------ MODULE RateLimiter ------------------------------
(***************************************************************************)
(* ipLimiterSet (internal/server/middleware.go) and its cleanup loop       *)
(* (internal/server/server.go).  `allow` finds or makes the limiter of an  *)
(* address under the set's lock and asks it after unlocking; `cleanup`     *)
(* computes its cutoff before locking and drops idle limiters.  The token  *)
(* bucket itself is golang.org/x/time/rate, modelled from its use here.    *)
(*                                                                         *)
(* Limiters are objects: a request keeps the one it found even when the    *)
(* set has dropped it meanwhile and made another for the same address.     *)
(***************************************************************************)
EXTENDS Integers, FiniteSets

CONSTANTS
  IP, Request,
  Rate,                \* tokens per tick
  ConfiguredBurst,     \* rateLimit.burst
  MaxIdle,             \* 10 minutes, in ticks
  MaxStall,            \* the longest a goroutine is held up between two steps
  Limiter,             \* limiter objects
  Horizon              \* bound on the clock

\* newIPLimiterSet.
Burst == IF ConfiguredBurst <= 0 THEN 1 ELSE ConfiguredBurst

NoLimiter == 0

\* Forgetting a limiter goes unnoticed when an idle bucket is full by then.  The
\* idle time runs from lastUse, which allow notes up to MaxStall before it takes
\* the token.
ASSUME RateLimiterAssumption ==
  /\ Rate \in Nat /\ ConfiguredBurst \in Int /\ MaxIdle \in Nat
  /\ MaxStall \in Nat /\ Horizon \in Nat
  /\ MaxStall <= MaxIdle
  /\ Rate * (MaxIdle - MaxStall) >= Burst

\* Allocation never fails: there is a limiter object for every address.
ASSUME LimiterAssumption ==
  /\ NoLimiter \notin Limiter
  /\ IsFiniteSet(IP) /\ IsFiniteSet(Limiter) /\ Cardinality(Limiter) >= Cardinality(IP)

VARIABLES
  now,
  items,      \* ip -> [limiter, lastUse]
  bucket,     \* limiter -> [tokens, last]: tokens at the instant `last`
  req,        \* request -> [pc, ip, limiter, since]
  sweeper,    \* the cleanup goroutine: [pc, cutoff]
  verdict     \* request -> what it was told

vars == <<now, items, bucket, req, sweeper, verdict>>

Least(a, b) == IF a <= b THEN a ELSE b
NoIP == "none"
Undecided == [ip |-> NoIP, answer |-> "none"]
Idle == [pc |-> "idle", ip |-> NoIP, limiter |-> NoLimiter, since |-> 0]

\* rate.Limiter: the tokens in the bucket now, refilled up to the burst.
Level(l) == Least(Burst, bucket[l].tokens + Rate * (now - bucket[l].last))

InUse == {items[ip].limiter : ip \in DOMAIN items} \cup {req[r].limiter : r \in Request}
FreshLimiter == CHOOSE l \in Limiter : l \notin InUse
Blank == [tokens |-> 0, last |-> 0]
\* The objects after a step: garbage is reset.
Collected(b) == [l \in Limiter |-> IF l \in InUse' THEN b[l] ELSE Blank]

--------------------------------------------------------------------------------
(* Plausible bugs, used to show that the properties can fail. *)

\* lastUse is only set when the limiter is made.
MutantLastUse(ip) == IF ip \in DOMAIN items THEN items[ip].lastUse ELSE now

--------------------------------------------------------------------------------

Init ==
  /\ now = 0
  /\ items = [ip \in {} |-> {}]
  /\ bucket = [l \in Limiter |-> Blank]
  /\ req = [r \in Request |-> Idle]
  /\ sweeper = [pc |-> "waiting", cutoff |-> 0]
  /\ verdict = [r \in Request |-> Undecided]

LastUse(ip) == now

\* allow, under the lock: find or make the limiter, note its use.
Find(r, ip) ==
  LET known == ip \in DOMAIN items
      l == IF known THEN items[ip].limiter ELSE FreshLimiter
  IN  /\ req[r].pc = "idle"
      /\ items' = [i \in DOMAIN items \cup {ip} |->
                     IF i = ip THEN [limiter |-> l, lastUse |-> LastUse(ip)] ELSE items[i]]
      /\ bucket' = IF known THEN bucket ELSE [bucket EXCEPT ![l] = [tokens |-> Burst, last |-> now]]
      /\ req' = [req EXCEPT ![r] = [pc |-> "found", ip |-> ip, limiter |-> l, since |-> now]]
      /\ UNCHANGED <<now, sweeper, verdict>>

\* allow, after the lock: limiter.Allow takes a token or refuses.
Allow(r) ==
  LET l == req[r].limiter
      ok == Level(l) >= 1
  IN  /\ req[r].pc = "found"
      /\ verdict' = [verdict EXCEPT ![r] = [ip |-> req[r].ip,
                                            answer |-> IF ok THEN "admitted" ELSE "denied"]]
      /\ req' = [req EXCEPT ![r] = [Idle EXCEPT !.pc = "told"]]
      /\ UNCHANGED <<now, items, sweeper>>
      /\ bucket' = Collected(IF ok THEN [bucket EXCEPT ![l] = [tokens |-> Level(l) - 1, last |-> now]]
                                   ELSE bucket)

\* The rest of the chain, or the 429.
Done(r) ==
  /\ req[r].pc = "told"
  /\ req' = [req EXCEPT ![r] = Idle]
  /\ verdict' = [verdict EXCEPT ![r] = Undecided]
  /\ UNCHANGED <<now, items, bucket, sweeper>>

CleanupCutoff ==
  /\ sweeper.pc = "waiting"
  /\ sweeper' = [pc |-> "locking", cutoff |-> now - MaxIdle]
  /\ UNCHANGED <<now, items, bucket, req, verdict>>

Cleanup ==
  /\ sweeper.pc = "locking"
  /\ items' = [ip \in {i \in DOMAIN items : ~(items[i].lastUse < sweeper.cutoff)} |-> items[ip]]
  /\ sweeper' = [pc |-> "waiting", cutoff |-> 0]
  /\ UNCHANGED <<now, req, verdict>>
  /\ bucket' = Collected(bucket)

Tick ==
  /\ now < Horizon
  /\ \A r \in Request : req[r].pc = "found" => now < req[r].since + MaxStall
  /\ now' = now + 1
  /\ UNCHANGED <<items, bucket, req, sweeper, verdict>>

Next ==
  \/ \E r \in Request, ip \in IP : Find(r, ip)
  \/ \E r \in Request : Allow(r) \/ Done(r)
  \/ CleanupCutoff \/ Cleanup
  \/ Tick

Spec == Init /\ [][Next]_vars

--------------------------------------------------------------------------------
(* Properties *)

\* While a request is about to ask a limiter, that limiter is still the one the
\* set has for its address: cleanup between the two steps of allow cannot give
\* one address two buckets.
OneBucketPerAddress ==
  \A r \in Request :
    req[r].pc = "found" => req[r].ip \in DOMAIN items /\ items[req[r].ip].limiter = req[r].limiter

Contract == INSTANCE RateContract WITH
              level <- [ip \in IP |-> IF ip \in DOMAIN items THEN Level(items[ip].limiter) ELSE Burst]

\* Cleanup is invisible: every address is treated as if its bucket had been kept
\* for ever, so dropping limiters neither lets more requests through than rate
\* and burst allow nor refuses one that should pass.
ImplementsContract == Contract!Spec
================================================================================
