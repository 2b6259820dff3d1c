----------------------------- MODULE RateContract -----------------------------
(***************************************************************************)
(* What per-IP rate limiting promises: every source address has one token  *)
(* bucket for ever, full at first, refilled at a fixed rate up to its      *)
(* burst; a request is admitted exactly when the bucket holds a token, and *)
(* takes it.  Nothing is said of how few buckets are kept in memory.       *)
(***************************************************************************)
EXTENDS Integers

CONSTANTS IP, Request, Rate, Burst

VARIABLES
  level,     \* ip -> tokens in its bucket
  verdict    \* request -> [ip, answer]: what it was last told, if anything

vars == <<level, verdict>>

Least(a, b) == IF a <= b THEN a ELSE b
Undecided == [ip |-> "none", answer |-> "none"]

Init == level = [ip \in IP |-> Burst] /\ verdict = [r \in Request |-> Undecided]

Admit(r, ip) ==
  /\ level[ip] >= 1
  /\ level' = [level EXCEPT ![ip] = @ - 1]
  /\ verdict' = [verdict EXCEPT ![r] = [ip |-> ip, answer |-> "admitted"]]

Deny(r, ip) ==
  /\ level[ip] < 1
  /\ verdict' = [verdict EXCEPT ![r] = [ip |-> ip, answer |-> "denied"]]
  /\ UNCHANGED level

Forget(r) == verdict' = [verdict EXCEPT ![r] = Undecided] /\ UNCHANGED level

Refill == level' = [ip \in IP |-> Least(Burst, level[ip] + Rate)] /\ UNCHANGED verdict

Next ==
  \/ \E r \in Request, ip \in IP : Admit(r, ip) \/ Deny(r, ip)
  \/ \E r \in Request : Forget(r)
  \/ Refill

Spec == Init /\ [][Next]_vars
===============================================================================
