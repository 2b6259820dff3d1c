----------------------------- MODULE CacheContract -----------------------------
(***************************************************************************)
(* What a backend may rely on when it asks internal/cache: a map from      *)
(* paths to answers (a value, or "no such secret") that are good until a   *)
(* fixed instant.  The cache may forget an answer at any moment, but it    *)
(* never prolongs one, never changes one, and never answers past its       *)
(* instant.  How it chooses what to forget is no part of the contract.     *)
(***************************************************************************)
EXTENDS Integers

CONSTANTS Path, Value, NoValue, TTL, NegativeTTL

VARIABLES
  now,      \* the clock
  content   \* the answers in force: path -> [answer, until]

vars == <<now, content>>

Answer == Value \cup {NoValue}
TTLOf(answer) == IF answer = NoValue THEN NegativeTTL ELSE TTL

Only(keep) == [p \in keep |-> content[p]]

Init == now = 0 /\ content = [p \in {} |-> {}]

\* Recording an answer may cost the cache any other ones.
Put(p, answer) ==
  /\ \E keep \in SUBSET (DOMAIN content \ {p}) :
       content' = [q \in keep \cup {p} |->
                     IF q = p THEN [answer |-> answer, until |-> now + TTLOf(answer)]
                              ELSE content[q]]
  /\ UNCHANGED now

Forget == \E keep \in SUBSET DOMAIN content : content' = Only(keep) /\ UNCHANGED now

\* An answer is in force through the instant `until` and not after it.
Tick ==
  /\ now' = now + 1
  /\ content' = Only({p \in DOMAIN content : now' <= content[p].until})

Next == (\E p \in Path, answer \in Answer : Put(p, answer)) \/ Forget \/ Tick

Spec == Init /\ [][Next]_vars
================================================================================
