------------------------------- MODULE RateLimit -------------------------------
(***************************************************************************)
(* The rate limiter before the REST API: fixed-window counters in Redis,   *)
(* one per caller and a tighter one for sign-in attempts ("try"), which    *)
(* pass both.  When Redis does not answer the request is let through.      *)
(***************************************************************************)
EXTENDS Requests

CONSTANT Limit   \* the most calls a window admits, by key

VARIABLES
  counters,  \* the keys in Redis: [count, expires]
  admitted,  \* history: the requests admitted in the current window, by key
  stuck      \* history: keys that nobody will set to expire

limiterVars == <<counters, admitted, stuck>>

LimiterOps == {"try", "ask"}
Keys == {"auth", "caller"}

ASSUME AdmissionAssumption == Limit \in [Keys -> Nat]

RateLimitInit ==
  /\ counters = [k \in Keys |-> [count |-> 0, expires |-> FALSE]]
  /\ admitted = [k \in Keys |-> {}]
  /\ stuck = {}

\* isAuthAbuseTarget: which counters a request passes, one after the other.
ArriveAtLimiter(c) ==
  /\ At(c, LimiterOps, "idle")
  /\ Keep(c, IF Op(c) = "try" THEN "auth" ELSE "caller", "count")
  /\ UNCHANGED limiterVars

NextKey(c, k) == IF k = "auth" THEN Keep(c, "caller", "count") ELSE Done(c)

\* Broken variant: one call too many.
OverBySome(count, k) == count > Limit[k] + 1
Over(count, k) == count > Limit[k]

\* Allow: INCR, whose answer decides; the first call of a window owes it its EXPIRE.
Allow(c) ==
  /\ pc[c] = "count"
  /\ LET k == mem[c]
         count == counters[k].count + 1
     IN  /\ counters' = [counters EXCEPT ![k].count = count]
         /\ admitted' = IF Over(count, k) THEN admitted
                                          ELSE [admitted EXCEPT ![k] = @ \cup {c}]
         /\ IF count = 1 THEN Goto(c, "expire")
            ELSE IF Over(count, k) THEN Done(c) ELSE NextKey(c, k)
  /\ UNCHANGED stuck

SetExpiry(c) ==
  /\ pc[c] = "expire"
  /\ counters' = [counters EXCEPT ![mem[c]].expires = TRUE]
  /\ NextKey(c, mem[c])
  /\ UNCHANGED <<admitted, stuck>>

\* The statement under way gives no answer; it may have run all the same.  The first INCR
\* of a window owes its EXPIRE, which nobody sets when it is not known to have run.
Unanswered(c) ==
  LET k == mem[c]
      counting == pc[c] = "count"
      counted == [counters EXCEPT ![k].count = @ + 1]
      expiring == [counters EXCEPT ![k].expires = TRUE]
  IN  /\ pc[c] \in {"count", "expire"}
      /\ \/ counters' = counters /\ stuck' = stuck \cup (IF counting THEN {} ELSE {k})
         \/ counting /\ counters' = counted /\ stuck' = stuck \cup (IF counters[k].count = 0 THEN {k} ELSE {})
         \/ ~counting /\ counters' = expiring /\ stuck' = stuck
      /\ UNCHANGED admitted

\* Redis does not answer: the request goes on, and so it does past the second counter.
FailOpen(c) ==
  /\ Op(c) \in LimiterOps
  /\ IF mem[c] = "auth" THEN Drops(c, "caller", "count") ELSE Drops(c, NONE, "done")
  /\ Unanswered(c)

DiesInLimiter(c) == Op(c) \in LimiterOps /\ Fails(c) /\ Unanswered(c)

\* Redis drops the key when its window is over.
WindowPasses(k) ==
  /\ counters[k].expires
  /\ counters' = [counters EXCEPT ![k] = [count |-> 0, expires |-> FALSE]]
  /\ admitted' = [admitted EXCEPT ![k] = {}]
  /\ UNCHANGED <<job, cut, requests, stuck>>

RateLimitNext ==
  \/ \E c \in Calls :
       \/ (ArriveAtLimiter(c) \/ Allow(c) \/ SetExpiry(c)) /\ UNCHANGED <<job, cut>>
       \/ FailOpen(c) \/ DiesInLimiter(c)
  \/ \E k \in Keys : WindowPasses(k)

-----------------------------------------------------------------------------
(* Properties *)

RateLimitTypeOK ==
  /\ counters \in [Keys -> [count : 0..Cardinality(Calls), expires : BOOLEAN]]
  /\ admitted \in [Keys -> SUBSET Calls] /\ stuck \subseteq Keys

\* A window admits no more than its limit of the requests it answered, and a key that
\* turns callers away is one that will end (client.go:63-65), however requests interleave;
\* all but a key whose EXPIRE was lost, or never sent since the first INCR went unanswered:
\* it turns its caller away for good.
WindowsHold ==
  \A k \in Keys : /\ Cardinality(admitted[k]) <= Limit[k]
                  /\ Over(counters[k].count, k) =>
                       \/ counters[k].expires
                       \/ \E c \in Calls : pc[c] = "expire" /\ mem[c] = k
                       \/ k \in stuck
=============================================================================
