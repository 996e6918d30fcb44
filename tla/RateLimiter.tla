---------------------------- MODULE RateLimiter ----------------------------
(***************************************************************************)
(* The per-caller token bucket of src/app/ratelimit.py, called by the      *)
(* worker threads of the web server (the "authorize" dependencies of       *)
(* src/app/api.py are synchronous, so requests decide concurrently).       *)
(*                                                                         *)
(* RateLimiter.allow reads the monotonic clock BEFORE it takes the lock:   *)
(* the two halves are two actions, Stamp and Allow, and threads enter the  *)
(* critical section in any order, so a bucket may be charged with a stamp  *)
(* older than the one it was last charged with.                            *)
(*                                                                         *)
(* Units.  The clock advances in ticks of TickSeconds seconds.  Tokens are *)
(* counted in sixtieths, so that the refill rate per_minute / 60.0 of one  *)
(* second is the integer PerMinute: the arithmetic of the code is exact.   *)
(***************************************************************************)
EXTENDS Integers, Dicts

CONSTANTS
  Threads,      \* server threads that may be inside allow() at once
  Principals,   \* keys: an API key or a client host
  PerMinute,    \* settings.rate_limit_per_minute
  TickSeconds,  \* seconds per clock tick
  MaxClock      \* bound: the clock stops here

ASSUME LimiterAssumption ==
  /\ PerMinute \in Nat \ {0}
  /\ TickSeconds \in Nat \ {0}
  /\ MaxClock \in Nat

VARIABLES
  clock,      \* time.monotonic(), in ticks
  calls,      \* the calls between the clock read and the lock: thread -> [key, now]
  buckets,    \* _buckets: principal -> [tokens, last], only those seen so far
  since,      \* history: the start of an observation window, any time
  inWindow,   \* history: admissions per principal stamped at or after since
  total,      \* history: admissions per principal
  latest      \* history: the latest stamp decided per principal

history == <<since, inWindow, total, latest>>
vars    == <<clock, calls, buckets, since, inWindow, total, latest>>

Cost     == 60                        \* one token
Capacity == Cost * PerMinute          \* _capacity
Rate     == PerMinute * TickSeconds   \* _refill_per_sec, over one tick

Time   == 0 .. MaxClock
Bucket == [tokens : Int, last : Time]
Call   == [key : Principals, now : Time]

Lesser(a, b)  == IF a <= b THEN a ELSE b
Greater(a, b) == IF a <= b THEN b ELSE a

(* A plausible bug: a caller never seen before starts with nothing. *)
BucketOfStranger(p, at) == Get(buckets, p, [tokens |-> 0, last |-> at])

(* _buckets.get(key, (_capacity, now)) *)
BucketOf(p, at) == Get(buckets, p, [tokens |-> Capacity, last |-> at])

(* Plausible bugs: the bucket overflows; nothing is ever refilled. *)
RefilledUncapped(b, at) == b.tokens + (at - b.last) * Rate
NeverRefilled(b, at) == b.tokens

(* min(capacity, tokens + (now - last) * refill) *)
Refilled(b, at) == Lesser(Capacity, b.tokens + (at - b.last) * Rate)

(* the tokens a call finds once it holds the lock *)
Available(c) == Refilled(BucketOf(c.key, c.now), c.now)

(* A plausible bug: the stamp is rounded up. *)
StoreRoundedUp(c, left) ==
  buckets' = Put(buckets, c.key, [tokens |-> left, last |-> c.now + 1])

(* _buckets[key] = (left, now) *)
Store(c, left) ==
  buckets' = Put(buckets, c.key, [tokens |-> left, last |-> c.now])

(* allow returns *)
Return(t) == calls' = Pop(calls, t)

Init ==
  /\ clock = 0
  /\ calls = EmptyDict
  /\ buckets = EmptyDict
  /\ since \in Time
  /\ inWindow = [p \in Principals |-> 0]
  /\ total = [p \in Principals |-> 0]
  /\ latest = [p \in Principals |-> 0]

(* allow is entered: now = time.monotonic(), outside the lock *)
Stamp(t, p) ==
  /\ t \notin DOMAIN calls
  /\ calls' = Put(calls, t, [key |-> p, now |-> clock])
  /\ UNCHANGED <<clock, buckets, history>>

(* the critical section, when less than one token is there: return False *)
Reject(t) ==
  /\ t \in DOMAIN calls
  /\ LET c == calls[t] IN
       /\ Available(c) < Cost
       /\ Store(c, Available(c))
       /\ latest' = [latest EXCEPT ![c.key] = Greater(@, c.now)]
  /\ Return(t)
  /\ UNCHANGED <<clock, since, inWindow, total>>

(* the critical section, when a token is there: return True *)
Admit(t) ==
  /\ t \in DOMAIN calls
  /\ LET c == calls[t] IN
       /\ Available(c) >= Cost
       /\ Store(c, Available(c) - Cost)
       /\ total' = [total EXCEPT ![c.key] = @ + 1]
       /\ inWindow' = [inWindow EXCEPT ![c.key] = @ + (IF c.now >= since THEN 1 ELSE 0)]
       /\ latest' = [latest EXCEPT ![c.key] = Greater(@, c.now)]
  /\ Return(t)
  /\ UNCHANGED <<clock, since>>

Tick ==
  /\ clock < MaxClock
  /\ clock' = clock + 1
  /\ UNCHANGED <<calls, buckets, history>>

Next ==
  \/ Tick
  \/ \E t \in Threads :
       \/ \E p \in Principals : Stamp(t, p)
       \/ Reject(t)
       \/ Admit(t)

Spec == Init /\ [][Next]_vars

-----------------------------------------------------------------------------
(* Types.  Tokens may fall below zero: an old stamp takes back the refill  *)
(* that a younger one was given.                                           *)
TypeOK ==
  /\ clock \in Time
  /\ DOMAIN calls \subseteq Threads
  /\ \A t \in DOMAIN calls : calls[t] \in Call /\ calls[t].now <= clock
  /\ DOMAIN buckets \subseteq Principals
  /\ \A p \in DOMAIN buckets : buckets[p] \in Bucket
  /\ since \in Time
  /\ inWindow \in [Principals -> Nat]
  /\ total \in [Principals -> Nat]
  /\ latest \in [Principals -> Time]

(* What the limiter is for ("protects the service and your LLM budget from *)
(* a single caller"): whatever the order in which threads reach the lock,  *)
(* the calls of one caller admitted since any moment are at most a full    *)
(* bucket plus what the time since then refills.                           *)
WindowBound ==
  \A p \in Principals :
    inWindow[p] > 0 => Cost * inWindow[p] <= Capacity + Rate * (clock - since)

(* A refusal is earned: the caller has already been given a full bucket,   *)
(* but for the refill that a stamp overtaken on the way to the lock takes  *)
(* back from the younger stamp that overtook it.                           *)
RefusedOnlyWhenSpent ==
  [][\A t \in Threads :
       Reject(t) =>
         LET c == calls[t] IN
         Cost * (total[c.key] + 1) > Capacity - Rate * (latest'[c.key] - c.now)]_vars

(* Refusals do not feed on themselves: a call stamped one token's worth of *)
(* refill after every earlier call of its caller is never refused, however *)
(* many of those were refused and in whatever order they were decided.     *)
QuietCallerAdmitted ==
  [][\A t \in Threads :
       Reject(t) =>
         LET c == calls[t] IN Rate * (c.now - latest[c.key]) < Cost]_vars
=============================================================================
