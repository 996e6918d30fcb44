------------------------- MODULE RateLimiter_proofs -------------------------
(***************************************************************************)
(* Theorems about RateLimiter, for every number of threads and callers and *)
(* every configured rate.                                                  *)
(*                                                                         *)
(* TypeOK is inductive.  WindowBound is not: it speaks of admissions and   *)
(* of the clock, while the next admission is decided by the bucket.  The   *)
(* missing link is the value  tokens - Rate * last  of a bucket, which     *)
(* refilling never raises, whatever stamp it is done with (a refill moves  *)
(* both terms together, the cap only lowers it), and which each admission  *)
(* lowers by one token.  Charged bounds it from above and Earned from      *)
(* below.                                                                  *)
(***************************************************************************)
EXTENDS RateLimiter, TLAPS

(* What the admissions of the window have cost is missing from the bucket. *)
Charged ==
  \A p \in Principals :
    inWindow[p] > 0 =>
      /\ p \in DOMAIN buckets
      /\ Cost * inWindow[p] + buckets[p].tokens - Rate * buckets[p].last
           <= Capacity - Rate * since

(* What is missing from the bucket has been admitted, and only admissions  *)
(* take tokens.                                                            *)
Earned ==
  \A p \in DOMAIN buckets :
    LET b == buckets[p] IN
    /\ b.last <= latest[p]
    /\ b.tokens - Rate * b.last >= Capacity - Cost * total[p] - Rate * latest[p]
    /\ b.tokens - Rate * b.last >= 0 - Rate * latest[p]

IInv == TypeOK /\ WindowBound /\ Charged /\ Earned

-----------------------------------------------------------------------------
LEMMA Arithmetic ==
  /\ Cost \in Nat /\ Capacity \in Nat /\ Rate \in Nat
  /\ Rate >= 1 /\ Capacity >= Cost /\ Cost = 60
BY LimiterAssumption, Z3 DEF Cost, Capacity, Rate

(* An older time has refilled less. *)
LEMMA RateMonotone ==
  ASSUME NEW a \in Int, NEW b \in Int, a <= b
  PROVE  /\ Rate * a \in Int /\ Rate * b \in Int
         /\ Rate * a <= Rate * b
BY Arithmetic, Z3

LEMMA RateLinear ==
  ASSUME NEW a \in Int, NEW b \in Int
  PROVE  /\ Rate * a \in Int /\ Rate * b \in Int
         /\ Rate * (a - b) = Rate * a - Rate * b
         /\ (a - b) * Rate = Rate * a - Rate * b
BY Arithmetic, Z3

(* What a call finds: never more than a full bucket, and, short of a full  *)
(* bucket, exactly what was left plus the refill between the two stamps.   *)
LEMMA Found ==
  ASSUME TypeOK, NEW c \in Call
  PROVE  /\ Available(c) \in Int
         /\ Available(c) <= Capacity
         /\ c.key \in DOMAIN buckets =>
              Available(c) - Rate * c.now
                <= buckets[c.key].tokens - Rate * buckets[c.key].last
         /\ \/ Available(c) = Capacity
            \/ /\ c.key \in DOMAIN buckets
               /\ Available(c) - Rate * c.now
                    = buckets[c.key].tokens - Rate * buckets[c.key].last
<1> USE Arithmetic
<1>1. c.key \in Principals /\ c.now \in Int
  BY DEF Call, Time
<1>2. CASE c.key \in DOMAIN buckets
  <2> DEFINE b == buckets[c.key]
  <2>1. b.tokens \in Int /\ b.last \in Int
    BY <1>2 DEF TypeOK, Bucket, Time
  <2>2. (c.now - b.last) * Rate = Rate * c.now - Rate * b.last
        /\ Rate * c.now \in Int /\ Rate * b.last \in Int
    BY <1>1, <2>1, RateLinear
  <2>3. Available(c) = Lesser(Capacity, b.tokens + (c.now - b.last) * Rate)
    BY <1>2 DEF Available, Refilled, BucketOf, Get
  <2> HIDE DEF b
  <2>4. Available(c) = Lesser(Capacity, b.tokens + (Rate * c.now - Rate * b.last))
    BY <2>2, <2>3
  <2> QED
    BY <1>2, <2>1, <2>2, <2>4 DEF Lesser, b
<1>3. CASE c.key \notin DOMAIN buckets
  <2>1. Available(c) = Lesser(Capacity, Capacity + (c.now - c.now) * Rate)
    BY <1>3 DEF Available, Refilled, BucketOf, Get
  <2>2. (c.now - c.now) * Rate = 0
    BY <1>1
  <2> QED
    BY <1>3, <2>1, <2>2 DEF Lesser
<1> QED
  BY <1>2, <1>3

(* What a call stores: the bucket of its caller, and no other. *)
LEMMA Stored ==
  ASSUME TypeOK, NEW c \in Call, NEW left \in Int, Store(c, left)
  PROVE  /\ DOMAIN buckets' = DOMAIN buckets \cup {c.key}
         /\ buckets'[c.key] = [tokens |-> left, last |-> c.now]
         /\ \A p \in DOMAIN buckets : p # c.key => buckets'[p] = buckets[p]
BY DEF Store, Put, TypeOK

-----------------------------------------------------------------------------
(* A decision keeps the types: shared by Reject and Admit. *)
LEMMA DecisionType ==
  ASSUME TypeOK, NEW t \in DOMAIN calls, NEW left \in Int,
         Store(calls[t], left), Return(t),
         latest' = [latest EXCEPT ![calls[t].key] = Greater(@, calls[t].now)]
  PROVE  /\ DOMAIN calls' \subseteq Threads
         /\ \A u \in DOMAIN calls' : calls'[u] \in Call /\ calls'[u].now <= clock
         /\ DOMAIN buckets' \subseteq Principals
         /\ \A p \in DOMAIN buckets' : buckets'[p] \in Bucket
         /\ latest' \in [Principals -> Time]
<1> DEFINE c == calls[t]
<1>1. c \in Call /\ c.key \in Principals /\ c.now \in Time
  BY DEF TypeOK, Call
<1>2. /\ DOMAIN buckets' = DOMAIN buckets \cup {c.key}
      /\ buckets'[c.key] = [tokens |-> left, last |-> c.now]
      /\ \A p \in DOMAIN buckets : p # c.key => buckets'[p] = buckets[p]
  BY <1>1, Stored
<1>3. \A p \in DOMAIN buckets' : buckets'[p] \in Bucket
  BY <1>1, <1>2 DEF TypeOK, Bucket
<1>4. latest' \in [Principals -> Time]
  BY <1>1 DEF TypeOK, Greater
<1> QED
  BY <1>1, <1>2, <1>3, <1>4 DEF TypeOK, Return, Pop, Restrict

THEOREM TypeCorrect == Spec => []TypeOK
<1>1. Init => TypeOK
  BY LimiterAssumption DEF Init, TypeOK, Time, EmptyDict
<1>2. TypeOK /\ [Next]_vars => TypeOK'
  <2> SUFFICES ASSUME TypeOK, [Next]_vars PROVE TypeOK'
    OBVIOUS
  <2>1. CASE Tick
    BY <2>1, LimiterAssumption DEF Tick, TypeOK, history, Time, Call
  <2>2. ASSUME NEW t \in Threads, NEW p \in Principals, Stamp(t, p) PROVE TypeOK'
    BY <2>2 DEF Stamp, TypeOK, history, Time, Call, Put
  <2>3. ASSUME NEW t \in Threads, Reject(t) PROVE TypeOK'
    <3>1. t \in DOMAIN calls /\ calls[t] \in Call /\ Available(calls[t]) \in Int
      BY <2>3, Found DEF Reject, TypeOK
    <3> QED
      BY <2>3, <3>1, DecisionType DEF Reject, TypeOK
  <2>4. ASSUME NEW t \in Threads, Admit(t) PROVE TypeOK'
    <3>1. t \in DOMAIN calls /\ calls[t] \in Call /\ Available(calls[t]) - Cost \in Int
      BY <2>4, Found, Arithmetic DEF Admit, TypeOK
    <3>2. total' \in [Principals -> Nat] /\ inWindow' \in [Principals -> Nat]
      BY <2>4, <3>1 DEF Admit, TypeOK, Call
    <3> QED
      BY <2>4, <3>1, <3>2, DecisionType DEF Admit, TypeOK
  <2>5. CASE UNCHANGED vars
    BY <2>5 DEF vars, TypeOK
  <2> QED
    BY <2>1, <2>2, <2>3, <2>4, <2>5 DEF Next
<1> QED
  BY <1>1, <1>2, PTL DEF Spec

-----------------------------------------------------------------------------
(* A decision keeps Earned.  It leaves left in the bucket: all of what it  *)
(* found when it refuses, one token less when it admits.                   *)
LEMMA DecisionEarned ==
  ASSUME TypeOK, TypeOK', Earned, NEW t \in DOMAIN calls,
         NEW taken \in {0, 1},
         taken = 1 => Available(calls[t]) >= Cost,
         Store(calls[t], Available(calls[t]) - Cost * taken),
         total' = [total EXCEPT ![calls[t].key] = @ + taken],
         latest' = [latest EXCEPT ![calls[t].key] = Greater(@, calls[t].now)]
  PROVE  Earned'
<1> USE Arithmetic
<1> DEFINE c == calls[t]
           k == c.key
           left == Available(c) - Cost * taken
<1>1. c \in Call /\ k \in Principals /\ c.now \in Time
  BY DEF TypeOK, Call
<1>2. left \in Int
  BY <1>1, Found
<1>3. /\ DOMAIN buckets' = DOMAIN buckets \cup {k}
      /\ buckets'[k] = [tokens |-> left, last |-> c.now]
      /\ \A p \in DOMAIN buckets : p # k => buckets'[p] = buckets[p]
  BY <1>1, <1>2, Stored
<1>4. /\ latest'[k] \in Int /\ c.now \in Int /\ latest[k] \in Int
      /\ c.now <= latest'[k] /\ latest[k] <= latest'[k]
      /\ total'[k] = total[k] + taken
      /\ \A p \in Principals \ {k} : latest'[p] = latest[p] /\ total'[p] = total[p]
      /\ total[k] \in Nat
  BY <1>1 DEF TypeOK, Greater, Time
<1>5. /\ Rate * c.now <= Rate * latest'[k]
      /\ Rate * latest[k] <= Rate * latest'[k]
      /\ Rate * c.now \in Int /\ Rate * latest'[k] \in Int /\ Rate * latest[k] \in Int
  BY <1>4, RateMonotone
<1>6. /\ left - Rate * c.now >= Capacity - Cost * total'[k] - Rate * latest'[k]
      /\ left - Rate * c.now >= 0 - Rate * latest'[k]
  <2>1. CASE Available(c) = Capacity
    BY <1>4, <1>5, <2>1
  <2>2. CASE /\ k \in DOMAIN buckets
             /\ Available(c) - Rate * c.now
                  = buckets[k].tokens - Rate * buckets[k].last
    <3>1. /\ Available(c) - Rate * c.now
               >= Capacity - Cost * total[k] - Rate * latest[k]
          /\ Available(c) - Rate * c.now >= 0 - Rate * latest[k]
      BY <2>2 DEF Earned
    <3>2. Available(c) \in Int
      BY <1>1, Found
    <3>3. CASE taken = 0
      BY <1>4, <1>5, <3>1, <3>2, <3>3
    <3>4. CASE taken = 1
      BY <1>4, <1>5, <3>1, <3>2, <3>4
    <3> QED
      BY <3>3, <3>4
  <2> QED
    BY <1>1, <2>1, <2>2, Found
<1> QED
  BY <1>1, <1>3, <1>4, <1>6 DEF Earned, TypeOK

(* A decision keeps Charged and WindowBound. *)
LEMMA DecisionCharged ==
  ASSUME TypeOK, TypeOK', Charged, WindowBound, NEW t \in DOMAIN calls,
         NEW taken \in {0, 1},
         taken = 1 => Available(calls[t]) >= Cost,
         Store(calls[t], Available(calls[t]) - Cost * taken),
         inWindow' = [inWindow EXCEPT ![calls[t].key] =
                        @ + (IF calls[t].now >= since THEN taken ELSE 0)],
         UNCHANGED <<clock, since>>
  PROVE  Charged' /\ WindowBound'
<1> USE Arithmetic
<1> DEFINE c == calls[t]
           k == c.key
           found == Available(c)
           left == found - Cost * taken
           counted == IF c.now >= since THEN taken ELSE 0
<1>1. /\ c \in Call /\ k \in Principals /\ c.now \in Time /\ c.now \in Int
      /\ c.now <= clock /\ clock \in Int /\ since \in Int /\ since' = since
  BY DEF TypeOK, Call, Time
<1>2. found \in Int /\ left \in Int /\ found <= Capacity
  BY <1>1, Found
<1>3. /\ DOMAIN buckets' = DOMAIN buckets \cup {k}
      /\ buckets'[k] = [tokens |-> left, last |-> c.now]
      /\ \A p \in DOMAIN buckets : p # k => buckets'[p] = buckets[p]
  BY <1>1, <1>2, Stored
<1>4. /\ inWindow[k] \in Nat /\ inWindow'[k] = inWindow[k] + counted
      /\ \A p \in Principals \ {k} : inWindow'[p] = inWindow[p]
      /\ counted \in {0, 1} /\ counted <= taken
      /\ counted = 1 => taken = 1 /\ since <= c.now
  BY <1>1 DEF TypeOK
<1>5. /\ Rate * c.now \in Int /\ Rate * since \in Int /\ Rate * clock \in Int
      /\ Rate * c.now <= Rate * clock
      /\ since <= c.now => Rate * since <= Rate * c.now
      /\ Rate * (clock - since) = Rate * clock - Rate * since
  BY <1>1, RateMonotone, RateLinear
<1>6. ASSUME inWindow'[k] > 0
      PROVE  Cost * inWindow'[k] + left - Rate * c.now <= Capacity - Rate * since
  <2>1. CASE inWindow[k] > 0
    <3>1. /\ k \in DOMAIN buckets
          /\ Cost * inWindow[k] + buckets[k].tokens - Rate * buckets[k].last
               <= Capacity - Rate * since
      BY <1>1, <2>1 DEF Charged
    <3>2. found - Rate * c.now <= buckets[k].tokens - Rate * buckets[k].last
      BY <1>1, <3>1, Found
    <3>3. buckets[k].tokens \in Int /\ Rate * buckets[k].last \in Int
      BY <3>1, RateLinear DEF TypeOK, Bucket, Time
    <3>4. Cost * inWindow[k] + found - Rate * c.now <= Capacity - Rate * since
      BY <1>2, <1>4, <1>5, <3>1, <3>2, <3>3
    <3> HIDE DEF found, counted
    <3> QED
      BY <1>2, <1>4, <1>5, <3>4
  <2>2. CASE inWindow[k] = 0
    BY <1>2, <1>4, <1>5, <1>6, <2>2
  <2> QED
    BY <1>4, <2>1, <2>2
<1>7. Charged'
  <2> SUFFICES ASSUME NEW p \in Principals, inWindow'[p] > 0
               PROVE  /\ p \in DOMAIN buckets'
                      /\ Cost * inWindow'[p] + buckets'[p].tokens - Rate * buckets'[p].last
                           <= Capacity - Rate * since
    BY <1>1 DEF Charged, Capacity, Rate, Cost
  <2>1. CASE p = k
    BY <1>3, <1>6, <2>1
  <2>2. CASE p # k
    BY <1>3, <1>4, <2>2 DEF Charged
  <2> QED
    BY <2>1, <2>2
<1>8. ASSUME counted = 1
      PROVE  Cost * inWindow'[k] <= Capacity + Rate * (clock - since)
  <2>1. left >= 0 /\ inWindow'[k] > 0
    BY <1>2, <1>4, <1>8
  <2> HIDE DEF left
  <2> QED
    BY <1>2, <1>4, <1>5, <1>6, <2>1
<1>9. WindowBound'
  <2> SUFFICES ASSUME NEW p \in Principals, inWindow'[p] > 0
               PROVE  Cost * inWindow'[p] <= Capacity + Rate * (clock - since)
    BY DEF WindowBound, Capacity, Rate, Cost
  <2>1. CASE p = k /\ counted = 1
    BY <1>8, <2>1
  <2>2. CASE p # k \/ counted = 0
    <3>1. inWindow'[p] = inWindow[p]
      BY <1>1, <1>4, <2>2 DEF TypeOK
    <3> QED
      BY <3>1 DEF WindowBound
  <2> QED
    BY <1>4, <2>1, <2>2
<1> QED
  BY <1>7, <1>9

-----------------------------------------------------------------------------
LEMMA Invariance == Spec => []IInv
<1>1. Init => IInv
  <2> SUFFICES ASSUME Init PROVE IInv
    OBVIOUS
  <2>1. TypeOK
    BY LimiterAssumption DEF Init, TypeOK, Time, EmptyDict
  <2>2. WindowBound /\ Charged /\ Earned
    BY DEF Init, WindowBound, Charged, Earned, EmptyDict
  <2> QED
    BY <2>1, <2>2 DEF IInv
<1>2. TypeOK' /\ IInv /\ [Next]_vars => IInv'
  <2> SUFFICES ASSUME TypeOK', IInv, [Next]_vars PROVE IInv'
    OBVIOUS
  <2> USE DEF IInv
  <2>1. CASE Tick
    <3>1. /\ clock' \in Int /\ clock \in Int /\ since \in Int /\ clock <= clock'
          /\ UNCHANGED <<buckets, history>>
      BY <2>1 DEF Tick, TypeOK, Time
    <3>2. Rate * (clock - since) <= Rate * (clock' - since)
      BY <3>1, RateMonotone
    <3>3. WindowBound'
      <4> SUFFICES ASSUME NEW p \in Principals, inWindow[p] > 0
                   PROVE  Cost * inWindow[p] <= Capacity + Rate * (clock' - since)
        BY <3>1 DEF WindowBound, history, Capacity, Rate, Cost
      <4>1. Cost * inWindow[p] <= Capacity + Rate * (clock - since)
        BY DEF WindowBound
      <4>2. /\ Cost * inWindow[p] \in Int
            /\ Rate * (clock' - since) \in Int /\ Rate * (clock - since) \in Int
        BY <3>1, Arithmetic, RateLinear DEF TypeOK
      <4> QED
        BY <3>2, <4>1, <4>2, Arithmetic
    <3> QED
      BY <3>1, <3>3 DEF Charged, Earned, history, Capacity, Rate, Cost
  <2>2. ASSUME NEW t \in Threads, NEW p \in Principals, Stamp(t, p) PROVE IInv'
    BY <2>2 DEF Stamp, WindowBound, Charged, Earned, history, Capacity, Rate, Cost
  <2>3. ASSUME NEW t \in Threads, Reject(t) PROVE IInv'
    <3>1. t \in DOMAIN calls /\ calls[t] \in Call /\ calls[t].key \in Principals
      BY <2>3 DEF Reject, TypeOK, Call
    <3>2. /\ Store(calls[t], Available(calls[t]) - Cost * 0)
          /\ 0 = 1 => Available(calls[t]) >= Cost
      BY <2>3, <3>1, Found, Arithmetic DEF Reject
    <3>3. /\ latest' = [latest EXCEPT ![calls[t].key] = Greater(@, calls[t].now)]
          /\ total' = [total EXCEPT ![calls[t].key] = @ + 0]
          /\ inWindow' = [inWindow EXCEPT ![calls[t].key] =
                            @ + (IF calls[t].now >= since THEN 0 ELSE 0)]
          /\ UNCHANGED <<clock, since>>
      BY <2>3, <3>1 DEF Reject, TypeOK
    <3>4. Earned'
      BY <3>1, <3>2, <3>3, 0 \in {0, 1}, DecisionEarned
    <3>5. Charged' /\ WindowBound'
      BY <3>1, <3>2, <3>3, 0 \in {0, 1}, DecisionCharged
    <3> QED
      BY <3>4, <3>5
  <2>4. ASSUME NEW t \in Threads, Admit(t) PROVE IInv'
    <3>1. t \in DOMAIN calls /\ calls[t] \in Call /\ calls[t].key \in Principals
      BY <2>4 DEF Admit, TypeOK, Call
    <3>2. /\ Store(calls[t], Available(calls[t]) - Cost * 1)
          /\ Available(calls[t]) >= Cost
      BY <2>4, <3>1, Arithmetic DEF Admit
    <3>3. /\ latest' = [latest EXCEPT ![calls[t].key] = Greater(@, calls[t].now)]
          /\ total' = [total EXCEPT ![calls[t].key] = @ + 1]
          /\ inWindow' = [inWindow EXCEPT ![calls[t].key] =
                            @ + (IF calls[t].now >= since THEN 1 ELSE 0)]
          /\ UNCHANGED <<clock, since>>
      BY <2>4, <3>1 DEF Admit, TypeOK
    <3>4. Earned'
      BY <3>1, <3>2, <3>3, 1 \in {0, 1}, DecisionEarned
    <3>5. Charged' /\ WindowBound'
      BY <3>1, <3>2, <3>3, 1 \in {0, 1}, DecisionCharged
    <3> QED
      BY <3>4, <3>5
  <2>5. CASE UNCHANGED vars
    BY <2>5 DEF vars, WindowBound, Charged, Earned, Capacity, Rate, Cost
  <2> QED
    BY <2>1, <2>2, <2>3, <2>4, <2>5 DEF Next
<1> QED
  BY <1>1, <1>2, TypeCorrect, PTL DEF Spec

(* The rate limit holds for every interleaving, rate and number of callers. *)
THEOREM RateLimited == Spec => []WindowBound
<1>1. IInv => WindowBound
  BY DEF IInv
<1> QED
  BY <1>1, Invariance, PTL

(* No refusal is unearned. *)
THEOREM RefusalEarned == Spec => RefusedOnlyWhenSpent
<1>1. ASSUME IInv, IInv', NEW t \in Threads, Reject(t)
      PROVE  LET c == calls[t] IN
             Cost * (total[c.key] + 1) > Capacity - Rate * (latest'[c.key] - c.now)
  <2> DEFINE c == calls[t]
             k == c.key
  <2>1. /\ t \in DOMAIN calls /\ c \in Call /\ k \in Principals /\ c.now \in Int
        /\ TypeOK /\ Available(c) \in Int /\ Available(c) < Cost
    BY <1>1, Found DEF Reject, IInv, TypeOK, Call, Time
  <2>2. /\ k \in DOMAIN buckets' /\ buckets'[k] = [tokens |-> Available(c), last |-> c.now]
        /\ total' = total
    BY <1>1, <2>1, Stored DEF Reject
  <2>3. Available(c) - Rate * c.now >= Capacity - Cost * total[k] - Rate * latest'[k]
    BY <1>1, <2>2, Arithmetic DEF IInv, Earned, Capacity, Rate, Cost
  <2>4. latest'[k] \in Int /\ total[k] \in Int
    BY <1>1, <2>1 DEF IInv, TypeOK, Time
  <2>5. /\ Rate * (latest'[k] - c.now) = Rate * latest'[k] - Rate * c.now
        /\ Rate * latest'[k] \in Int /\ Rate * c.now \in Int
    BY <2>1, <2>4, RateLinear
  <2> QED
    BY <2>1, <2>3, <2>4, <2>5, Arithmetic
<1>2. IInv /\ IInv' => \A t \in Threads :
        Reject(t) => LET c == calls[t] IN
          Cost * (total[c.key] + 1) > Capacity - Rate * (latest'[c.key] - c.now)
  BY <1>1
<1> QED
  BY <1>2, Invariance, PTL DEF RefusedOnlyWhenSpent

(* A caller who pauses for one token's worth of refill is admitted. *)
THEOREM QuietAdmitted == Spec => QuietCallerAdmitted
<1>1. ASSUME IInv, NEW t \in Threads, Reject(t)
      PROVE  LET c == calls[t] IN Rate * (c.now - latest[c.key]) < Cost
  <2> DEFINE c == calls[t]
             k == c.key
  <2>1. /\ t \in DOMAIN calls /\ c \in Call /\ k \in Principals /\ c.now \in Int
        /\ TypeOK /\ Available(c) \in Int /\ Available(c) < Cost
    BY <1>1, Found DEF Reject, IInv, TypeOK, Call, Time
  <2>2. /\ k \in DOMAIN buckets
        /\ Available(c) - Rate * c.now = buckets[k].tokens - Rate * buckets[k].last
    BY <2>1, Found, Arithmetic
  <2>3. Available(c) - Rate * c.now >= 0 - Rate * latest[k]
    BY <1>1, <2>2 DEF IInv, Earned
  <2>4. latest[k] \in Int
    BY <2>1 DEF TypeOK, Time
  <2>5. /\ Rate * (c.now - latest[k]) = Rate * c.now - Rate * latest[k]
        /\ Rate * latest[k] \in Int /\ Rate * c.now \in Int
    BY <2>1, <2>4, RateLinear
  <2> QED
    BY <2>1, <2>3, <2>5, Arithmetic
<1>2. IInv => \A t \in Threads :
        Reject(t) => LET c == calls[t] IN Rate * (c.now - latest[c.key]) < Cost
  BY <1>1
<1> QED
  BY <1>2, Invariance, PTL DEF QuietCallerAdmitted
=============================================================================
