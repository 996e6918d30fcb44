---------------------------- MODULE Provider_proofs ----------------------------
(***************************************************************************)
(* What every step of the provider keeps, for any number of callers,       *)
(* samples and threads, and any interleaving of their unlocked updates.    *)
(* Service_proofs turns it into theorems of the composed system.           *)
(*                                                                         *)
(* The total never exceeds what was reported, although updates are lost    *)
(* and a store may even take the total back.  Sums over the jobs under way *)
(* would be an induction over data; instead every reported token is a unit *)
(* of its own, a number in 1 .. reported, and the invariant (Ledger) says  *)
(* which units the total stands for, which each loaded total stands for,   *)
(* and which units a job still owes: owed units are in nobody's count, so  *)
(* a store adds units that were not there and never counts one twice.      *)
(***************************************************************************)
EXTENDS Provider, FiniteSetTheorems, SequenceTheorems, TLAPS

JobRecords ==
  [state : JobStates, remaining : Nat \cup {None}, tokens : Nat \cup {None}, base : Nat]

Typed ==
  /\ usage \in [total : Nat, remaining : Nat \cup {None}]
  /\ reporting \in BOOLEAN /\ left \in 0 .. Budget /\ regained \in 0 .. Regains
  /\ reported \in Nat /\ amiss \in BOOLEAN
  /\ call \in [Callers -> {"idle", "generate", "judge", "closing"}]
  /\ jobs \in [Callers -> Seq(JobRecords)]

(* A thread outside the provider has no jobs there, one in judge has one.  *)
JobsLeft ==
  \A c \in Callers :
    /\ call[c] = "idle" => jobs[c] = <<>>
    /\ call[c] = "judge" => Len(jobs[c]) = 1

(* What a response reported is kept with its job until it is used.  Of the *)
(* requests granted at first no more are left than it said then.           *)
Granted == left - regained

JobOK(job, granted) ==
  /\ job.tokens # None => job.state \in {"answered", "recorded", "adding"}
  /\ job.state = "adding" => job.tokens # None
  /\ job.remaining # None => job.state = "answered" /\ job.remaining >= granted

HeadersOK ==
  /\ usage.remaining # None => usage.remaining >= Granted
  /\ \A c \in Callers : \A i \in DOMAIN jobs[c] : JobOK(jobs[c][i], Granted)

(* what the response of a job has reported and the total does not say yet  *)
Due(job) == IF job.tokens = None THEN 0 ELSE job.tokens

(* Without overlap there is one completion at a time, and it alone is due. *)
ExactOK ==
  ~amiss =>
    /\ \A c, d \in Callers : \A i \in Busy(c) : \A k \in Busy(d) : c = d /\ i = k
    /\ (\A c \in Callers : Busy(c) = {}) => usage.total = reported
    /\ \A c \in Callers : \A i \in Busy(c) :
         /\ usage.total + Due(jobs[c][i]) = reported
         /\ jobs[c][i].state = "adding" => jobs[c][i].base = usage.total

Places == Callers \X Nat
JobAt(p) == jobs[p[1]][p[2]]
Owing == {p \in Places : p[2] \in DOMAIN jobs[p[1]] /\ JobAt(p).tokens # None}

(* counted are the units in the total, bases those in each loaded total,   *)
(* units those each job owes.                                              *)
Accounted(counted, units, bases) ==
  /\ Cardinality(counted) = usage.total
  /\ \A p \in Owing :
       /\ Cardinality(units[p]) = JobAt(p).tokens
       /\ units[p] \cap counted = {}
       /\ \A q \in Owing : q # p => units[p] \cap units[q] = {}
       /\ JobAt(p).state = "adding" =>
            /\ Cardinality(bases[p]) = JobAt(p).base
            /\ \A q \in Owing : bases[p] \cap units[q] = {}

Ledger ==
  \E counted \in SUBSET (1 .. reported) :
    \E units, bases \in [Places -> SUBSET (1 .. reported)] : Accounted(counted, units, bases)

ProviderInv == Typed /\ JobsLeft /\ HeadersOK /\ ExactOK /\ Ledger

-----------------------------------------------------------------------------
(* What the variables other than the jobs are.                             *)
LEMMA Counters ==
  ASSUME ProviderInv
  PROVE  /\ left \in Nat /\ left \in 0 .. Budget /\ reported \in Nat
         /\ regained \in Nat /\ regained \in 0 .. Regains /\ Granted \in Int
         /\ usage \in [total : Nat, remaining : Nat \cup {None}]
         /\ usage.total \in Nat /\ usage.remaining \in Nat \cup {None}
         /\ usage.remaining # None => usage.remaining >= Granted
         /\ amiss \in BOOLEAN /\ reporting \in BOOLEAN
BY ProviderAssumption DEF ProviderInv, Typed, HeadersOK, Granted

(* One job changes, and the others stay. *)
LEMMA JobReplaced ==
  ASSUME Typed, NEW c \in Callers, NEW i \in DOMAIN jobs[c], NEW job \in JobRecords,
         jobs' = [jobs EXCEPT ![c][i] = job]
  PROVE  /\ jobs' \in [Callers -> Seq(JobRecords)]
         /\ \A d \in Callers :
              /\ DOMAIN jobs'[d] = DOMAIN jobs[d] /\ Len(jobs'[d]) = Len(jobs[d])
              /\ \A k \in DOMAIN jobs[d] :
                   jobs'[d][k] = IF d = c /\ k = i THEN job ELSE jobs[d][k]
<1> DEFINE mine == [jobs[c] EXCEPT ![i] = job]
<1>1. jobs[c] \in Seq(JobRecords) /\ i \in 1 .. Len(jobs[c])
  BY DEF Typed
<1>2. /\ mine \in Seq(JobRecords) /\ Len(mine) = Len(jobs[c])
      /\ \A k \in 1 .. Len(jobs[c]) : mine[k] = IF k = i THEN job ELSE jobs[c][k]
  BY <1>1, ExceptSeq
<1>3. jobs' = [jobs EXCEPT ![c] = mine]
  OBVIOUS
<1> HIDE DEF mine
<1>4. /\ jobs' \in [Callers -> Seq(JobRecords)]
      /\ \A d \in Callers : jobs'[d] = IF d = c THEN mine ELSE jobs[d]
  BY <1>2, <1>3 DEF Typed
<1>5. \A d \in Callers : DOMAIN jobs[d] = 1 .. Len(jobs[d])
  BY DEF Typed
<1>6. DOMAIN mine = 1 .. Len(mine)
  BY <1>2
<1> QED
  BY <1>1, <1>2, <1>4, <1>5, <1>6

(* The ledger of before serves a step that counts nothing: no job owes     *)
(* more, none has loaded a total.                                          *)
LEMMA LedgerKept ==
  ASSUME Ledger, usage'.total = usage.total, reported' = reported,
         \A p \in Owing' :
           /\ p \in Owing /\ JobAt(p)'.tokens = JobAt(p).tokens
           /\ JobAt(p)'.state = "adding" =>
                JobAt(p).state = "adding" /\ JobAt(p)'.base = JobAt(p).base
  PROVE  Ledger'
<1>1. PICK counted \in SUBSET (1 .. reported) :
        \E units, bases \in [Places -> SUBSET (1 .. reported)] : Accounted(counted, units, bases)
  BY DEF Ledger
<1>2. PICK units \in [Places -> SUBSET (1 .. reported)],
           bases \in [Places -> SUBSET (1 .. reported)] : Accounted(counted, units, bases)
  BY <1>1
<1>3. Accounted(counted, units, bases)'
  BY <1>2 DEF Accounted
<1> QED
  BY <1>3 DEF Ledger, Places

(* What a changed job has to satisfy for the types and the headers.        *)
LEMMA JobStepTyped ==
  ASSUME ProviderInv, NEW c \in Callers, NEW i \in DOMAIN jobs[c], NEW job \in JobRecords,
         jobs' = [jobs EXCEPT ![c][i] = job], UNCHANGED <<reporting, regained, call>>,
         usage' \in [total : Nat, remaining : Nat \cup {None}],
         left' \in 0 .. left, reported' \in Nat, amiss' \in BOOLEAN,
         JobOK(job, Granted'), usage'.remaining # None => usage'.remaining >= Granted'
  PROVE  Typed' /\ JobsLeft' /\ HeadersOK'
<1>1. Typed'
  <2>1. jobs' \in [Callers -> Seq(JobRecords)]
    BY JobReplaced DEF ProviderInv
  <2>2. left' \in 0 .. Budget
    BY ProviderAssumption DEF ProviderInv, Typed
  <2> QED
    BY <2>1, <2>2 DEF ProviderInv, Typed
<1>2. JobsLeft'
  <2> SUFFICES ASSUME NEW d \in Callers
               PROVE  /\ call[d] = "idle" => jobs'[d] = <<>>
                      /\ call[d] = "judge" => Len(jobs'[d]) = 1
    BY DEF JobsLeft
  <2>1. Len(jobs'[d]) = Len(jobs[d]) /\ jobs'[d] \in Seq(JobRecords)
    BY JobReplaced DEF ProviderInv
  <2> QED
    BY <2>1 DEF ProviderInv, JobsLeft
<1>3. HeadersOK'
  <2> SUFFICES ASSUME NEW d \in Callers, NEW k \in DOMAIN jobs'[d]
               PROVE  JobOK(jobs'[d][k], Granted')
    BY DEF HeadersOK, JobOK
  <2>1. k \in DOMAIN jobs[d] /\ jobs'[d][k] = IF d = c /\ k = i THEN job ELSE jobs[d][k]
    BY JobReplaced DEF ProviderInv
  <2>2. JobOK(jobs[d][k], Granted) /\ jobs[d][k] \in JobRecords
    BY <2>1 DEF ProviderInv, HeadersOK, Typed
  <2>3. jobs[d][k].remaining \in Nat \cup {None}
    BY <2>2 DEF JobRecords
  <2>4. Granted \in Int /\ Granted' \in Int /\ Granted' <= Granted
    BY Counters DEF Granted
  <2> QED
    BY <2>1, <2>2, <2>3, <2>4 DEF JobOK
<1> QED
  BY <1>1, <1>2, <1>3

(* A completion goes on: if it is the only one, what it owes is what the   *)
(* total lacks, before and after.                                          *)
LEMMA ExactStep ==
  ASSUME ProviderInv, NEW c \in Callers, NEW i \in Busy(c), NEW job \in JobRecords,
         jobs' = [jobs EXCEPT ![c][i] = job], UNCHANGED amiss,
         job.state \notin Completing => Due(job) = 0,
         usage.total + Due(jobs[c][i]) = reported
           /\ (jobs[c][i].state = "adding" => jobs[c][i].base = usage.total)
         => usage'.total + Due(job) = reported'
              /\ (job.state = "adding" => job.base = usage'.total),
         usage' \in [total : Nat, remaining : Nat \cup {None}]
  PROVE  ExactOK'
<1> SUFFICES ASSUME ~amiss PROVE ExactOK'
  BY DEF ExactOK
<1>1. /\ \A d \in Callers : \A k \in Busy(d) : d = c /\ k = i
      /\ usage'.total + Due(job) = reported'
      /\ job.state = "adding" => job.base = usage'.total
  BY DEF ProviderInv, ExactOK
<1>2. i \in DOMAIN jobs[c]
  BY DEF Busy
<1>3. \A d \in Callers : \A k \in DOMAIN jobs'[d] :
        jobs'[d][k] = IF d = c /\ k = i THEN job ELSE jobs[d][k]
  BY <1>2, JobReplaced DEF ProviderInv
<1>4. \A d \in Callers : DOMAIN jobs'[d] = DOMAIN jobs[d]
  BY <1>2, JobReplaced DEF ProviderInv
<1>5. ASSUME NEW d \in Callers, NEW k \in Busy(d)'
      PROVE  d = c /\ k = i /\ jobs'[d][k] = job /\ job.state \in Completing
  <2>1. k \in DOMAIN jobs'[d] /\ jobs'[d][k].state \in Completing
    BY DEF Busy
  <2> QED
    BY <1>1, <1>3, <1>4, <2>1 DEF Busy
<1>6. (\A d \in Callers : Busy(d)' = {}) => job.state \notin Completing
  BY <1>2, <1>3, <1>4 DEF Busy
<1>7. Due(job) = 0 => usage'.total = reported'
  BY <1>1
<1> QED
  BY <1>1, <1>5, <1>6, <1>7 DEF ExactOK, Due

(* The same of one job that counts nothing.                                *)
LEMMA LedgerJob ==
  ASSUME ProviderInv, NEW c \in Callers, NEW i \in DOMAIN jobs[c], NEW job \in JobRecords,
         jobs' = [jobs EXCEPT ![c][i] = job],
         usage'.total = usage.total, reported' = reported,
         job.tokens # None => job.tokens = jobs[c][i].tokens,
         job.state = "adding" => jobs[c][i].state = "adding" /\ job.base = jobs[c][i].base
  PROVE  Ledger'
<1>1. \A d \in Callers :
        /\ DOMAIN jobs'[d] = DOMAIN jobs[d]
        /\ \A k \in DOMAIN jobs[d] : jobs'[d][k] = IF d = c /\ k = i THEN job ELSE jobs[d][k]
  BY JobReplaced DEF ProviderInv
<1>2. ASSUME NEW p \in Owing'
      PROVE  /\ p \in Owing /\ JobAt(p)'.tokens = JobAt(p).tokens
             /\ JobAt(p)'.state = "adding" =>
                  JobAt(p).state = "adding" /\ JobAt(p)'.base = JobAt(p).base
  BY <1>1 DEF Owing, Places, JobAt
<1> QED
  BY <1>2, LedgerKept DEF ProviderInv

LEMMA PlaceOf ==
  ASSUME Typed, NEW c \in Callers, NEW i \in DOMAIN jobs[c]
  PROVE  <<c, i>> \in Places /\ <<c, i>>[1] = c /\ <<c, i>>[2] = i
<1>1. DOMAIN jobs[c] = 1 .. Len(jobs[c]) /\ Len(jobs[c]) \in Nat
  BY DEF Typed
<1> QED
  BY <1>1 DEF Places

(* Which jobs owe tokens after one of them has changed.                    *)
LEMMA OwingAfter ==
  ASSUME ProviderInv, NEW c \in Callers, NEW i \in DOMAIN jobs[c], NEW job \in JobRecords,
         jobs' = [jobs EXCEPT ![c][i] = job]
  PROVE  /\ Owing' = IF job.tokens = None THEN Owing \ {<<c, i>>} ELSE Owing \cup {<<c, i>>}
         /\ \A p \in Owing' : JobAt(p)' = IF p = <<c, i>> THEN job ELSE JobAt(p)
<1>1. \A d \in Callers :
        /\ DOMAIN jobs'[d] = DOMAIN jobs[d]
        /\ \A k \in DOMAIN jobs[d] : jobs'[d][k] = IF d = c /\ k = i THEN job ELSE jobs[d][k]
  BY JobReplaced DEF ProviderInv
<1>2. \A p \in Places : p[1] \in Callers /\ p = <<p[1], p[2]>>
  BY DEF Places
<1>3. <<c, i>> \in Places /\ <<c, i>>[1] = c /\ <<c, i>>[2] = i
  BY PlaceOf DEF ProviderInv
<1>4. \A p \in Places : p[2] \in DOMAIN jobs[p[1]] =>
        JobAt(p)' = IF p = <<c, i>> THEN job ELSE JobAt(p)
  BY <1>1, <1>2, <1>3 DEF JobAt
<1> QED
  BY <1>1, <1>2, <1>3, <1>4 DEF Owing

LEMMA UnitCount ==
  ASSUME NEW m \in Nat, NEW n \in Nat
  PROVE  Cardinality(m + 1 .. m + n) = n
<1>1. \A a, b \in Int : Cardinality(a .. b) = IF a > b THEN 0 ELSE b - a + 1
  BY FS_Interval
<1>2. m + 1 \in Int /\ m + n \in Int
  OBVIOUS
<1>3. Cardinality(m + 1 .. m + n) = IF m + 1 > m + n THEN 0 ELSE (m + n) - (m + 1) + 1
  BY <1>1, <1>2
<1> QED
  BY <1>3

(* A response has come back: its units are new.                            *)
LEMMA LedgerServed ==
  ASSUME ProviderInv, NEW c \in Callers, NEW i \in DOMAIN jobs[c], NEW job \in JobRecords,
         jobs' = [jobs EXCEPT ![c][i] = job], usage' = usage,
         jobs[c][i].tokens = None, job.state # "adding",
         NEW tokens \in Nat, Due(job) = tokens, reported' = reported + tokens
  PROVE  Ledger'
<1>1. PICK counted \in SUBSET (1 .. reported) :
        \E units, bases \in [Places -> SUBSET (1 .. reported)] : Accounted(counted, units, bases)
  BY DEF ProviderInv, Ledger
<1>2. PICK units \in [Places -> SUBSET (1 .. reported)],
           bases \in [Places -> SUBSET (1 .. reported)] : Accounted(counted, units, bases)
  BY <1>1
<1>3. reported \in Nat /\ 1 .. reported \subseteq 1 .. reported'
  BY Counters
<1>4. PICK new \in SUBSET (1 .. reported') :
        Cardinality(new) = tokens /\ new \cap (1 .. reported) = {}
  <2> DEFINE fresh == reported + 1 .. reported + tokens
  <2>1. fresh \in SUBSET (1 .. reported') /\ fresh \cap (1 .. reported) = {}
    BY <1>3
  <2>2. Cardinality(fresh) = tokens
    BY <1>3, UnitCount
  <2> QED
    BY <2>1, <2>2
<1> DEFINE place == <<c, i>>
           later == [units EXCEPT ![place] = new]
<1>5. place \in Places /\ place \notin Owing
  BY PlaceOf DEF Owing, JobAt, ProviderInv
<1>6. /\ Owing' \subseteq Owing \cup {place}
      /\ \A p \in Owing' : JobAt(p)' = IF p = place THEN job ELSE JobAt(p)
      /\ place \in Owing' => job.tokens = tokens
  BY OwingAfter DEF Due
<1> HIDE DEF place
<1>7. /\ later \in [Places -> SUBSET (1 .. reported')]
      /\ bases \in [Places -> SUBSET (1 .. reported')]
      /\ counted \in SUBSET (1 .. reported')
      /\ later[place] = new
      /\ \A p \in Owing : later[p] = units[p] /\ p # place
      /\ \A p \in Owing : p \in Places
  BY <1>2, <1>3, <1>4, <1>5 DEF Owing
<1> HIDE DEF later
<1>8. Accounted(counted, later, bases)'
  <2>1. Cardinality(counted) = usage'.total
    BY <1>2 DEF Accounted
  <2>2. ASSUME NEW p \in Owing'
        PROVE  /\ Cardinality(later[p]) = JobAt(p)'.tokens
               /\ later[p] \cap counted = {}
               /\ \A q \in Owing' : q # p => later[p] \cap later[q] = {}
    <3>1. CASE p = place
      <4>1. Cardinality(later[p]) = JobAt(p)'.tokens /\ later[p] \cap counted = {}
        BY <1>4, <1>6, <1>7, <3>1
      <4>2. \A q \in Owing' : q # p => units[q] \subseteq 1 .. reported /\ later[q] = units[q]
        BY <1>2, <1>6, <1>7, <3>1
      <4> QED
        BY <1>4, <1>7, <3>1, <4>1, <4>2
    <3>2. CASE p # place
      <4>1. p \in Owing /\ later[p] = units[p] /\ units[p] \subseteq 1 .. reported
            /\ JobAt(p)' = JobAt(p)
        BY <1>2, <1>6, <1>7, <3>2
      <4>2. Cardinality(later[p]) = JobAt(p)'.tokens /\ later[p] \cap counted = {}
        BY <1>2, <4>1 DEF Accounted
      <4>3. ASSUME NEW q \in Owing', q # p PROVE later[p] \cap later[q] = {}
        <5>1. CASE q = place
          BY <1>4, <1>7, <4>1, <5>1
        <5>2. CASE q # place
          BY <1>2, <1>6, <1>7, <4>1, <4>3, <5>2 DEF Accounted
        <5> QED
          BY <5>1, <5>2
      <4> QED
        BY <4>2, <4>3
    <3> QED
      BY <3>1, <3>2
  <2>3. ASSUME NEW p \in Owing', JobAt(p)'.state = "adding"
        PROVE  /\ Cardinality(bases[p]) = JobAt(p)'.base
               /\ \A q \in Owing' : bases[p] \cap later[q] = {}
    <3>1. p # place /\ p \in Owing /\ JobAt(p)' = JobAt(p)
      BY <1>6, <2>3
    <3>2. /\ Cardinality(bases[p]) = JobAt(p).base
          /\ \A q \in Owing : bases[p] \cap units[q] = {}
          /\ bases[p] \subseteq 1 .. reported
      BY <1>2, <1>7, <2>3, <3>1 DEF Accounted
    <3> QED
      BY <1>4, <1>6, <1>7, <3>1, <3>2
  <2> QED
    BY <2>1, <2>2, <2>3 DEF Accounted
<1> QED
  BY <1>7, <1>8 DEF Ledger, Places

(* A job loads the total: the units in it are those counted at that time.  *)
LEMMA LedgerLoaded ==
  ASSUME ProviderInv, NEW c \in Callers, NEW i \in DOMAIN jobs[c], NEW job \in JobRecords,
         jobs' = [jobs EXCEPT ![c][i] = job], UNCHANGED <<usage, reported>>,
         jobs[c][i].tokens # None, job.tokens = jobs[c][i].tokens, job.base = usage.total
  PROVE  Ledger'
<1>1. PICK counted \in SUBSET (1 .. reported) :
        \E units, bases \in [Places -> SUBSET (1 .. reported)] : Accounted(counted, units, bases)
  BY DEF ProviderInv, Ledger
<1>2. PICK units \in [Places -> SUBSET (1 .. reported)],
           bases \in [Places -> SUBSET (1 .. reported)] : Accounted(counted, units, bases)
  BY <1>1
<1> DEFINE place == <<c, i>>
           later == [bases EXCEPT ![place] = counted]
<1>3. place \in Places /\ place \in Owing /\ JobAt(place) = jobs[c][i]
  BY PlaceOf DEF Owing, JobAt, ProviderInv
<1>4. Owing' = Owing /\ \A p \in Owing : JobAt(p)' = IF p = place THEN job ELSE JobAt(p)
  <2>1. /\ Owing' = Owing \cup {place}
        /\ \A p \in Owing' : JobAt(p)' = IF p = place THEN job ELSE JobAt(p)
    BY OwingAfter
  <2> QED
    BY <1>3, <2>1
<1> HIDE DEF place
<1>5. /\ later \in [Places -> SUBSET (1 .. reported)]
      /\ \A p \in Owing : later[p] = IF p = place THEN counted ELSE bases[p]
  BY <1>2, <1>3 DEF Owing
<1> HIDE DEF later
<1>6. Accounted(counted, units, later)'
  <2>1. Cardinality(counted) = usage'.total
    BY <1>2 DEF Accounted
  <2>2. ASSUME NEW p \in Owing
        PROVE  /\ Cardinality(units[p]) = JobAt(p)'.tokens
               /\ units[p] \cap counted = {}
               /\ \A q \in Owing : q # p => units[p] \cap units[q] = {}
    BY <1>2, <1>3, <1>4 DEF Accounted
  <2>3. ASSUME NEW p \in Owing, JobAt(p)'.state = "adding"
        PROVE  /\ Cardinality(later[p]) = JobAt(p)'.base
               /\ \A q \in Owing : later[p] \cap units[q] = {}
    <3>1. CASE p = place
      BY <1>2, <1>4, <1>5, <2>1, <3>1 DEF Accounted
    <3>2. CASE p # place
      BY <1>2, <1>4, <1>5, <2>3, <3>2 DEF Accounted
    <3> QED
      BY <3>1, <3>2
  <2> QED
    BY <1>4, <2>1, <2>2, <2>3 DEF Accounted, place, later
<1> QED
  BY <1>5, <1>6 DEF Ledger, Places

(* A job stores its sum: its own units join those of the total it loaded,  *)
(* which may leave out units counted since, and counts none of them twice. *)
LEMMA LedgerStored ==
  ASSUME ProviderInv, NEW c \in Callers, NEW i \in DOMAIN jobs[c], NEW job \in JobRecords,
         jobs' = [jobs EXCEPT ![c][i] = job], reported' = reported,
         jobs[c][i].tokens # None, jobs[c][i].state = "adding", job.tokens = None,
         usage'.total = jobs[c][i].base + jobs[c][i].tokens
  PROVE  Ledger'
<1>1. PICK counted \in SUBSET (1 .. reported) :
        \E units, bases \in [Places -> SUBSET (1 .. reported)] : Accounted(counted, units, bases)
  BY DEF ProviderInv, Ledger
<1>2. PICK units \in [Places -> SUBSET (1 .. reported)],
           bases \in [Places -> SUBSET (1 .. reported)] : Accounted(counted, units, bases)
  BY <1>1
<1> DEFINE place == <<c, i>>
           sum   == bases[place] \cup units[place]
<1>3. place \in Places /\ place \in Owing /\ JobAt(place) = jobs[c][i]
  BY PlaceOf DEF Owing, JobAt, ProviderInv
<1>4. Owing' = Owing \ {place} /\ \A p \in Owing' : JobAt(p)' = JobAt(p)
  BY <1>3, OwingAfter
<1>5. /\ Cardinality(units[place]) = jobs[c][i].tokens
      /\ Cardinality(bases[place]) = jobs[c][i].base
      /\ bases[place] \cap units[place] = {}
      /\ \A q \in Owing : bases[place] \cap units[q] = {}
      /\ \A q \in Owing : q # place => units[place] \cap units[q] = {}
  BY <1>2, <1>3 DEF Accounted
<1> HIDE DEF place
<1>6. sum \in SUBSET (1 .. reported)
  BY <1>2, <1>3
<1>7. Cardinality(sum) = usage'.total
  <2>1. bases[place] \in SUBSET (1 .. reported) /\ units[place] \in SUBSET (1 .. reported)
    BY <1>2, <1>3
  <2>2. IsFiniteSet(1 .. reported)
    BY Counters, FS_Interval
  <2>3. IsFiniteSet(bases[place]) /\ IsFiniteSet(units[place])
    BY <2>1, <2>2, FS_Subset
  <2>4. Cardinality(sum) = Cardinality(bases[place]) + Cardinality(units[place]) - Cardinality({})
    BY <1>5, <2>3, FS_Union
  <2>5. Cardinality(bases[place]) \in Nat /\ Cardinality(units[place]) \in Nat
    BY <2>3, FS_CardinalityType
  <2> QED
    BY <1>5, <2>4, <2>5, FS_EmptySet
<1>8. Accounted(sum, units, bases)'
  <2>1. ASSUME NEW p \in Owing'
        PROVE  /\ Cardinality(units[p]) = JobAt(p)'.tokens
               /\ units[p] \cap sum = {}
               /\ \A q \in Owing' : q # p => units[p] \cap units[q] = {}
    <3>1. p \in Owing /\ p # place /\ JobAt(p)' = JobAt(p)
      BY <1>4
    <3>2. units[p] \cap sum = {}
      BY <1>5, <3>1
    <3> QED
      BY <1>2, <1>4, <3>1, <3>2 DEF Accounted
  <2>2. ASSUME NEW p \in Owing', JobAt(p)'.state = "adding"
        PROVE  /\ Cardinality(bases[p]) = JobAt(p)'.base
               /\ \A q \in Owing' : bases[p] \cap units[q] = {}
    BY <1>2, <1>4, <2>2 DEF Accounted
  <2> QED
    BY <1>7, <2>1, <2>2 DEF Accounted, sum, place
<1> QED
  BY <1>6, <1>8 DEF Ledger, Places, sum, place

-----------------------------------------------------------------------------
(* One lemma per step of a completion *)

(* The record of a job under a step, and the other parts of its place.     *)
LEMMA JobTyped ==
  ASSUME Typed, NEW c \in Callers, NEW i \in DOMAIN jobs[c]
  PROVE  jobs[c][i] \in JobRecords
BY DEF Typed

LEMMA SendKeepsInv ==
  ASSUME ProviderInv, NEW c \in Callers, NEW i \in DOMAIN jobs[c], Send(c, i)
  PROVE  ProviderInv'
<1> DEFINE job == [jobs[c][i] EXCEPT !.state = "sent"]
<1>1. /\ jobs[c][i] \in JobRecords /\ jobs[c][i].state = "queued"
      /\ JobOK(jobs[c][i], Granted)
  BY JobTyped DEF ProviderInv, HeadersOK, Send
<1>2. /\ job \in JobRecords /\ job.state = "sent"
      /\ job.tokens = None /\ job.remaining = None
  BY <1>1 DEF JobRecords, JobStates, Completing, JobOK
<1>3. jobs' = [jobs EXCEPT ![c][i] = job]
  BY DEF Send
<1> HIDE DEF job
<1>4. Typed' /\ JobsLeft' /\ HeadersOK'
  <2>1. left' \in 0 .. left /\ JobOK(job, Granted')
    BY <1>2, ProviderAssumption DEF ProviderInv, Typed, Send, JobOK
  <2>2. /\ UNCHANGED <<reporting, regained, call>> /\ amiss' \in BOOLEAN /\ reported' \in Nat
        /\ usage' \in [total : Nat, remaining : Nat \cup {None}]
        /\ usage'.remaining # None => usage'.remaining >= Granted'
    BY DEF Send, ProviderInv, Typed, HeadersOK, Granted
  <2> QED
    BY <1>2, <1>3, <2>1, <2>2, JobStepTyped
<1>5. /\ \A d \in Callers : DOMAIN jobs'[d] = DOMAIN jobs[d]
      /\ \A d \in Callers : \A k \in DOMAIN jobs[d] :
           jobs'[d][k] = IF d = c /\ k = i THEN job ELSE jobs[d][k]
  BY <1>2, <1>3, JobReplaced DEF ProviderInv
<1>6. ExactOK'
  <2> SUFFICES ASSUME ~amiss' PROVE ExactOK'
    BY DEF ExactOK
  <2>1. /\ \A d \in Callers : Busy(d) = {}
        /\ usage'.total = reported'
    BY DEF Send, ProviderInv, ExactOK
  <2>2. ASSUME NEW d \in Callers, NEW k \in Busy(d)'
        PROVE  d = c /\ k = i /\ jobs'[d][k] = job
    BY <1>5, <2>1 DEF Busy
  <2>3. usage'.total + Due(job) = reported'
    BY <1>2, <2>1 DEF Due, ProviderInv, Typed, Send
  <2> QED
    BY <1>2, <2>1, <2>2, <2>3 DEF ExactOK, Due
<1>7. Ledger'
  <2>1. UNCHANGED <<usage, reported>>
    BY DEF Send
  <2> QED
    BY <1>2, <1>3, <2>1, LedgerJob
<1> QED
  BY <1>4, <1>6, <1>7 DEF ProviderInv

(* The API's answer: its tokens become due, as units nobody has counted.   *)
LEMMA ServeKeepsInv ==
  ASSUME ProviderInv, NEW c \in Callers, NEW i \in DOMAIN jobs[c], Serve(c, i)
  PROVE  ProviderInv'
<1>1. /\ jobs[c][i] \in JobRecords /\ jobs[c][i].state = "sent" /\ i \in Busy(c)
      /\ JobOK(jobs[c][i], Granted)
  BY JobTyped DEF ProviderInv, HeadersOK, Serve, Busy, Completing
<1>2. jobs[c][i].tokens = None /\ jobs[c][i].remaining = None
  BY <1>1 DEF JobOK
<1>3. /\ left > 0 /\ left' = left - 1
      /\ UNCHANGED <<usage, reporting, regained, call, amiss>>
  BY DEF Serve
<1>4. /\ left' \in Nat /\ left' \in 0 .. left
      /\ Granted' \in Int /\ Granted' = Granted - 1 /\ Granted' <= left'
      /\ usage.remaining # None => usage.remaining >= Granted'
  BY <1>3, Counters DEF Granted
<1>5. PICK job \in JobRecords, tokens \in Nat :
        /\ jobs' = [jobs EXCEPT ![c][i] = job] /\ reported' = reported + tokens
        /\ job.state = "answered" /\ Due(job) = tokens
        /\ job.remaining # None => job.remaining >= Granted'
  <2>1. CASE ~reporting
    <3> DEFINE job == [jobs[c][i] EXCEPT !.state = "answered"]
    <3>1. /\ job \in JobRecords /\ job.state = "answered"
          /\ job.tokens = None /\ job.remaining = None
      BY <1>1, <1>2 DEF JobRecords, JobStates, Completing
    <3>2. jobs' = [jobs EXCEPT ![c][i] = job] /\ reported' = reported
      BY <2>1 DEF Serve
    <3> HIDE DEF job
    <3>3. reported' = reported + 0
      BY <3>2, Counters
    <3> QED
      BY <3>1, <3>2, <3>3 DEF Due
  <2>2. CASE reporting
    <3>1. PICK tokens \in Costs :
            /\ jobs' = [jobs EXCEPT ![c][i].state = "answered", ![c][i].tokens = tokens,
                                     ![c][i].remaining = left - 1]
            /\ reported' = reported + tokens
      BY <2>2 DEF Serve
    <3> DEFINE job == [jobs[c][i] EXCEPT !.state = "answered", !.tokens = tokens,
                                         !.remaining = left - 1]
    <3>2. tokens \in Nat /\ tokens # None /\ left - 1 \in Nat
      BY <1>3, <1>4, ProviderAssumption
    <3>3. /\ job \in JobRecords /\ job.state = "answered"
          /\ job.tokens = tokens /\ job.remaining = left'
      BY <1>1, <1>3, <3>2 DEF JobRecords, JobStates, Completing
    <3>4. jobs' = [jobs EXCEPT ![c][i] = job]
      BY <3>1 DEF ProviderInv, Typed
    <3> HIDE DEF job
    <3>5. Due(job) = tokens /\ job.remaining >= Granted'
      BY <1>4, <3>2, <3>3 DEF Due
    <3> QED
      BY <3>1, <3>2, <3>3, <3>4, <3>5
  <2> QED
    BY <2>1, <2>2
<1>6. Typed' /\ JobsLeft' /\ HeadersOK'
  <2>1. JobOK(job, Granted') /\ reported' \in Nat
    BY <1>5, Counters DEF JobOK
  <2> QED
    BY <1>3, <1>4, <1>5, <2>1, Counters, JobStepTyped
<1>7. ExactOK'
  <2>1. usage.total + Due(jobs[c][i]) = reported => usage'.total + Due(job) = reported'
    BY <1>2, <1>3, <1>5, Counters DEF Due
  <2>2. job.state \in Completing /\ job.state # "adding"
    BY <1>5 DEF Completing
  <2> QED
    BY <1>1, <1>3, <1>5, <2>1, <2>2, Counters, ExactStep
<1>8. Ledger'
  BY <1>2, <1>3, <1>5, LedgerServed
<1> QED
  BY <1>6, <1>7, <1>8 DEF ProviderInv

(* A job leaves _complete, by a failure or with its text.                  *)
LEMMA RefusedKeepsInv ==
  ASSUME ProviderInv, NEW c \in Callers, NEW i \in DOMAIN jobs[c], Refused(c, i)
  PROVE  ProviderInv'
<1> DEFINE job == [jobs[c][i] EXCEPT !.state = "failed"]
<1>1. /\ jobs[c][i] \in JobRecords /\ jobs[c][i].state = "sent" /\ i \in Busy(c)
      /\ JobOK(jobs[c][i], Granted)
  BY JobTyped DEF ProviderInv, HeadersOK, Refused, Busy, Completing
<1>2. /\ job \in JobRecords /\ job.state = "failed" /\ jobs[c][i].tokens = None
      /\ job.tokens = None /\ job.remaining = None
  BY <1>1 DEF JobRecords, JobStates, Completing, JobOK
<1>3. /\ jobs' = [jobs EXCEPT ![c][i] = job]
      /\ UNCHANGED <<usage, reporting, left, regained, call, reported, amiss>>
  BY DEF Refused
<1> HIDE DEF job
<1>4. JobOK(job, Granted') /\ left' \in 0 .. left
  BY <1>2, <1>3, Counters DEF JobOK, Granted
<1>5. Typed' /\ JobsLeft' /\ HeadersOK'
  BY <1>2, <1>3, <1>4, Counters, JobStepTyped DEF Granted
<1>6. ExactOK'
  <2>1. Due(job) = 0 /\ Due(jobs[c][i]) = 0
    BY <1>2 DEF Due
  <2> QED
    BY <1>1, <1>2, <1>3, <2>1, Counters, ExactStep
<1>7. Ledger'
  BY <1>2, <1>3, LedgerJob
<1> QED
  BY <1>5, <1>6, <1>7 DEF ProviderInv

(* The header was true when it was sent.                                   *)
LEMMA RecordHeadersKeepsInv ==
  ASSUME ProviderInv, NEW c \in Callers, NEW i \in DOMAIN jobs[c], RecordHeaders(c, i)
  PROVE  ProviderInv'
<1> DEFINE job == [jobs[c][i] EXCEPT !.state = "recorded", !.remaining = None]
<1>1. /\ jobs[c][i] \in JobRecords /\ jobs[c][i].state = "answered" /\ i \in Busy(c)
      /\ JobOK(jobs[c][i], Granted)
  BY JobTyped DEF ProviderInv, HeadersOK, RecordHeaders, Busy, Completing
<1>2. /\ job \in JobRecords /\ job.state = "recorded"
      /\ job.tokens = jobs[c][i].tokens /\ job.remaining = None
  BY <1>1 DEF JobRecords, JobStates, Completing
<1>3. /\ jobs' = [jobs EXCEPT ![c][i] = job]
      /\ UNCHANGED <<reporting, left, regained, call, reported, amiss>>
  BY DEF RecordHeaders, ProviderInv, Typed
<1>4. usage' = [usage EXCEPT !.remaining = jobs[c][i].remaining]
  BY DEF RecordHeaders, Header
<1> HIDE DEF job
<1>5. JobOK(job, Granted') /\ left' \in 0 .. left
  BY <1>2, <1>3, Counters DEF JobOK, Granted
<1>6. /\ usage' \in [total : Nat, remaining : Nat \cup {None}]
      /\ usage'.total = usage.total
      /\ usage'.remaining # None => usage'.remaining >= Granted'
  <2>1. jobs[c][i].remaining \in Nat \cup {None}
    BY <1>1 DEF JobRecords
  <2>2. /\ usage' \in [total : Nat, remaining : Nat \cup {None}]
        /\ usage'.total = usage.total /\ usage'.remaining = jobs[c][i].remaining
    BY <1>4, <2>1, Counters
  <2> QED
    BY <1>1, <1>3, <2>2 DEF JobOK, Granted
<1>7. Typed' /\ JobsLeft' /\ HeadersOK'
  BY <1>2, <1>3, <1>5, <1>6, Counters, JobStepTyped
<1>8. ExactOK'
  <2>1. Due(job) = Due(jobs[c][i])
    BY <1>2 DEF Due
  <2>2. job.state \in Completing /\ job.state # "adding"
    BY <1>2 DEF Completing
  <2> QED
    BY <1>1, <1>2, <1>3, <1>6, <2>1, <2>2, ExactStep
<1>9. Ledger'
  BY <1>2, <1>3, <1>6, LedgerJob
<1> QED
  BY <1>7, <1>8, <1>9 DEF ProviderInv

LEMMA EndedJob ==
  ASSUME NEW ending \in Endings
  PROVE  /\ Job(ending) \in JobRecords /\ Job(ending).state = ending
         /\ ending \notin Completing /\ ending # "adding"
         /\ Job(ending).tokens = None /\ Job(ending).remaining = None
BY DEF Job, JobRecords, JobStates, Completing, Endings

(* A response that cannot be parsed: what it cost stays uncounted, and the *)
(* total is no longer said to be exact.                                    *)
LEMMA UnparsedKeepsInv ==
  ASSUME ProviderInv, NEW c \in Callers, NEW i \in DOMAIN jobs[c], Unparsed(c, i)
  PROVE  ProviderInv'
<1> DEFINE job == Job("failed")
<1>2. /\ job \in JobRecords /\ job.state = "failed"
      /\ job.tokens = None /\ job.remaining = None
  BY EndedJob DEF Endings
<1>3. /\ jobs' = [jobs EXCEPT ![c][i] = job] /\ amiss' = TRUE
      /\ UNCHANGED <<usage, reporting, left, regained, call, reported>>
  BY DEF Unparsed
<1> HIDE DEF job
<1>4. JobOK(job, Granted') /\ left' \in 0 .. left
  BY <1>2, <1>3, Counters DEF JobOK, Granted
<1>5. Typed' /\ JobsLeft' /\ HeadersOK'
  BY <1>2, <1>3, <1>4, Counters, JobStepTyped DEF Granted
<1>6. ExactOK'
  BY <1>3 DEF ExactOK
<1>7. Ledger'
  BY <1>2, <1>3, LedgerJob
<1> QED
  BY <1>5, <1>6, <1>7 DEF ProviderInv

LEMMA NoUsageKeepsInv ==
  ASSUME ProviderInv, NEW c \in Callers, NEW i \in DOMAIN jobs[c], NoUsage(c, i)
  PROVE  ProviderInv'
<1>0. PICK ending \in Endings : jobs' = [jobs EXCEPT ![c][i] = Job(ending)]
  BY DEF NoUsage
<1> DEFINE job == Job(ending)
<1>1. /\ jobs[c][i].tokens = None /\ i \in Busy(c)
  BY DEF NoUsage, Busy, Completing
<1>2. /\ job \in JobRecords /\ job.state \notin Completing /\ job.state # "adding"
      /\ job.tokens = None /\ job.remaining = None
  BY EndedJob
<1>3. /\ jobs' = [jobs EXCEPT ![c][i] = job]
      /\ UNCHANGED <<usage, reporting, left, regained, call, reported, amiss>>
  BY <1>0 DEF NoUsage
<1> HIDE DEF job
<1>4. JobOK(job, Granted') /\ left' \in 0 .. left
  BY <1>2, <1>3, Counters DEF JobOK, Granted
<1>5. Typed' /\ JobsLeft' /\ HeadersOK'
  BY <1>2, <1>3, <1>4, Counters, JobStepTyped DEF Granted
<1>6. ExactOK'
  <2>1. Due(job) = 0 /\ Due(jobs[c][i]) = 0
    BY <1>1, <1>2 DEF Due
  <2> QED
    BY <1>1, <1>2, <1>3, <2>1, Counters, ExactStep
<1>7. Ledger'
  BY <1>2, <1>3, LedgerJob
<1> QED
  BY <1>5, <1>6, <1>7 DEF ProviderInv

LEMMA LoadTotalKeepsInv ==
  ASSUME ProviderInv, NEW c \in Callers, NEW i \in DOMAIN jobs[c], LoadTotal(c, i)
  PROVE  ProviderInv'
<1> DEFINE job == [jobs[c][i] EXCEPT !.state = "adding", !.base = usage.total]
<1>1. /\ jobs[c][i] \in JobRecords /\ jobs[c][i].state = "recorded" /\ i \in Busy(c)
      /\ JobOK(jobs[c][i], Granted) /\ jobs[c][i].tokens # None
  BY JobTyped DEF ProviderInv, HeadersOK, LoadTotal, Busy, Completing
<1>2. /\ job \in JobRecords /\ job.state = "adding" /\ job.base = usage.total
      /\ job.tokens = jobs[c][i].tokens /\ job.remaining = jobs[c][i].remaining
      /\ job.remaining = None
  BY <1>1, Counters DEF JobRecords, JobStates, Completing, JobOK
<1>3. /\ jobs' = [jobs EXCEPT ![c][i] = job]
      /\ UNCHANGED <<usage, reporting, left, regained, call, reported, amiss>>
  BY DEF LoadTotal, ProviderInv, Typed
<1> HIDE DEF job
<1>4. JobOK(job, Granted') /\ left' \in 0 .. left
  BY <1>1, <1>2, <1>3, Counters DEF JobOK, Granted
<1>5. Typed' /\ JobsLeft' /\ HeadersOK'
  BY <1>2, <1>3, <1>4, Counters, JobStepTyped DEF Granted
<1>6. ExactOK'
  <2>1. Due(job) = Due(jobs[c][i]) /\ job.state \in Completing
    BY <1>2 DEF Due, Completing
  <2> QED
    BY <1>1, <1>2, <1>3, <2>1, Counters, ExactStep
<1>7. Ledger'
  BY <1>1, <1>2, <1>3, LedgerLoaded
<1> QED
  BY <1>5, <1>6, <1>7 DEF ProviderInv

LEMMA StoreTotalKeepsInv ==
  ASSUME ProviderInv, NEW c \in Callers, NEW i \in DOMAIN jobs[c], StoreTotal(c, i)
  PROVE  ProviderInv'
<1>0. PICK ending \in Endings : jobs' = [jobs EXCEPT ![c][i] = Job(ending)]
  BY DEF StoreTotal
<1> DEFINE job == Job(ending)
<1>1. /\ jobs[c][i] \in JobRecords /\ jobs[c][i].state = "adding" /\ i \in Busy(c)
      /\ JobOK(jobs[c][i], Granted) /\ jobs[c][i].tokens # None
  BY JobTyped DEF ProviderInv, HeadersOK, StoreTotal, Busy, Completing, JobOK
<1>2. /\ job \in JobRecords /\ job.state \notin Completing /\ job.state # "adding"
      /\ job.tokens = None /\ job.remaining = None
  BY EndedJob
<1>3. /\ jobs' = [jobs EXCEPT ![c][i] = job]
      /\ UNCHANGED <<reporting, left, regained, call, reported, amiss>>
      /\ usage' = [usage EXCEPT !.total = jobs[c][i].base + jobs[c][i].tokens]
  BY <1>0 DEF StoreTotal, Sum
<1> HIDE DEF job
<1>4. JobOK(job, Granted') /\ left' \in 0 .. left
  BY <1>2, <1>3, Counters DEF JobOK, Granted
<1>5. /\ usage' \in [total : Nat, remaining : Nat \cup {None}]
      /\ usage'.total = jobs[c][i].base + jobs[c][i].tokens
      /\ usage'.remaining # None => usage'.remaining >= Granted'
  <2>1. jobs[c][i].base \in Nat /\ jobs[c][i].tokens \in Nat
    BY <1>1 DEF JobRecords
  <2>2. jobs[c][i].base + jobs[c][i].tokens \in Nat
    BY <2>1
  <2> QED
    BY <1>3, <2>2, Counters DEF Granted
<1>6. Typed' /\ JobsLeft' /\ HeadersOK'
  BY <1>2, <1>3, <1>4, <1>5, Counters, JobStepTyped
<1>7. ExactOK'
  <2>1. Due(job) = 0 /\ Due(jobs[c][i]) = jobs[c][i].tokens
    BY <1>1, <1>2 DEF Due
  <2>2. usage'.total \in Nat
    BY <1>5
  <2>3. jobs[c][i].base = usage.total /\ usage.total + Due(jobs[c][i]) = reported
          => usage'.total + Due(job) = reported'
    BY <1>3, <1>5, <2>1, <2>2
  <2> QED
    BY <1>1, <1>2, <1>3, <1>5, <2>1, <2>3, ExactStep
<1>8. Ledger'
  BY <1>1, <1>2, <1>3, <1>5, LedgerStored
<1> QED
  BY <1>6, <1>7, <1>8 DEF ProviderInv

-----------------------------------------------------------------------------
(* The caller's own steps *)

(* Steps that leave the counters alone and under way what was under way.   *)
LEMMA CallStep ==
  ASSUME ProviderInv, NEW c \in Callers,
         UNCHANGED <<usage, reporting, left, regained, reported, amiss>>,
         call' \in [Callers -> {"idle", "generate", "judge", "closing"}],
         jobs' \in [Callers -> Seq(JobRecords)],
         JobsLeft',
         \A d \in Callers : d # c => jobs'[d] = jobs[d],
         \A k \in DOMAIN jobs'[c] :
           \/ k \in DOMAIN jobs[c] /\ jobs'[c][k] = jobs[c][k]
           \/ /\ jobs'[c][k].state \notin Completing
              /\ jobs'[c][k].tokens = None /\ jobs'[c][k].remaining = None,
         \A k \in Busy(c) : k \in DOMAIN jobs'[c] /\ jobs'[c][k] = jobs[c][k]
  PROVE  ProviderInv'
<1>1. Typed'
  BY DEF ProviderInv, Typed
<1>2. HeadersOK'
  <2> SUFFICES ASSUME NEW d \in Callers, NEW k \in DOMAIN jobs'[d]
               PROVE  JobOK(jobs'[d][k], Granted)
    BY DEF ProviderInv, HeadersOK, JobOK, Granted
  <2>1. CASE k \in DOMAIN jobs[d] /\ jobs'[d][k] = jobs[d][k]
    BY <2>1 DEF ProviderInv, HeadersOK
  <2>2. CASE jobs'[d][k].tokens = None /\ jobs'[d][k].remaining = None
                /\ jobs'[d][k].state \notin Completing
    BY <2>2 DEF JobOK, Completing
  <2> QED
    BY <2>1, <2>2
<1>3. \A d \in Callers : Busy(d)' = Busy(d) /\ \A k \in Busy(d) : jobs'[d][k] = jobs[d][k]
  BY DEF Busy
<1>4. ExactOK'
  BY <1>3 DEF ProviderInv, ExactOK
<1>5. Ledger'
  <2>1. ASSUME NEW p \in Owing' PROVE p \in Owing /\ JobAt(p)' = JobAt(p)
    BY DEF Owing, JobAt, Places
  <2> QED
    BY <2>1, LedgerKept DEF ProviderInv
<1> QED
  BY <1>1, <1>2, <1>4, <1>5 DEF ProviderInv

LEMMA FreshJob ==
  ASSUME NEW state \in {"queued", "cancelled"}
  PROVE  /\ Job(state) \in JobRecords /\ Job(state).state = state
         /\ state \notin Completing
         /\ Job(state).tokens = None /\ Job(state).remaining = None
BY DEF Job, JobRecords, JobStates, Completing

LEMMA GenerateKeepsInv ==
  ASSUME ProviderInv, NEW c \in Callers, Generate(c)
  PROVE  ProviderInv'
<1>1. /\ UNCHANGED <<usage, reporting, left, regained, reported, amiss>>
      /\ call[c] = "idle" /\ jobs[c] = <<>>
  BY DEF Generate, ProviderInv, JobsLeft
<1>2. CASE NumSamples = 0
  <2>1. UNCHANGED jobs /\ call' = [call EXCEPT ![c] = "closing"]
    BY <1>2 DEF Generate
  <2>2. /\ call' \in [Callers -> {"idle", "generate", "judge", "closing"}]
        /\ jobs' \in [Callers -> Seq(JobRecords)]
    BY <2>1 DEF ProviderInv, Typed
  <2>3. JobsLeft'
    BY <2>1 DEF ProviderInv, Typed, JobsLeft
  <2> QED
    BY <1>1, <2>1, <2>2, <2>3, CallStep DEF Busy
<1>3. CASE NumSamples # 0
  <2> DEFINE mine == [i \in 1 .. NumSamples |-> Job("queued")]
  <2>1. jobs' = [jobs EXCEPT ![c] = mine] /\ call' = [call EXCEPT ![c] = "generate"]
    BY <1>3 DEF Generate
  <2>2. mine \in Seq(JobRecords) /\ DOMAIN mine = 1 .. NumSamples
    BY FreshJob, ProviderAssumption
  <2>3. \A i \in 1 .. NumSamples : mine[i] = Job("queued")
    OBVIOUS
  <2> HIDE DEF mine
  <2>4. /\ call' \in [Callers -> {"idle", "generate", "judge", "closing"}]
        /\ jobs' \in [Callers -> Seq(JobRecords)]
        /\ jobs'[c] = mine
        /\ \A d \in Callers : d # c => jobs'[d] = jobs[d]
    BY <2>1, <2>2 DEF ProviderInv, Typed
  <2>5. JobsLeft'
    BY <2>1, <2>4 DEF ProviderInv, Typed, JobsLeft
  <2>6. Busy(c) = {}
    BY <1>1 DEF Busy
  <2>7. \A k \in DOMAIN jobs'[c] :
          /\ jobs'[c][k].state \notin Completing
          /\ jobs'[c][k].tokens = None /\ jobs'[c][k].remaining = None
    BY <2>2, <2>3, <2>4, FreshJob
  <2> QED
    BY <1>1, <2>4, <2>5, <2>6, <2>7, CallStep
<1> QED
  BY <1>2, <1>3

LEMMA JudgeKeepsInv ==
  ASSUME ProviderInv, NEW c \in Callers, Judge(c)
  PROVE  ProviderInv'
<1>1. /\ UNCHANGED <<usage, reporting, left, regained, reported, amiss>>
      /\ call[c] = "idle" /\ jobs[c] = <<>>
      /\ jobs' = [jobs EXCEPT ![c] = <<Job("queued")>>]
      /\ call' = [call EXCEPT ![c] = "judge"]
  BY DEF Judge, ProviderInv, JobsLeft
<1>2. /\ <<Job("queued")>> \in Seq(JobRecords) /\ Len(<<Job("queued")>>) = 1
      /\ DOMAIN <<Job("queued")>> = {1} /\ <<Job("queued")>>[1] = Job("queued")
  BY FreshJob
<1>3. /\ call' \in [Callers -> {"idle", "generate", "judge", "closing"}]
      /\ jobs' \in [Callers -> Seq(JobRecords)]
      /\ jobs'[c] = <<Job("queued")>>
      /\ \A d \in Callers : d # c => jobs'[d] = jobs[d]
  BY <1>1, <1>2 DEF ProviderInv, Typed
<1>4. JobsLeft'
  BY <1>1, <1>2, <1>3 DEF ProviderInv, Typed, JobsLeft
<1>5. Busy(c) = {}
  BY <1>1 DEF Busy
<1>6. \A k \in DOMAIN jobs'[c] :
        /\ jobs'[c][k].state \notin Completing
        /\ jobs'[c][k].tokens = None /\ jobs'[c][k].remaining = None
  BY <1>2, <1>3, FreshJob
<1> QED
  BY <1>1, <1>3, <1>4, <1>5, <1>6, CallStep

LEMMA CancelKeepsInv ==
  ASSUME ProviderInv, NEW c \in Callers, Cancel(c)
  PROVE  ProviderInv'
<1> DEFINE mine == [i \in DOMAIN jobs[c] |->
                      IF jobs[c][i].state = "queued" THEN Job("cancelled") ELSE jobs[c][i]]
<1>1. /\ UNCHANGED <<usage, reporting, left, regained, reported, amiss>>
      /\ call' = [call EXCEPT ![c] = "closing"]
      /\ jobs' = [jobs EXCEPT ![c] = mine]
  BY DEF Cancel, ProviderInv, Typed
<1>2. mine \in Seq(JobRecords) /\ DOMAIN mine = DOMAIN jobs[c]
  <2>1. jobs[c] \in Seq(JobRecords)
    BY DEF ProviderInv, Typed
  <2>2. \A i \in 1 .. Len(jobs[c]) : jobs[c][i] \in JobRecords
    BY <2>1
  <2> QED
    BY <2>1, <2>2, FreshJob
<1>3. \A i \in DOMAIN jobs[c] :
        mine[i] = IF jobs[c][i].state = "queued" THEN Job("cancelled") ELSE jobs[c][i]
  OBVIOUS
<1> HIDE DEF mine
<1>4. /\ call' \in [Callers -> {"idle", "generate", "judge", "closing"}]
      /\ jobs' \in [Callers -> Seq(JobRecords)]
      /\ jobs'[c] = mine
      /\ \A d \in Callers : d # c => jobs'[d] = jobs[d]
  BY <1>1, <1>2 DEF ProviderInv, Typed
<1>5. JobsLeft'
  BY <1>1, <1>4 DEF ProviderInv, Typed, JobsLeft
<1>6. \A k \in DOMAIN jobs'[c] :
        \/ k \in DOMAIN jobs[c] /\ jobs'[c][k] = jobs[c][k]
        \/ /\ jobs'[c][k].state \notin Completing
           /\ jobs'[c][k].tokens = None /\ jobs'[c][k].remaining = None
  BY <1>2, <1>3, <1>4, FreshJob
<1>7. \A k \in Busy(c) : k \in DOMAIN jobs'[c] /\ jobs'[c][k] = jobs[c][k]
  BY <1>2, <1>3, <1>4 DEF Busy, Completing
<1> QED
  BY <1>1, <1>4, <1>5, <1>6, <1>7, CallStep

(* generate and judge are left with no completion under way: the pool's    *)
(* exit waits for them, and a list that is returned is complete.           *)
LEMMA LeaveKeepsInv ==
  ASSUME ProviderInv, NEW c \in Callers,
         GenerateReturns(c) \/ GenerateRaises(c) \/ JudgeReturns(c) \/ JudgeRaises(c)
  PROVE  ProviderInv'
<1>1. Leave(c)
  BY DEF GenerateReturns, GenerateRaises, JudgeReturns, JudgeRaises
<1>2. Busy(c) = {}
  <2>1. CASE GenerateReturns(c) \/ GenerateRaises(c)
    BY <2>1 DEF GenerateReturns, GenerateRaises, Closed, Busy, Completing
  <2>2. CASE JudgeReturns(c) \/ JudgeRaises(c)
    <3>1. Len(jobs[c]) = 1 /\ jobs[c][1].state \in {"done", "failed"}
      BY <2>2 DEF JudgeReturns, JudgeRaises, ProviderInv, JobsLeft
    <3>2. DOMAIN jobs[c] = 1 .. 1
      BY <3>1 DEF ProviderInv, Typed
    <3> QED
      BY <3>1, <3>2 DEF Busy, Completing
  <2> QED
    BY <2>1, <2>2
<1>3. /\ UNCHANGED <<usage, reporting, left, regained, reported, amiss>>
      /\ call' = [call EXCEPT ![c] = "idle"] /\ jobs' = [jobs EXCEPT ![c] = <<>>]
  BY <1>1, <1>2 DEF Leave
<1>4. /\ call' \in [Callers -> {"idle", "generate", "judge", "closing"}]
      /\ jobs' \in [Callers -> Seq(JobRecords)] /\ jobs'[c] = <<>>
      /\ \A d \in Callers : d # c => jobs'[d] = jobs[d]
  BY <1>3 DEF ProviderInv, Typed
<1>5. JobsLeft'
  BY <1>3, <1>4 DEF ProviderInv, Typed, JobsLeft
<1> QED
  BY <1>2, <1>3, <1>4, <1>5, CallStep

LEMMA ProviderStepKeepsInv ==
  ASSUME ProviderInv, NEW c \in Callers, ProviderStep(c)
  PROVE  ProviderInv'
<1>1. CASE Cancel(c)
  BY <1>1, CancelKeepsInv
<1>2. ASSUME NEW i \in DOMAIN jobs[c], Complete(c, i) PROVE ProviderInv'
  BY <1>2, SendKeepsInv, ServeKeepsInv, RefusedKeepsInv, RecordHeadersKeepsInv,
     UnparsedKeepsInv, NoUsageKeepsInv, LoadTotalKeepsInv, StoreTotalKeepsInv DEF Complete
<1> QED
  BY <1>1, <1>2 DEF ProviderStep

(* The window moves on: one request more is left, and none of those        *)
(* granted at first.                                                       *)
LEMMA RegainKeepsInv ==
  ASSUME ProviderInv, Regain
  PROVE  ProviderInv'
<1>1. /\ left' = left + 1 /\ regained' = regained + 1
      /\ left < Budget /\ regained < Regains
      /\ UNCHANGED <<usage, reporting, call, jobs, reported, amiss>>
  BY DEF Regain
<1>2. Granted' = Granted /\ left' \in 0 .. Budget /\ regained' \in 0 .. Regains
  BY <1>1, Counters, ProviderAssumption DEF Granted
<1>3. Typed' /\ JobsLeft'
  BY <1>1, <1>2 DEF ProviderInv, Typed, JobsLeft
<1>4. HeadersOK'
  BY <1>1, <1>2 DEF ProviderInv, HeadersOK, JobOK
<1>5. ExactOK'
  BY <1>1 DEF ProviderInv, ExactOK, Busy, Due
<1>6. Ledger'
  BY <1>1, LedgerKept DEF ProviderInv, Owing, JobAt
<1> QED
  BY <1>3, <1>4, <1>5, <1>6 DEF ProviderInv

LEMMA ProviderInitInv == ProviderInit => ProviderInv
<1> SUFFICES ASSUME ProviderInit PROVE ProviderInv
  OBVIOUS
<1>1. Typed /\ JobsLeft
  <2>1. jobs \in [Callers -> Seq(JobRecords)]
    <3>1. <<>> \in Seq(JobRecords)
      OBVIOUS
    <3> QED
      BY <3>1 DEF ProviderInit
  <2>2. usage \in [total : Nat, remaining : Nat \cup {None}]
    BY DEF ProviderInit
  <2>3. left \in 0 .. Budget /\ regained \in 0 .. Regains /\ reported \in Nat
    BY ProviderAssumption DEF ProviderInit
  <2>6. reporting \in BOOLEAN /\ amiss \in BOOLEAN
    BY Zenon DEF ProviderInit
  <2>4. call \in [Callers -> {"idle", "generate", "judge", "closing"}]
    BY DEF ProviderInit
  <2>5. JobsLeft
    BY DEF ProviderInit, JobsLeft
  <2> QED
    BY <2>1, <2>2, <2>3, <2>4, <2>5, <2>6 DEF Typed
<1>2. \A c \in Callers : DOMAIN jobs[c] = {}
  BY DEF ProviderInit
<1>3. HeadersOK /\ ExactOK
  BY <1>2 DEF ProviderInit, HeadersOK, ExactOK, Busy
<1>4. Ledger
  <2>1. Owing = {}
    BY <1>2 DEF Owing, Places
  <2>2. {} \in SUBSET (1 .. reported)
        /\ [p \in Places |-> {}] \in [Places -> SUBSET (1 .. reported)]
    OBVIOUS
  <2>3. \A units, bases : Accounted({}, units, bases)
    BY <2>1, FS_EmptySet DEF Accounted, ProviderInit
  <2> QED
    BY <2>2, <2>3 DEF Ledger
<1> QED
  BY <1>1, <1>3, <1>4 DEF ProviderInv

LEMMA ProviderStutters ==
  ASSUME ProviderInv, UNCHANGED providerVars
  PROVE  ProviderInv'
<1>1. Typed' /\ JobsLeft' /\ HeadersOK' /\ ExactOK'
  BY DEF ProviderInv, Typed, JobsLeft, HeadersOK, JobOK, Granted, ExactOK, Busy, Due,
         providerVars
<1>2. Ledger'
  BY LedgerKept DEF ProviderInv, providerVars, Owing, JobAt
<1> QED
  BY <1>1, <1>2 DEF ProviderInv

-----------------------------------------------------------------------------
(* What the invariant says *)

LEMMA InvImpliesUsageOK == ProviderInv => UsageOK
<1> SUFFICES ASSUME ProviderInv PROVE UsageOK
  OBVIOUS
<1>1. \A c \in Callers : \A i \in DOMAIN jobs[c] : jobs[c][i] \in JobRecords
  BY JobTyped DEF ProviderInv
<1> QED
  BY <1>1 DEF UsageOK, ProviderInv, Typed, JobRecords

(* The units counted are some of the units reported.                       *)
LEMMA InvImpliesAccounts == ProviderInv => AccountsErrOneWay
<1> SUFFICES ASSUME ProviderInv PROVE AccountsErrOneWay
  OBVIOUS
<1>1. PICK counted \in SUBSET (1 .. reported) : Cardinality(counted) = usage.total
  BY DEF ProviderInv, Ledger, Accounted
<1>2. IsFiniteSet(1 .. reported) /\ Cardinality(1 .. reported) = reported
  <2>1. 1 \in Int /\ reported \in Int /\ reported \in Nat
    BY Counters
  <2>2. /\ IsFiniteSet(1 .. reported)
        /\ Cardinality(1 .. reported) = IF 1 > reported THEN 0 ELSE reported - 1 + 1
    BY <2>1, FS_Interval
  <2> QED
    BY <2>1, <2>2
<1>3. Cardinality(counted) <= Cardinality(1 .. reported)
  BY <1>2, FS_Subset
<1> QED
  BY <1>1, <1>2, <1>3, Counters DEF AccountsErrOneWay, Granted

LEMMA InvImpliesExact == ProviderInv => ExactUntilOverlap
BY DEF ProviderInv, ExactOK, ExactUntilOverlap

LEMMA InvImpliesNoStray == ProviderInv => NoStrayCompletions
<1> SUFFICES ASSUME ProviderInv, NEW c \in Callers, call[c] = "idle" PROVE Busy(c) = {}
  BY DEF NoStrayCompletions
<1>1. jobs[c] = <<>>
  BY DEF ProviderInv, JobsLeft
<1> QED
  BY <1>1 DEF Busy
=============================================================================
