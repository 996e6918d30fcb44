------------------------ MODULE SchemaCache_proofs ------------------------
(***************************************************************************)
(* Theorems about SchemaCache, for every number of threads, every set of   *)
(* tables and every time to live.                                          *)
(*                                                                         *)
(* The link between the two unlocked fields is that the date never runs    *)
(* ahead of the moment the schema was put there: a thread dates an entry   *)
(* with a stamp older than its own write of the schema, and whoever writes *)
(* the schema after it writes it later still.                              *)
(***************************************************************************)
EXTENDS SchemaCache, TLAPS

(* Whatever the interleaving. *)
Dating ==
  /\ cachedAt <= clock
  /\ cache = None => cachedAt = 0
  /\ cache # None => cachedAt <= cache.written /\ cache.written <= clock
  /\ \A t \in Threads :
       /\ calls[t].now <= clock
       /\ At(t, "date") => cache # None /\ calls[t].now <= cache.written
       /\ At(t, "serve") => cache # None /\ calls[t].now - cache.written < TTL

(* As long as one thread introspects at a time. *)
Alone ==
  ~overlapped =>
    /\ \A t, u \in Threads : Introspecting(t) /\ Introspecting(u) => t = u
    /\ cache # None => cachedAt <= cache.read
    /\ \A t \in Threads :
         /\ Introspecting(t) => cachedAt <= calls[t].now /\ calls[t].now <= calls[t].read
         /\ At(t, "date") => cache # None /\ calls[t].now <= cache.read
         /\ At(t, "serve") => calls[t].now - cachedAt < TTL

IInv == TypeOK /\ Dating /\ Alone

(* When one statement reads all tables: a call has seen nothing, or one    *)
(* version of them all.                                                    *)
OfOneVersion(schema) ==
  \E v \in 0 .. live : \A x \in DOMAIN schema : schema[x] = v

Snapshots ==
  /\ \A t \in Threads :
       \/ calls[t].schema = EmptyDict
       \/ OfOneVersion(calls[t].schema)
  /\ CachedIsSnapshot
Call == [stage : Stages, now : Nat, schema : Seen, read : Nat]

-----------------------------------------------------------------------------
LEMMA EmptySeen == EmptyDict \in Seen /\ DOMAIN EmptyDict = {}
<1>1. EmptyDict \in [{} -> Versions] /\ DOMAIN EmptyDict = {}
  BY DEF EmptyDict
<1>2. {} \in SUBSET Tables
  OBVIOUS
<1> QED
  BY <1>1, <1>2 DEF Seen

(* What has been seen when every table has been. *)
LEMMA SeenAll ==
  ASSUME NEW schema \in Seen, DOMAIN schema = Tables
  PROVE  schema \in [Tables -> Versions]
BY DEF Seen

LEMMA IdleTyped == Idle \in Call /\ [Idle EXCEPT !.stage = "check"] \in Call
BY EmptySeen DEF Idle, Call, Stages

(* A statement adds the tables it reads to those seen. *)
LEMMA SeenMore ==
  ASSUME NEW schema \in Seen, NEW tables \in Statements, live \in Versions
  PROVE  [x \in DOMAIN schema \cup tables |-> IF x \in tables THEN live ELSE schema[x]]
           \in Seen
<1>1. PICK seen \in SUBSET Tables : schema \in [seen -> Versions]
  BY DEF Seen
<1>2. DOMAIN schema = seen /\ seen \cup tables \in SUBSET Tables
  BY <1>1, SchemaCacheAssumption
<1>3. [x \in DOMAIN schema \cup tables |-> IF x \in tables THEN live ELSE schema[x]]
        \in [seen \cup tables -> Versions]
  BY <1>1, <1>2
<1> QED
  BY <1>2, <1>3 DEF Seen

(* The fields keep their types: a schema in the cache is always complete.  *)
THEOREM TypeCorrect == Spec => []TypeOK
<1> USE DEF Call
<1>1. Init => TypeOK
  <2> SUFFICES ASSUME Init PROVE TypeOK
    OBVIOUS
  <2>1. Idle \in Call
    BY IdleTyped
  <2>2. clock \in Nat /\ live \in Versions
    BY SchemaCacheAssumption DEF Init, Versions
  <2> QED
    BY <2>1, <2>2 DEF Init, TypeOK
<1>2. TypeOK /\ [Next]_vars => TypeOK'
  <2> SUFFICES ASSUME TypeOK, [Next]_vars PROVE TypeOK'
    OBVIOUS
  <2>1. CASE Tick
    BY <2>1 DEF Tick, TypeOK
  <2>2. CASE Migrate
    BY <2>2, SchemaCacheAssumption DEF Migrate, TypeOK, Versions
  <2> SUFFICES ASSUME NEW t \in Threads,
                      Enter(t) \/ Fresh(t) \/ Serve(t) \/ Stale(t)
                        \/ Read(t) \/ Fail(t) \/ StoreSchema(t) \/ StoreDate(t)
               PROVE  TypeOK'
    BY <2>1, <2>2 DEF Next, vars, TypeOK
  <2>3. calls[t] \in Call /\ clock \in Nat /\ live \in Versions
    BY DEF TypeOK
  <2>4. CASE Enter(t)
    <3>1. [Idle EXCEPT !.stage = "check", !.now = clock] \in Call
      BY <2>3, EmptySeen DEF Idle, Stages
    <3> QED
      BY <2>4, <3>1 DEF Enter, TypeOK
  <2>5. CASE Fresh(t)
    BY <2>3, <2>5 DEF Fresh, TypeOK, Stages
  <2>6. CASE Serve(t) \/ Fail(t)
    BY <2>6, IdleTyped DEF Serve, Fail, TypeOK
  <2>7. CASE Stale(t)
    BY <2>3, <2>7 DEF Stale, TypeOK, Stages
  <2>8. CASE Read(t)
    <3>1. PICK tables \in Statements :
            calls' = [calls EXCEPT ![t].schema =
                        [x \in DOMAIN @ \cup tables |->
                           IF x \in tables THEN live ELSE @[x]]]
      BY <2>8 DEF Read, AtOnce
    <3> DEFINE more == [x \in DOMAIN calls[t].schema \cup tables |->
                          IF x \in tables THEN live ELSE calls[t].schema[x]]
    <3>2. more \in Seen
      BY <2>3, SeenMore
    <3>3. calls' = [calls EXCEPT ![t] = [calls[t] EXCEPT !.schema = more]]
      BY <2>3, <3>1 DEF TypeOK
    <3> HIDE DEF more
    <3> QED
      BY <2>3, <2>8, <3>2, <3>3 DEF Read, TypeOK
  <2>9. CASE StoreSchema(t)
    <3>1. calls[t].schema \in [Tables -> Versions]
      BY <2>3, <2>9, SeenAll DEF StoreSchema, AllRead
    <3>2. cache' \in Entries
      BY <2>3, <2>9, <3>1 DEF StoreSchema, Entries
    <3> QED
      BY <2>3, <2>9, <3>2 DEF StoreSchema, TypeOK, Stages
  <2>10. CASE StoreDate(t)
    BY <2>3, <2>10, IdleTyped DEF StoreDate, Dated, TypeOK
  <2> QED
    BY <2>4, <2>5, <2>6, <2>7, <2>8, <2>9, <2>10
<1> QED
  BY <1>1, <1>2, PTL DEF Spec

-----------------------------------------------------------------------------
(* A step moves the clock, the database or one thread.                     *)
Moves(t) ==
  Enter(t) \/ Fresh(t) \/ Serve(t) \/ Stale(t)
    \/ Read(t) \/ Fail(t) \/ StoreSchema(t) \/ StoreDate(t)

(* A thread that moves leaves the calls of the others alone.               *)
LEMMA OthersStay ==
  ASSUME TypeOK, NEW t \in Threads, Moves(t)
  PROVE  \A u \in Threads : u # t => calls'[u] = calls[u]
<1> USE DEF TypeOK
<1>1. CASE Enter(t) \/ Fresh(t) \/ Serve(t) \/ Stale(t)
  BY <1>1 DEF Enter, Fresh, Serve, Stale
<1>2. CASE Read(t)
  BY <1>2 DEF Read
<1>3. CASE Fail(t) \/ StoreSchema(t) \/ StoreDate(t)
  BY <1>3 DEF Fail, StoreSchema, StoreDate
<1> QED
  BY <1>1, <1>2, <1>3 DEF Moves

LEMMA DatingKept == TypeOK /\ TypeOK' /\ Dating /\ [Next]_vars => Dating'
<1> SUFFICES ASSUME TypeOK, TypeOK', Dating, [Next]_vars PROVE Dating'
  OBVIOUS
<1>1. CASE Tick
  BY <1>1 DEF Tick, Dating, TypeOK, At, Entries
<1>2. CASE Migrate \/ UNCHANGED vars
  BY <1>2 DEF Migrate, vars, Dating, At
<1> SUFFICES ASSUME NEW t \in Threads, Moves(t) PROVE Dating'
  BY <1>1, <1>2 DEF Next, Moves
<1>3. /\ calls[t].now \in Nat /\ clock \in Nat /\ cachedAt \in Nat
      /\ calls[t].now <= clock
      /\ cache # None => cache.written \in Nat
  BY DEF TypeOK, Dating, Entries
<1>4. CASE Enter(t)
  BY <1>3, <1>4, OthersStay DEF Enter, Dating, TypeOK, At, Idle
<1>5. CASE Fresh(t)
  BY <1>3, <1>5, OthersStay, SchemaCacheAssumption DEF Fresh, Good, Dating, TypeOK, At
<1>6. CASE Serve(t) \/ Fail(t)
  BY <1>3, <1>6, OthersStay DEF Serve, Fail, Dating, TypeOK, At, Idle
<1>7. CASE Stale(t)
  BY <1>3, <1>7, OthersStay DEF Stale, Dating, TypeOK, At
<1>8. CASE Read(t)
  <2>1. calls'[t].stage = "read" /\ calls'[t].now = calls[t].now
    BY <1>8 DEF Read, At, TypeOK
  <2> QED
    BY <1>3, <1>8, <2>1, OthersStay DEF Read, Dating, At
<1>9. CASE StoreSchema(t)
  <2>1. cache' # None /\ cache'.written = clock
    BY <1>9, SchemaCacheAssumption, SeenAll DEF StoreSchema, AllRead, TypeOK, Entries
  <2>2. calls'[t].stage = "date" /\ calls'[t].now = calls[t].now
    BY <1>9 DEF StoreSchema, TypeOK
  <2>3. ASSUME NEW u \in Threads, u # t
        PROVE  /\ calls'[u].now <= clock
               /\ At(u, "date")' => calls'[u].now <= clock
               /\ At(u, "serve")' => calls'[u].now - clock < TTL
    <3>1. calls'[u] = calls[u] /\ calls[u].now \in Nat
      BY <2>3, OthersStay DEF TypeOK
    <3>2. At(u, "date") => calls[u].now <= clock
      BY <1>3, <3>1 DEF Dating
    <3>3. At(u, "serve") => calls[u].now - clock < TTL
      BY <1>3, <3>1, SchemaCacheAssumption DEF Dating
    <3>4. calls[u].now <= clock
      BY DEF Dating
    <3> QED
      BY <1>9, <3>1, <3>2, <3>3, <3>4 DEF At, StoreSchema
  <2> QED
    BY <1>3, <1>9, <2>1, <2>2, <2>3 DEF StoreSchema, Dating, At
<1>10. CASE StoreDate(t)
  BY <1>3, <1>10, OthersStay DEF StoreDate, Dated, Dating, TypeOK, At, Idle
<1> QED
  BY <1>4, <1>5, <1>6, <1>7, <1>8, <1>9, <1>10 DEF Moves

LEMMA AloneKept == TypeOK /\ TypeOK' /\ Dating /\ Alone /\ [Next]_vars => Alone'
<1> SUFFICES ASSUME TypeOK, TypeOK', Dating, Alone, [Next]_vars, ~overlapped' PROVE Alone'
  BY DEF Alone
<1>1. CASE Tick \/ Migrate \/ UNCHANGED vars
  BY <1>1 DEF Tick, Migrate, vars, Alone, At, Introspecting
<1> SUFFICES ASSUME NEW t \in Threads, Moves(t) PROVE Alone'
  BY <1>1 DEF Next, Moves
<1>2. ~overlapped
  BY DEF Moves, Enter, Fresh, Serve, Stale, Read, Fail, StoreSchema, StoreDate
<1>3. /\ calls[t].now \in Nat /\ calls[t].read \in Nat /\ clock \in Nat /\ cachedAt \in Nat
      /\ calls[t].now <= clock
      /\ cache # None => cache.read \in Nat
  BY DEF TypeOK, Dating, Entries
<1>4. CASE Enter(t)
  BY <1>2, <1>3, <1>4, OthersStay DEF Enter, Alone, TypeOK, At, Introspecting, Idle
<1>5. CASE Fresh(t)
  BY <1>2, <1>3, <1>5, OthersStay DEF Fresh, Good, Alone, TypeOK, At, Introspecting
<1>6. CASE Serve(t) \/ Fail(t)
  BY <1>2, <1>3, <1>6, OthersStay DEF Serve, Fail, Alone, TypeOK, At, Introspecting, Idle
<1>7. CASE Stale(t)
  <2>1. \A u \in Threads : ~Introspecting(u)
    BY <1>7 DEF Stale
  <2>2. /\ calls'[t].stage = "read" /\ calls'[t].now = calls[t].now
        /\ calls'[t].read = clock
    BY <1>7 DEF Stale, TypeOK
  <2>3. cachedAt <= calls[t].now
    BY <1>3, <1>7, SchemaCacheAssumption DEF Stale, Good, Dating
  <2> QED
    BY <1>2, <1>3, <1>7, <2>1, <2>2, <2>3, OthersStay DEF Stale, Alone, At, Introspecting
<1>8. CASE Read(t)
  <2>1. /\ calls'[t].stage = "read" /\ calls'[t].now = calls[t].now
        /\ calls'[t].read = calls[t].read /\ calls[t].stage = "read"
    BY <1>8 DEF Read, At, TypeOK
  <2> QED
    BY <1>2, <1>3, <1>8, <2>1, OthersStay DEF Read, Alone, At, Introspecting
<1>9. CASE StoreSchema(t)
  <2>1. cache' # None /\ cache'.read = calls[t].read
    BY <1>9, SchemaCacheAssumption, SeenAll DEF StoreSchema, AllRead, TypeOK, Entries
  <2>2. /\ calls'[t].stage = "date" /\ calls'[t].now = calls[t].now
        /\ calls'[t].read = calls[t].read /\ calls[t].stage = "read"
    BY <1>9 DEF StoreSchema, AllRead, TypeOK
  <2>3. cachedAt <= calls[t].now /\ calls[t].now <= calls[t].read
    BY <1>2, <2>2 DEF Alone, Introspecting
  <2> QED
    BY <1>2, <1>3, <1>9, <2>1, <2>2, <2>3, OthersStay
       DEF StoreSchema, Alone, At, Introspecting
<1>10. CASE StoreDate(t)
  <2>1. /\ cachedAt' = calls[t].now /\ cachedAt <= calls[t].now
        /\ cache # None /\ calls[t].now <= cache.read /\ cache' = cache
        /\ calls'[t].stage = "idle" /\ Introspecting(t)
    BY <1>2, <1>10 DEF StoreDate, Dated, Alone, TypeOK, At, Introspecting, Idle
  <2>2. \A u \in Threads : u # t => calls'[u] = calls[u] /\ ~Introspecting(u)
    BY <1>2, <2>1, OthersStay DEF Alone
  <2>3. \A u \in Threads : u # t /\ At(u, "serve") => calls[u].now - cachedAt' < TTL
    BY <1>2, <1>3, <2>1, SchemaCacheAssumption DEF Alone, TypeOK
  <2> QED
    BY <2>1, <2>2, <2>3 DEF Alone, At, Introspecting
<1> QED
  BY <1>4, <1>5, <1>6, <1>7, <1>8, <1>9, <1>10 DEF Moves

LEMMA Invariance == Spec => []IInv
<1>1. Init => Dating /\ Alone
  <2> SUFFICES ASSUME Init PROVE Dating /\ Alone
    OBVIOUS
  <2>1. clock \in Nat /\ cachedAt = 0 /\ cache = None
    BY SchemaCacheAssumption DEF Init
  <2>2. \A t \in Threads : calls[t].stage = "idle" /\ calls[t].now = 0
    BY DEF Init, Idle
  <2> QED
    BY <2>1, <2>2 DEF Dating, Alone, At, Introspecting
<1> QED
  BY <1>1, TypeCorrect, DatingKept, AloneKept, PTL DEF Spec, IInv

(* What is served is never stale in the cache, torn pair or not.           *)
THEOREM ServedRecent == Spec => ServedIsRecent
<1>1. ASSUME IInv
      PROVE  \A t \in Threads :
               Serve(t) => cache # None /\ calls[t].now - cache.written < TTL
  BY <1>1 DEF IInv, Dating, Serve
<1> QED
  BY <1>1, Invariance, PTL DEF ServedIsRecent

(* Without overlap the time to live bounds the age of the schema itself.   *)
THEOREM AgedOnlyByOverlap == Spec => AgedByOverlapOnly
<1>1. ASSUME IInv
      PROVE  \A t \in Threads :
               Serve(t) /\ ~overlapped => calls[t].now - cache.read < TTL
  <2> SUFFICES ASSUME NEW t \in Threads, Serve(t), ~overlapped
               PROVE  calls[t].now - cache.read < TTL
    OBVIOUS
  <2>1. cache # None /\ cachedAt <= cache.read /\ calls[t].now - cachedAt < TTL
    BY <1>1 DEF IInv, Dating, Alone, Serve
  <2>2. cachedAt \in Nat /\ cache.read \in Nat /\ calls[t].now \in Nat
    BY <1>1, <2>1 DEF IInv, TypeOK, Entries
  <2> QED
    BY <2>1, <2>2, SchemaCacheAssumption
<1> QED
  BY <1>1, Invariance, PTL DEF AgedByOverlapOnly

-----------------------------------------------------------------------------
(* A database that is read with one statement, as src/app/db.py does, only *)
(* ever yields schemas it has had.                                         *)
THEOREM OneStatementIsSnapshot ==
  ASSUME Statements = {Tables}
  PROVE  Spec => []CachedIsSnapshot
<1>1. Init => Snapshots
  BY DEF Init, Snapshots, CachedIsSnapshot, Idle
<1>2. TypeOK /\ TypeOK' /\ Snapshots /\ [Next]_vars => Snapshots'
  <2> SUFFICES ASSUME TypeOK, TypeOK', Snapshots, [Next]_vars PROVE Snapshots'
    OBVIOUS
  <2>1. CASE Tick \/ UNCHANGED vars
    BY <2>1 DEF Tick, vars, Snapshots, CachedIsSnapshot, OfOneVersion
  <2>2. CASE Migrate
    <3>1. live \in Nat /\ live' \in Nat /\ 0 .. live \subseteq 0 .. live'
      BY <2>2 DEF Migrate, TypeOK, Versions
    <3> QED
      BY <2>2, <3>1 DEF Migrate, Snapshots, CachedIsSnapshot, OfOneVersion
  <2> SUFFICES ASSUME NEW t \in Threads, Moves(t) PROVE Snapshots'
    BY <2>1, <2>2 DEF Next, Moves
  <2>3. live' = live
    BY DEF Moves, Enter, Fresh, Serve, Stale, Read, Fail, StoreSchema, StoreDate
  <2>4. ASSUME calls'[t].schema = EmptyDict \/ OfOneVersion(calls'[t].schema),
               cache' = cache
        PROVE  Snapshots'
    BY <2>3, <2>4, OthersStay DEF Snapshots, CachedIsSnapshot, OfOneVersion
  <2>5. CASE Enter(t)
    BY <2>4, <2>5 DEF Enter, Idle, TypeOK
  <2>6. CASE Fresh(t) \/ Stale(t)
    BY <2>4, <2>6 DEF Fresh, Stale, TypeOK, Snapshots
  <2>7. CASE Serve(t) \/ Fail(t) \/ StoreDate(t)
    BY <2>4, <2>7 DEF Serve, Fail, StoreDate, Idle, TypeOK
  <2>8. CASE Read(t)
    <3>1. calls' = [calls EXCEPT ![t].schema =
                      [x \in DOMAIN @ \cup Tables |-> IF x \in Tables THEN live ELSE @[x]]]
      BY <2>8 DEF Read, AtOnce
    <3>2. DOMAIN calls[t].schema \subseteq Tables
      BY DEF TypeOK, Seen
    <3>3. calls'[t].schema = [x \in Tables |-> live]
      BY <3>1, <3>2 DEF TypeOK
    <3>4. live \in 0 .. live
      BY DEF TypeOK, Versions
    <3> QED
      BY <2>4, <2>8, <3>3, <3>4 DEF Read, OfOneVersion
  <2>9. CASE StoreSchema(t)
    <3>1. /\ DOMAIN calls[t].schema = Tables
          /\ calls'[t].schema = calls[t].schema
          /\ cache'.schema = calls[t].schema
      BY <2>9 DEF StoreSchema, AllRead, TypeOK
    <3>2. \E v \in 0 .. live : \A x \in Tables : calls[t].schema[x] = v
      <4>1. CASE calls[t].schema = EmptyDict
        <5>1. Tables = {} /\ 0 \in 0 .. live
          BY <3>1, <4>1, EmptySeen DEF TypeOK, Versions
        <5> QED
          BY <5>1
      <4> QED
        BY <3>1, <4>1 DEF Snapshots, OfOneVersion
    <3>3. CachedIsSnapshot'
      BY <2>3, <3>1, <3>2 DEF CachedIsSnapshot
    <3>4. calls'[t].schema = EmptyDict \/ OfOneVersion(calls'[t].schema)
      BY <3>1 DEF Snapshots
    <3> QED
      BY <2>3, <3>3, <3>4, OthersStay DEF Snapshots, OfOneVersion
  <2> QED
    BY <2>5, <2>6, <2>7, <2>8, <2>9 DEF Moves
<1>3. Snapshots => CachedIsSnapshot
  BY DEF Snapshots
<1> QED
  BY <1>1, <1>2, <1>3, TypeCorrect, PTL DEF Spec
=============================================================================
