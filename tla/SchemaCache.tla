---------------------------- MODULE SchemaCache ----------------------------
(***************************************************************************)
(* load_schema of src/app/db.py and src/app/sqlalchemy_db.py: a schema and *)
(* the time it is dated, two fields that the threads of the server read    *)
(* and write without a lock.                                               *)
(*                                                                         *)
(* Each access to a field is a step of its own, but for the test that the  *)
(* cache is not None, which is taken with the read of the date: the cache  *)
(* is never emptied, so a thread between the two learns nothing new.       *)
(*                                                                         *)
(* A schema maps each table to the version of the database in which it was *)
(* seen.  db.py reads all tables with one statement; sqlalchemy_db.py asks *)
(* for one table after the other.                                          *)
(***************************************************************************)
EXTENDS Integers, Dicts

CONSTANTS
  Threads,
  Tables,
  Statements,   \* the sets of tables that are read at once
  TTL,          \* settings.schema_cache_ttl_seconds, in ticks
  MaxClock,     \* bound: the clock stops here
  MaxVersion,   \* bound: no migration after this one
  None          \* Python's None

(* The versions of the database's schema. *)
Versions == 0 .. MaxVersion

(* What the cache holds.  read and written are history: when its           *)
(* introspection began, and when it was put into the cache.                *)
Entries == [schema : [Tables -> Versions], read : Nat, written : Nat]

ASSUME SchemaCacheAssumption ==
  /\ UNION Statements = Tables
  /\ TTL \in Nat /\ MaxClock \in Nat /\ MaxVersion \in Nat
  /\ None \notin Entries

VARIABLES
  clock,       \* time.monotonic(), in ticks
  live,        \* the version the database has now
  calls,       \* calls[t]: the locals of thread t's call of load_schema
  cache,       \* _schema_cache: an entry or None
  cachedAt,    \* _schema_cached_at
  overlapped   \* history: two threads have introspected at once

vars == <<clock, live, calls, cache, cachedAt, overlapped>>

Idle == [stage |-> "idle", now |-> 0, schema |-> EmptyDict, read |-> 0]

Init ==
  /\ clock \in 0 .. TTL
  /\ live = 0
  /\ calls = [t \in Threads |-> Idle]
  /\ cache = None
  /\ cachedAt = 0
  /\ overlapped = FALSE

At(t, stage) == calls[t].stage = stage

Introspecting(t) == calls[t].stage \in {"read", "date"}

(* load_schema is entered: now = time.monotonic() *)
Enter(t) ==
  /\ At(t, "idle")
  /\ calls' = [calls EXCEPT ![t] = [Idle EXCEPT !.stage = "check", !.now = clock]]
  /\ UNCHANGED <<clock, live, cache, cachedAt, overlapped>>

(* A plausible bug: the cache is good for one more instant. *)
GoodInclusive(now) == cache # None /\ now - cachedAt <= TTL

(* the condition of the early return *)
Good(now) == cache # None /\ now - cachedAt < TTL

(* the condition holds ... *)
Fresh(t) ==
  /\ At(t, "check")
  /\ Good(calls[t].now)
  /\ calls' = [calls EXCEPT ![t].stage = "serve"]
  /\ UNCHANGED <<clock, live, cache, cachedAt, overlapped>>

(* ... and the cache, read once more, is returned *)
Serve(t) ==
  /\ At(t, "serve")
  /\ calls' = [calls EXCEPT ![t] = Idle]
  /\ UNCHANGED <<clock, live, cache, cachedAt, overlapped>>

(* the condition does not hold: the database is asked *)
Stale(t) ==
  /\ At(t, "check")
  /\ ~Good(calls[t].now)
  /\ calls' = [calls EXCEPT ![t].stage = "read", ![t].read = clock]
  /\ overlapped' = (overlapped \/ \E u \in Threads : Introspecting(u))
  /\ UNCHANGED <<clock, live, cache, cachedAt>>

(* A plausible bug: tables are looked up one by one. *)
OneByOne == {{table} : table \in Tables}

AtOnce == Statements

(* a statement of the introspection *)
Read(t) ==
  /\ At(t, "read")
  /\ \E tables \in AtOnce :
       /\ tables \cap DOMAIN calls[t].schema = {}
       /\ calls' = [calls EXCEPT ![t].schema =
                       [x \in DOMAIN @ \cup tables |->
                          IF x \in tables THEN live ELSE @[x]]]
  /\ UNCHANGED <<clock, live, cache, cachedAt, overlapped>>

(* the connection or a statement fails: load_schema raises *)
Fail(t) ==
  /\ At(t, "read")
  /\ calls' = [calls EXCEPT ![t] = Idle]
  /\ UNCHANGED <<clock, live, cache, cachedAt, overlapped>>

(* A plausible bug: what has been read so far is good enough. *)
AnyRead(c) == c.stage = "read"

AllRead(c) == c.stage = "read" /\ DOMAIN c.schema = Tables

(* _schema_cache = schema *)
StoreSchema(t) ==
  /\ AllRead(calls[t])
  /\ cache' = [schema |-> calls[t].schema, read |-> calls[t].read, written |-> clock]
  /\ calls' = [calls EXCEPT ![t].stage = "date"]
  /\ UNCHANGED <<clock, live, cachedAt, overlapped>>

(* A plausible bug: the entry is dated when the date is written. *)
DatedLate(t) == clock

(* the entry is dated when load_schema was entered *)
Dated(t) == calls[t].now

(* _schema_cached_at = now, and the schema is returned *)
StoreDate(t) ==
  /\ At(t, "date")
  /\ cachedAt' = Dated(t)
  /\ calls' = [calls EXCEPT ![t] = Idle]
  /\ UNCHANGED <<clock, live, cache, overlapped>>

(* External: the schema of the database changes. *)
Migrate ==
  /\ live < MaxVersion
  /\ live' = live + 1
  /\ UNCHANGED <<clock, calls, cache, cachedAt, overlapped>>

Tick ==
  /\ clock < MaxClock
  /\ clock' = clock + 1
  /\ UNCHANGED <<live, calls, cache, cachedAt, overlapped>>

Next ==
  \/ Tick
  \/ Migrate
  \/ \E t \in Threads :
       \/ Enter(t) \/ Fresh(t) \/ Serve(t) \/ Stale(t)
       \/ Read(t) \/ Fail(t) \/ StoreSchema(t) \/ StoreDate(t)

Spec == Init /\ [][Next]_vars

-----------------------------------------------------------------------------
(* Properties *)

Stages == {"idle", "check", "serve", "read", "date"}

(* what a call may have seen of the schema so far *)
Seen == UNION {[tables -> Versions] : tables \in SUBSET Tables}

TypeOK ==
  /\ clock \in Nat /\ live \in Versions /\ cachedAt \in Nat
  /\ cache \in Entries \cup {None}
  /\ calls \in [Threads -> [stage : Stages, now : Nat, schema : Seen, read : Nat]]
  /\ overlapped \in BOOLEAN

(* The two fields may be a torn pair, the schema of one load dated by      *)
(* another.  Even so, what is served was put into the cache less than a    *)
(* TTL before the call it is served to began.                              *)
ServedIsRecent ==
  [][\A t \in Threads :
       Serve(t) => cache # None /\ calls[t].now - cache.written < TTL]_vars

(* Were introspections never to overlap, a schema served would have been   *)
(* looked for, and not only cached, less than a TTL before: overlap is the *)
(* one way in which a schema outlives its time to live.                    *)
AgedByOverlapOnly ==
  [][\A t \in Threads :
       Serve(t) /\ ~overlapped => calls[t].now - cache.read < TTL]_vars

(* What is cached is the schema of one version of the database, a version  *)
(* it has had: not the tables of one beside those of another.              *)
CachedIsSnapshot ==
  cache # None =>
    \E v \in 0 .. live : \A x \in Tables : cache.schema[x] = v
=============================================================================
