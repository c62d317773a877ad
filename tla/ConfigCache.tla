----------------------------- MODULE ConfigCache -----------------------------
(***************************************************************************)
(* The configuration cache (database/cache.go, database/dbadapter.go) over *)
(* queries as module Query promises them.  Fetch goroutines look up        *)
(* configuration objects while others change them in the database, entries *)
(* expire and the purge goroutine removes them.  Of a copy of an object    *)
(* only its age is kept: for how many ticks the database has had a newer   *)
(* one.  Points in time are kept as the ticks left until they come.        *)
(***************************************************************************)
EXTENDS Query, Integers, Sequences

CONSTANTS
  Lookups,      \* what one Fetch looks up, in order: ids and selectors
  Selectors,    \* the keys among them that are selectors
  TTLs,         \* values of cache.ttl, in ticks; 0 turns the cache off
  Minute,       \* how much longer than ttl purge sleeps
  QueryTimeout, \* RethinkDbConnection.queryTimeout, in ticks
  MaxAge        \* bound: ages above it count as it

Keys == {Lookups[i] : i \in DOMAIN Lookups}

ASSUME CacheAssumption ==
  /\ Lookups \in Seq(Keys) /\ Len(Lookups) > 0
  /\ TTLs \subseteq Nat /\ Minute \in Nat \ {0} /\ QueryTimeout \in Nat
  /\ MaxAge \in Nat /\ \A t \in TTLs : QueryTimeout + t < MaxAge

Current == -1  \* the age of a copy that is what the database has
None    == -2  \* no copy
Nothing == -3  \* an empty list: no object matches the selector

VARIABLES
  ttl,      \* cache.ttl
  age,      \* cache.entries: the age of the copy under each key
  expires,  \* ticks until it expires; negative when that is past
  purge,    \* ticks until purge runs again
  pc,       \* where each client is
  next,     \* the lookup of Fetch it is at
  copy,     \* the copy it has in hand
  left      \* ticks until the attempt that has read it times out

cacheVars  == <<ttl, age, expires, purge>>
clientVars == <<stage, pc, next, copy, left>>
vars       == <<cacheVars, clientVars>>

Ages == {Current, None, Nothing} \cup 0..MaxAge

TypeOK ==
  /\ QueryTypeOK
  /\ ttl \in TTLs
  /\ age \in [Keys -> Ages] /\ expires \in [Keys -> Int]
  /\ purge \in 0..(ttl + Minute)
  /\ pc \in [Clients -> {"idle", "get", "query", "store", "got"}]
  /\ next \in [Clients -> DOMAIN Lookups]
  /\ copy \in [Clients -> Ages] /\ left \in [Clients -> 0..QueryTimeout]
  /\ \A c \in Clients : /\ stage[c] = "none" <=> pc[c] # "query"
                        /\ copy[c] = None <=> pc[c] \in {"idle", "get"} \/ stage[c] \in {"asked", "failed"}

\* newCache: the first purge finds nothing.
Init ==
  /\ QueryInit
  /\ ttl \in TTLs
  /\ age = [k \in Keys |-> None] /\ expires = [k \in Keys |-> 0]
  /\ purge = ttl + Minute
  /\ pc = [c \in Clients |-> "idle"] /\ next = [c \in Clients |-> 1]
  /\ copy = [c \in Clients |-> None] /\ left = [c \in Clients |-> 0]

Key(c)      == Lookups[next[c]]
Goto(c, at) == pc' = [pc EXCEPT ![c] = at]
Hold(c, a)  == copy' = [copy EXCEPT ![c] = a]
For(c, t)   == left' = [left EXCEPT ![c] = t]

\* An error anywhere is returned by Fetch.
GiveUp(c) == Goto(c, "idle") /\ next' = [next EXCEPT ![c] = 1]

-----------------------------------------------------------------------------
(* GetConfigObject, getConfigsForSelector.                                 *)

Fetch(c) ==
  /\ pc[c] = "idle" /\ Goto(c, "get")
  /\ UNCHANGED <<cacheVars, stage, next, copy, left>>

\* Whether an entry has expired is left to purge.
CachedUntilPurged(k) == ttl # 0 /\ age[k] \notin {None, Nothing}

\* cache.Get, GetMany: an entry that has not expired, and is no empty list.
Cached(k) == ttl # 0 /\ age[k] \notin {None, Nothing} /\ expires[k] > 0

Hit(c) ==
  /\ pc[c] = "get" /\ Cached(Key(c))
  /\ Goto(c, "got") /\ Hold(c, age[Key(c)])
  /\ UNCHANGED <<cacheVars, stage, next, left>>

Miss(c) ==
  /\ pc[c] = "get" /\ ~Cached(Key(c))
  /\ Ask(c) /\ Goto(c, "query")
  /\ UNCHANGED <<cacheVars, next, copy, left>>

\* A selector without a value: indexing the parts of the split panics, and Fetch recovers.
Malformed(c) ==
  /\ pc[c] = "get" /\ Key(c) \in Selectors /\ ~Cached(Key(c))
  /\ GiveUp(c)
  /\ UNCHANGED <<cacheVars, stage, copy, left>>

\* What the database reads now is what the client will have, and no object at all is an error,
\* unless a list of them was asked for.  The attempt was begun at this time or before it.
QueryReads(c) ==
  /\ Read(c) /\ For(c, QueryTimeout)
  /\ \E a \in {Current} \cup (IF Key(c) \in Selectors THEN {Nothing} ELSE {}) : Hold(c, a)
  /\ UNCHANGED <<cacheVars, pc, next>>

\* What the attempt has read is kept.
QueryLostKept(c) ==
  /\ Lose(c) \/ Fail(c)
  /\ For(c, 0)
  /\ UNCHANGED <<cacheVars, pc, next, copy>>

\* The attempt ends without an answer; another one may follow.
QueryLost(c) ==
  /\ Lose(c) \/ Fail(c)
  /\ Hold(c, None) /\ For(c, 0)
  /\ UNCHANGED <<cacheVars, pc, next>>

QueryAnswered(c) ==
  /\ Answer(c) /\ For(c, 0)
  /\ UNCHANGED <<cacheVars, pc, next, copy>>

QueryReturns(c) ==
  /\ Done(c)
  /\ IF stage[c] = "answered" THEN Goto(c, "store") /\ UNCHANGED next ELSE GiveUp(c)
  /\ UNCHANGED <<cacheVars, copy, left>>

\* cache.SetMany takes the time anew, whatever is under the key.
Store(c) ==
  /\ pc[c] = "store" /\ Goto(c, "got")
  /\ age' = IF ttl = 0 THEN age ELSE [age EXCEPT ![Key(c)] = copy[c]]
  /\ expires' = IF ttl = 0 THEN expires ELSE [expires EXCEPT ![Key(c)] = ttl]
  /\ UNCHANGED <<ttl, purge, stage, next, copy, left>>

\* The next lookup, or Fetch goes on.
Use(c) ==
  /\ pc[c] = "got" /\ Hold(c, None)
  /\ IF next[c] < Len(Lookups)
     THEN Goto(c, "get") /\ next' = [next EXCEPT ![c] = @ + 1]
     ELSE GiveUp(c)
  /\ UNCHANGED <<cacheVars, stage, left>>

-----------------------------------------------------------------------------
(* The database, the purge goroutine, and time.                            *)

\* Somebody changes what is under k: every copy of it is old from now on.  An empty list stays
\* what it is, for no one uses it later than the query that brought it.
Change(k) ==
  /\ age' = [age EXCEPT ![k] = IF @ = Current THEN 0 ELSE @]
  /\ copy' = [c \in Clients |-> IF Key(c) = k /\ copy[c] = Current THEN 0 ELSE copy[c]]
  /\ UNCHANGED <<ttl, expires, purge, stage, pc, next, left>>

\* The times are mixed up: what has not expired goes.
PurgedEarly(k) == age[k] # None /\ expires[k] > 0

\* Entries that purge removes.
Purged(k) == age[k] # None /\ expires[k] < 0

Purge ==
  /\ purge = 0 /\ purge' = ttl + Minute
  /\ age' = [k \in Keys |-> IF Purged(k) THEN None ELSE age[k]]
  /\ expires' = [k \in Keys |-> IF Purged(k) THEN 0 ELSE expires[k]]
  /\ UNCHANGED <<ttl, clientVars>>

Older(a) == IF a \in 0..(MaxAge - 1) THEN a + 1 ELSE a

\* Only queries take time, and what an attempt has read is lost when its time is over.
Tick ==
  /\ \A c \in Clients : /\ pc[c] \in {"idle", "query"} /\ stage[c] \notin {"answered", "failed"}
                        /\ stage[c] = "read" => left[c] > 0
  /\ left' = [c \in Clients |-> IF left[c] > 0 THEN left[c] - 1 ELSE 0]
  /\ purge > 0 /\ purge' = purge - 1
  /\ age' = [k \in Keys |-> Older(age[k])]
  /\ copy' = [c \in Clients |-> Older(copy[c])]
  /\ expires' = [k \in Keys |-> IF age[k] = None THEN 0 ELSE expires[k] - 1]
  /\ UNCHANGED <<ttl, stage, pc, next>>

-----------------------------------------------------------------------------
ClientStep(c) ==
  \/ Fetch(c) \/ Hit(c) \/ Miss(c) \/ Malformed(c)
  \/ QueryReads(c) \/ QueryLost(c) \/ QueryAnswered(c) \/ QueryReturns(c)
  \/ Store(c) \/ Use(c)

Next ==
  \/ \E c \in Clients : ClientStep(c)
  \/ \E k \in Keys : Change(k)
  \/ Purge \/ Tick

Spec == Init /\ [][Next]_vars

-----------------------------------------------------------------------------
(* Properties.                                                             *)

\* A configuration object is never used longer than its time to live and one query after it
\* was replaced in the database, also when a slow query stores what it read over something
\* newer, when several retries were needed, and however long purge sleeps.
StalenessBounded ==
  \A c \in Clients : pc[c] = "got" => copy[c] < QueryTimeout + (IF ttl = 0 THEN 1 ELSE ttl)

\* Nothing stays in the map for ever: an entry that no lookup asks for any more is removed by
\* the second run of purge at the latest, though purge and the entries keep their own times.
EntriesLeave == \A k \in Keys : age[k] # None => expires[k] >= -(ttl + Minute)
=============================================================================
