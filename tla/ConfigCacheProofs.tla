-------------------------- MODULE ConfigCacheProofs --------------------------
(***************************************************************************)
(* The bounds of the configuration cache for any number of clients,        *)
(* lookups, times to live, time limit of a query and pause of purge.       *)
(***************************************************************************)
EXTENDS ConfigCache, TLAPS

\* The age of an object and what is left of its entry are together what is allowed: time takes
\* from the one what it adds to the other.  The pause of purge bounds how long it is overdue.
EntriesBounded ==
  \A k \in Keys : /\ expires[k] <= ttl
                  /\ ttl = 0 => age[k] = None
                  /\ age[k] # None => purge <= expires[k] + ttl + Minute
                  /\ age[k] >= Current => age[k] + expires[k] <= QueryTimeout + ttl

\* The same of what a query has read and what is left of its attempt, until it is used.
CopiesBounded ==
  \A c \in Clients : /\ stage[c] = "read" => copy[c] + left[c] <= QueryTimeout
                     /\ stage[c] = "answered" \/ pc[c] = "store" => copy[c] <= QueryTimeout
                     /\ pc[c] = "got" => copy[c] < QueryTimeout + (IF ttl = 0 THEN 1 ELSE ttl)

\* The two bounds, with the types, which also say what a client has in hand at each position.
IInv == TypeOK /\ EntriesBounded /\ CopiesBounded

Times == ttl \in Nat /\ Minute \in Nat \ {0} /\ QueryTimeout \in Nat /\ MaxAge \in Nat

\* What CacheAssumption and the types say of the times.
LEMMA TimesAreNumbers == TypeOK => Times
  BY CacheAssumption DEF TypeOK, Times

\* A lookup begins with the first and goes on with the next; each has a key.
LEMMA LookupOps ==
  /\ 1 \in DOMAIN Lookups
  /\ \A i \in DOMAIN Lookups : Lookups[i] \in Keys /\ (i < Len(Lookups) => i + 1 \in DOMAIN Lookups)
  <1>1. Len(Lookups) \in Nat /\ DOMAIN Lookups = 1..Len(Lookups)
    BY CacheAssumption
  <1> QED BY <1>1, CacheAssumption DEF Keys

\* The cache begins empty, and no client holds anything.
LEMMA InitIInv == Init => IInv
  <1> SUFFICES ASSUME Init PROVE IInv
    OBVIOUS
  <1>1. TypeOK
    BY CacheAssumption
       DEF Init, TypeOK, QueryInit, QueryTypeOK, Ages, Current, None, Nothing
  <1>2. EntriesBounded
    BY <1>1, TimesAreNumbers DEF Times, Init, EntriesBounded, Current, None
  <1>3. CopiesBounded
    BY DEF Init, QueryInit, CopiesBounded
  <1> QED BY <1>1, <1>2, <1>3 DEF IInv

-----------------------------------------------------------------------------
\* Each step of a lookup keeps the types and what goes with a position.
LEMMA ClientTypes ==
  ASSUME TypeOK, NEW c \in Clients, ClientStep(c)
  PROVE  TypeOK'
  <1> USE LookupOps, TimesAreNumbers
          DEF Times, TypeOK, QueryTypeOK, cacheVars, Ages, Current, None, Nothing, Goto, Hold, For,
              GiveUp, Turn
  <1>1. CASE Fetch(c)
    BY <1>1 DEF Fetch
  <1>2. CASE Hit(c)
    BY <1>2 DEF Hit, Cached, Key
  <1>3. CASE Miss(c)
    BY <1>3 DEF Miss, Ask
  <1>4. CASE Malformed(c)
    BY <1>4 DEF Malformed
  <1>5. CASE QueryReads(c)
    BY <1>5 DEF QueryReads, Read
  <1>6. CASE QueryLost(c)
    <2>1. CASE Lose(c)
      BY <1>6, <2>1 DEF QueryLost, Lose
    <2>2. CASE Fail(c)
      BY <1>6, <2>2 DEF QueryLost, Fail
    <2> QED BY <1>6, <2>1, <2>2 DEF QueryLost
  <1>7. CASE QueryAnswered(c)
    BY <1>7 DEF QueryAnswered, Answer
  <1>8. CASE QueryReturns(c)
    <2>1. CASE stage[c] = "answered"
      BY <1>8, <2>1 DEF QueryReturns, Done
    <2>2. CASE stage[c] # "answered"
      BY <1>8, <2>2 DEF QueryReturns, Done
    <2> QED BY <2>1, <2>2
  <1>9. CASE Store(c)
    <2>1. Key(c) \in Keys
      BY DEF Key
    <2>2. ttl \in Int /\ age' \in [Keys -> Ages] /\ expires' \in [Keys -> Int]
      BY <1>9, <2>1 DEF Store
    <2> QED BY <1>9, <2>2 DEF Store
  <1>10. CASE Use(c)
    <2>1. CASE next[c] < Len(Lookups)
      <3>1. next[c] + 1 \in DOMAIN Lookups
        BY <2>1
      <3> QED BY <1>10, <2>1, <3>1 DEF Use
    <2>2. CASE ~(next[c] < Len(Lookups))
      BY <1>10, <2>2 DEF Use
    <2> QED BY <2>1, <2>2
  <1> QED
    BY <1>1, <1>2, <1>3, <1>4, <1>5, <1>6, <1>7, <1>8, <1>9, <1>10 DEF ClientStep

\* Only Store changes the map: what the client has read is within the time limit of its
\* query, and the entry has its whole time to live before it.
LEMMA ClientEntries ==
  ASSUME IInv, NEW c \in Clients, ClientStep(c)
  PROVE  EntriesBounded'
  <1> USE TimesAreNumbers DEF IInv, EntriesBounded, Times
  <1>1. CASE Store(c)
    BY <1>1 DEF Store, TypeOK, Ages, Current, None, Nothing, Keys, Key, CopiesBounded
  <1>2. CASE ~Store(c)
    <2>1. UNCHANGED cacheVars
      BY <1>2 DEF ClientStep, Fetch, Hit, Miss, Malformed, QueryReads, QueryLost, QueryAnswered,
           QueryReturns, Use
    <2> QED BY <2>1 DEF cacheVars
  <1> QED BY <1>1, <1>2

\* Hit takes what has not expired, a query what its attempt has read; Store keeps the copy.
LEMMA ClientCopies ==
  ASSUME IInv, NEW c \in Clients, ClientStep(c)
  PROVE  CopiesBounded'
  <1> USE TimesAreNumbers
          DEF IInv, TypeOK, QueryTypeOK, CopiesBounded, Times, cacheVars, Ages, Current, None,
              Nothing, Goto, Hold, For, GiveUp, Turn
  <1>1. CASE Fetch(c)
    BY <1>1 DEF Fetch
  <1>2. CASE Hit(c)
    BY <1>2 DEF Hit, Cached, EntriesBounded, Key, Keys
  <1>3. CASE Miss(c)
    BY <1>3 DEF Miss, Ask
  <1>4. CASE Malformed(c)
    BY <1>4 DEF Malformed
  <1>5. CASE QueryReads(c)
    BY <1>5 DEF QueryReads, Read
  <1>6. CASE QueryLost(c)
    BY <1>6 DEF QueryLost, Lose, Fail
  <1>7. CASE QueryAnswered(c)
    BY <1>7 DEF QueryAnswered, Answer
  <1>8. CASE QueryReturns(c)
    BY <1>8 DEF QueryReturns, Done
  <1>9. CASE Store(c)
    BY <1>9 DEF Store
  <1>10. CASE Use(c)
    BY <1>10 DEF Use
  <1> QED
    BY <1>1, <1>2, <1>3, <1>4, <1>5, <1>6, <1>7, <1>8, <1>9, <1>10 DEF ClientStep

-----------------------------------------------------------------------------
\* A change makes copies and entries old by nothing yet.
LEMMA ChangeIInv == ASSUME IInv, NEW k \in Keys, Change(k) PROVE IInv'
  <1> USE TimesAreNumbers
          DEF IInv, TypeOK, QueryTypeOK, Times, Ages, Current, None, Nothing, Change
  <1>1. TypeOK'
    OBVIOUS
  <1>2. EntriesBounded'
    BY DEF EntriesBounded
  <1>3. CopiesBounded'
    BY DEF CopiesBounded
  <1> QED BY <1>1, <1>2, <1>3

\* What purge leaves has not expired.
LEMMA PurgeIInv == ASSUME IInv, Purge PROVE IInv'
  <1> USE TimesAreNumbers
          DEF IInv, TypeOK, QueryTypeOK, Times, Ages, Current, None, Nothing, Purge, Purged,
              clientVars
  <1>1. TypeOK'
    OBVIOUS
  <1>2. EntriesBounded'
    BY DEF EntriesBounded
  <1>3. CopiesBounded'
    BY DEF CopiesBounded
  <1> QED BY <1>1, <1>2, <1>3

\* A tick makes everything older by one, and takes one from all that is left.
LEMMA TickIInv == ASSUME IInv, Tick PROVE IInv'
  <1> USE TimesAreNumbers
          DEF IInv, TypeOK, QueryTypeOK, Times, Ages, Current, None, Nothing, Tick, Older
  <1>1. TypeOK'
    OBVIOUS
  <1>2. EntriesBounded'
    BY DEF EntriesBounded
  <1>3. CopiesBounded'
    BY DEF CopiesBounded
  <1> QED BY <1>1, <1>2, <1>3

\* Every step keeps the invariant.
LEMMA NextIInv == IInv /\ [Next]_vars => IInv'
  <1> SUFFICES ASSUME IInv, [Next]_vars PROVE IInv'
    OBVIOUS
  <1>1. ASSUME NEW c \in Clients, ClientStep(c) PROVE IInv'
    BY <1>1, ClientTypes, ClientEntries, ClientCopies DEF IInv
  <1>2. CASE UNCHANGED vars
    BY <1>2 DEF IInv, TypeOK, QueryTypeOK, EntriesBounded, CopiesBounded, vars, cacheVars,
         clientVars
  <1> QED BY <1>1, <1>2, ChangeIInv, PurgeIInv, TickIInv DEF Next

\* The invariant of the cache and of the lookups that go through it.
THEOREM SpecIInv == Spec => []IInv
  BY InitIInv, NextIInv, PTL DEF Spec

\* Types of the cache and of its clients.
THEOREM TypeCorrect == Spec => []TypeOK
  BY SpecIInv, PTL DEF IInv

\* Fetch never uses a configuration object longer than its time to live and the time limit of
\* one query after it was replaced (cache.go Get and Set, dbadapter.go 50-105).
THEOREM NeverTooStale == Spec => []StalenessBounded
  <1>1. IInv => StalenessBounded
    BY DEF IInv, CopiesBounded, StalenessBounded
  <1> QED BY <1>1, SpecIInv, PTL

\* purge removes every entry, at the latest when it runs for the second time after the entry
\* has expired (cache.go 34-42).
THEOREM EntriesAlwaysLeave == Spec => []EntriesLeave
  <1>1. IInv => EntriesLeave
    BY TimesAreNumbers DEF IInv, TypeOK, Times, EntriesBounded, EntriesLeave
  <1> QED BY <1>1, SpecIInv, PTL
=============================================================================
