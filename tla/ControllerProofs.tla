-------------------------- MODULE ControllerProofs --------------------------
(***************************************************************************)
(* Proofs about Controller, for every number of sessions, pages and        *)
(* callers of Shutdown.                                                    *)
(***************************************************************************)
EXTENDS Controller, FiniteSetTheorems, TLAPS

-----------------------------------------------------------------------------
(* Type correctness.                                                       *)

\* A slice of a channel's content is a channel content.
LEMMA ChannelOps ==
  ASSUME NEW S, NEW ch \in Seq(S), NEW x \in S
  PROVE  /\ Append(ch, x) \in Seq(S) /\ Len(Append(ch, x)) = Len(ch) + 1
         /\ ch # <<>> => Head(ch) \in S /\ Tail(ch) \in Seq(S) /\ Len(Tail(ch)) = Len(ch) - 1
  OBVIOUS

\* A new registry and a new controller are well typed.
LEMMA InitTypeOK == Init => TypeOK
  <1> SUFFICES ASSUME Init PROVE TypeOK
    OBVIOUS
  <1> USE DEF Init
  <1>1. pool \in Seq(Ids)
    BY MaxSessionsAssumption DEF FillPool, Ids
  <1>2. /\ timedOut \in BOOLEAN /\ endpointOk \in BOOLEAN
        /\ cancelled \in BOOLEAN /\ grpcUp \in BOOLEAN
    BY Zenon
  <1>3. /\ stopper \in [Stoppers -> {"idle", "sending", "sent"}]
        /\ task \in [Pages -> TaskStates]
        /\ sess \in [Pages -> Ids \cup {NoSession}]
        /\ outcome \in [Pages -> Outcomes]
    BY DEF TaskStates, Outcomes
  <1>4. /\ loop \in LoopStates /\ held \in Ids \cup {NoSession}
        /\ registered \in SUBSET Ids /\ wg \in Int
        /\ done \in Seq({"nil", "err"}) /\ Len(done) <= 1
        /\ backoff \in 0..1 /\ api \in ApiStates
        /\ gauge \in Int /\ result \in {"none", "nil", "err"} /\ late \in Nat
    BY DEF LoopStates, ApiStates
  <1> QED BY <1>1, <1>2, <1>3, <1>4 DEF TypeOK

\* Release of an id in use: the types of the registry's variables.
LEMMA ReleaseTypeOK ==
  ASSUME TypeOK, NEW i \in Ids, Release(i)
  PROVE  pool' \in Seq(Ids) /\ registered' \in SUBSET Ids /\ wg' \in Int
  BY ChannelOps DEF TypeOK, Release

-----------------------------------------------------------------------------
(* The places a session id can be in.                                      *)

PoolInjective == \A j, k \in DOMAIN pool : pool[j] = pool[k] => j = k

\* Run holds an id exactly between GetNextAvailable and the page.
HeldInUse == held \in Ids <=> loop \in {"register", "getPage"}

\* A goroutine holds an id from its start to its Release.
SessInUse == \A p \in Pages : sess[p] \in Ids <=> p \in Busy

\* The places are disjoint, stated element by element.
Disjoint ==
  /\ \A p, q \in Busy : sess[p] = sess[q] => p = q
  /\ \A k \in DOMAIN pool : pool[k] # held
  /\ \A k \in DOMAIN pool : \A p \in Busy : pool[k] # sess[p]
  /\ \A p \in Busy : sess[p] # held

Places == PoolInjective /\ HeldInUse /\ SessInUse /\ Disjoint

\* Where TypeOK needs more than itself: the id given to Release is one.
LEMMA NextTypeOK == TypeOK /\ Places /\ [Next]_vars => TypeOK'
  <1> SUFFICES ASSUME TypeOK, Places, [Next]_vars PROVE TypeOK'
    OBVIOUS
  <1> USE DEF loopVars, regVars, stopVars, taskVars, LoopStates, Return, HasRoom
  <1>1. CASE SelectDone
    BY <1>1, ChannelOps DEF SelectDone, TypeOK
  <1>2. CASE SelectBackoff
    BY <1>2 DEF SelectBackoff, TypeOK
  <1>3. CASE SelectDefault
    BY <1>3 DEF SelectDefault, TypeOK
  <1>4. CASE AcquireCancelled
    BY <1>4 DEF AcquireCancelled, TypeOK
  <1>5. CASE Acquire
    BY <1>5, ChannelOps DEF Acquire, TypeOK
  <1>6. CASE RegisterHeld
    BY <1>6 DEF RegisterHeld, Register, TypeOK, Places, HeldInUse
  <1>7. CASE NewSessionFails
    BY <1>7 DEF NewSessionFails, TypeOK
  <1>8. ASSUME NEW p \in Pages, GetPage(p) PROVE TypeOK'
    BY <1>8 DEF GetPage, Spawn, TypeOK, TaskStates
  <1>9. CASE GetPageNotFound
    <2>1. held \in Ids /\ Release(held)
      BY <1>9 DEF GetPageNotFound, Places, HeldInUse
    <2> QED BY <1>9, <2>1, ReleaseTypeOK DEF GetPageNotFound, BackoffRoom, TypeOK
  <1>10. CASE GetPageFails
    <2>1. held \in Ids /\ Release(held)
      BY <1>10 DEF GetPageFails, Places, HeldInUse
    <2> QED BY <1>10, <2>1, ReleaseTypeOK DEF GetPageFails, TypeOK
  <1>11. CASE CloseWaitDone
    BY <1>11 DEF CloseWaitDone, TypeOK
  <1>12. CASE CloseWaitTimeout
    BY <1>12 DEF CloseWaitTimeout, TypeOK
  <1>13. CASE CloseApi
    BY <1>13 DEF CloseApi, TypeOK, ApiStates
  <1>14. ASSUME NEW p \in Pages, StartFetch(p) PROVE TypeOK'
    BY <1>14 DEF StartFetch, MoveTask, TypeOK, TaskStates
  <1>15. ASSUME NEW p \in Pages, EndFetch(p) PROVE TypeOK'
    BY <1>15 DEF EndFetch, MoveTask, TypeOK, TaskStates, Outcomes
  <1>16. ASSUME NEW p \in Pages, ReportPage(p) PROVE TypeOK'
    BY <1>16 DEF ReportPage, MoveTask, TypeOK, TaskStates, Outcomes
  <1>17. ASSUME NEW p \in Pages, DecGauge(p) PROVE TypeOK'
    BY <1>17 DEF DecGauge, MoveTask, TypeOK, TaskStates
  <1>18. ASSUME NEW p \in Pages, ReleaseTask(p) PROVE TypeOK'
    <2>1. sess[p] \in Ids /\ Release(sess[p])
      BY <1>18 DEF ReleaseTask, MoveTask, Places, SessInUse, Busy
    <2>2. pool' \in Seq(Ids) /\ registered' \in SUBSET Ids /\ wg' \in Int
      BY <2>1, ReleaseTypeOK
    <2> QED BY <1>18, <2>2 DEF ReleaseTask, MoveTask, TypeOK, TaskStates
  <1>19. ASSUME NEW s \in Stoppers, CallShutdown(s) PROVE TypeOK'
    BY <1>19 DEF CallShutdown, TypeOK
  <1>20. ASSUME NEW s \in Stoppers, SendShutdown(s) PROVE TypeOK'
    BY <1>20, ChannelOps DEF SendShutdown, TypeOK
  <1>21. CASE ApiStep
    <2>1. CASE ApiListens
      BY <2>1 DEF ApiListens, TypeOK, ApiStates
    <2>2. CASE ApiFails
      BY <2>2 DEF ApiFails, TypeOK, ApiStates
    <2>3. CASE ApiSendsErr
      BY <2>3, ChannelOps DEF ApiSendsErr, TypeOK, ApiStates
    <2>4. CASE ApiCancels
      BY <2>4 DEF ApiCancels, TypeOK, ApiStates
    <2> QED BY <1>21, <2>1, <2>2, <2>3, <2>4 DEF ApiStep
  <1>22. CASE UNCHANGED vars
    BY <1>22 DEF vars, TypeOK
  <1> QED
    BY <1>1, <1>2, <1>3, <1>4, <1>5, <1>6, <1>7, <1>8, <1>9, <1>10, <1>11, <1>12, <1>13,
       <1>14, <1>15, <1>16, <1>17, <1>18, <1>19, <1>20, <1>21, <1>22
       DEF Next, LoopStep, TaskStep, StopStep, Ended

\* A step that neither moves an id nor starts or ends the use of one.
LEMMA NothingMoves ==
  ASSUME Places, UNCHANGED <<pool, held, sess>>, Busy' = Busy,
         loop' \in {"register", "getPage"} <=> loop \in {"register", "getPage"}
  PROVE  Places'
  BY DEF Places, PoolInjective, HeldInUse, SessInUse, Disjoint

\* An id that is not in the pool can be added to it.
LEMMA PoolGrows ==
  ASSUME TypeOK, PoolInjective, NEW i \in Ids,
         \A k \in DOMAIN pool : pool[k] # i, pool' = Append(pool, i)
  PROVE  /\ PoolInjective'
         /\ \A k \in DOMAIN pool' : pool'[k] = i \/ \E j \in DOMAIN pool : pool'[k] = pool[j]
  <1>1. /\ Len(pool) \in Nat /\ DOMAIN pool = 1..Len(pool)
        /\ DOMAIN pool' = 1..(Len(pool) + 1)
        /\ pool'[Len(pool) + 1] = i
        /\ \A k \in 1..Len(pool) : pool'[k] = pool[k]
    BY DEF TypeOK
  <1> QED BY <1>1 DEF PoolInjective

\* The receive takes the first id out of the pool, and only that.
LEMMA PoolShrinks ==
  ASSUME TypeOK, PoolInjective, pool # <<>>, pool' = Tail(pool)
  PROVE  /\ PoolInjective'
         /\ \E j \in DOMAIN pool : Head(pool) = pool[j]
         /\ \A k \in DOMAIN pool' :
              pool'[k] # Head(pool) /\ \E j \in DOMAIN pool : pool'[k] = pool[j]
  <1>1. /\ Len(pool) \in Nat \ {0} /\ DOMAIN pool = 1..Len(pool)
        /\ DOMAIN pool' = 1..(Len(pool) - 1)
        /\ Head(pool) = pool[1]
        /\ \A k \in 1..(Len(pool) - 1) : pool'[k] = pool[k + 1]
    BY DEF TypeOK
  <1> QED BY <1>1 DEF PoolInjective

\* NewRegistry (registry.go:43-45) puts every id into the pool once.
LEMMA InitPlaces == Init => Places
  <1> SUFFICES ASSUME Init PROVE Places
    OBVIOUS
  <1>1. Busy = {} /\ held \notin Ids /\ \A p \in Pages : sess[p] \notin Ids
    BY NoSessionAssumption DEF Init, Busy
  <1>2. DOMAIN pool = Ids /\ \A k \in Ids : pool[k] = k
    BY DEF Init, FillPool
  <1> QED
    BY <1>1, <1>2 DEF Init, Places, PoolInjective, HeldInUse, SessInUse, Disjoint

\* An id moves from one place to the next: pool, Run, goroutine, pool.
LEMMA NextPlaces == TypeOK /\ Places /\ [Next]_vars => Places'
  <1> SUFFICES ASSUME TypeOK, Places, [Next]_vars PROVE Places'
    OBVIOUS
  <1> USE DEF loopVars, regVars, stopVars, taskVars, Return
  <1>1. CASE Acquire
    <2>1. /\ PoolInjective' /\ held' \in Ids /\ Busy' = Busy /\ sess' = sess
          /\ \E j \in DOMAIN pool : held' = pool[j]
          /\ \A k \in DOMAIN pool' :
               pool'[k] # held' /\ \E j \in DOMAIN pool : pool'[k] = pool[j]
      BY <1>1, PoolShrinks, ChannelOps DEF Acquire, Places, Busy, TypeOK
    <2>2. HeldInUse' /\ SessInUse'
      BY <1>1, <2>1 DEF Acquire, HeldInUse, SessInUse, Places
    <2>3. Disjoint'
      BY <2>1 DEF Disjoint, Places
    <2> QED BY <2>1, <2>2, <2>3 DEF Places
  <1>2. CASE NewSessionFails
    <2>1. held' = NoSession /\ UNCHANGED <<pool, sess>> /\ Busy' = Busy /\ loop' = "closing"
      BY <1>2 DEF NewSessionFails, Busy
    <2>2. /\ \A k \in DOMAIN pool : pool[k] # NoSession
          /\ \A p \in Busy : sess[p] # NoSession
      BY NoSessionAssumption DEF TypeOK, Places, SessInUse, Busy
    <2> QED
      BY <2>1, <2>2, NoSessionAssumption
         DEF Places, PoolInjective, HeldInUse, SessInUse, Disjoint
  <1>3. ASSUME NEW p \in Pages, GetPage(p) PROVE Places'
    <2>1. held \in Ids
      BY <1>3 DEF GetPage, Places, HeldInUse
    <2>2. /\ held' = NoSession /\ loop' = "select" /\ pool' = pool
          /\ Busy' = Busy \cup {p} /\ p \notin Busy
          /\ sess' = [sess EXCEPT ![p] = held]
      BY <1>3 DEF GetPage, Spawn, Busy, TypeOK
    <2>3. \A k \in DOMAIN pool : pool[k] # NoSession
      BY NoSessionAssumption DEF TypeOK
    <2>4. PoolInjective' /\ HeldInUse' /\ SessInUse'
      BY <2>1, <2>2, NoSessionAssumption
         DEF Places, PoolInjective, HeldInUse, SessInUse, TypeOK
    <2>5. \A q \in Busy' : sess'[q] = IF q = p THEN held ELSE sess[q]
      BY <2>2 DEF TypeOK, Busy
    <2>6. \A q \in Busy' : sess'[q] \in Ids
      BY <2>1, <2>2, <2>5 DEF Busy, Places, SessInUse
    <2>7. Disjoint'
      BY <2>2, <2>3, <2>5, <2>6, NoSessionAssumption DEF Places, Disjoint
    <2> QED BY <2>4, <2>7 DEF Places
  <1>4. CASE GetPageNotFound \/ GetPageFails
    <2>1. held \in Ids
      BY <1>4 DEF GetPageNotFound, GetPageFails, Places, HeldInUse
    <2>2. /\ held' = NoSession /\ loop' \in {"select", "closing"} /\ sess' = sess
          /\ Busy' = Busy /\ pool' = Append(pool, held)
      BY <1>4 DEF GetPageNotFound, GetPageFails, Release, Busy
    <2>3. /\ PoolInjective'
          /\ \A k \in DOMAIN pool' :
               pool'[k] = held \/ \E j \in DOMAIN pool : pool'[k] = pool[j]
      BY <2>1, <2>2, PoolGrows DEF Places, Disjoint
    <2>4. \A k \in DOMAIN pool' : pool'[k] # NoSession
      BY <2>1, <2>3, NoSessionAssumption DEF TypeOK
    <2>5. Disjoint'
      BY <2>2, <2>3, <2>4, NoSessionAssumption DEF Places, Disjoint, SessInUse, Busy
    <2> QED BY <2>2, <2>3, <2>5, NoSessionAssumption DEF Places, HeldInUse, SessInUse
  <1>5. ASSUME NEW p \in Pages, ReleaseTask(p) PROVE Places'
    <2>1. p \in Busy /\ sess[p] \in Ids
      BY <1>5 DEF ReleaseTask, MoveTask, Places, SessInUse, Busy
    <2>2. /\ held' = held /\ loop' = loop /\ Busy' = Busy \ {p}
          /\ sess' = [sess EXCEPT ![p] = NoSession] /\ pool' = Append(pool, sess[p])
      BY <1>5 DEF ReleaseTask, MoveTask, Release, Busy, TypeOK
    <2>3. /\ PoolInjective'
          /\ \A k \in DOMAIN pool' :
               pool'[k] = sess[p] \/ \E j \in DOMAIN pool : pool'[k] = pool[j]
      BY <2>1, <2>2, PoolGrows DEF Places, Disjoint
    <2>4. \A q \in Pages \ {p} : sess'[q] = sess[q]
      BY <2>2 DEF TypeOK
    <2>5. HeldInUse' /\ SessInUse'
      BY <2>1, <2>2, <2>4, NoSessionAssumption DEF Places, HeldInUse, SessInUse, TypeOK
    <2>6. Busy' \subseteq Pages \ {p}
      BY <2>2 DEF Busy
    <2>7. Disjoint'
      BY <2>1, <2>2, <2>3, <2>4, <2>6 DEF Places, Disjoint
    <2> QED BY <2>3, <2>5, <2>7 DEF Places
  <1>6. ASSUME NEW p \in Pages,
               StartFetch(p) \/ EndFetch(p) \/ ReportPage(p) \/ DecGauge(p)
        PROVE  Places'
    <2>1. UNCHANGED <<pool, held, sess, loop>>
      BY <1>6 DEF StartFetch, EndFetch, ReportPage, DecGauge
    <2>2. Busy' = Busy
      BY <1>6 DEF StartFetch, EndFetch, ReportPage, DecGauge, MoveTask, Busy, TypeOK
    <2> QED BY <2>1, <2>2, NothingMoves
  <1>7. CASE SelectDone \/ SelectBackoff \/ SelectDefault \/ AcquireCancelled \/ RegisterHeld
             \/ CloseWaitDone \/ CloseWaitTimeout \/ CloseApi
    <2>1. /\ UNCHANGED <<pool, held, sess, task>>
          /\ loop' \in {"register", "getPage"} <=> loop \in {"register", "getPage"}
      BY <1>7 DEF SelectDone, SelectBackoff, SelectDefault, AcquireCancelled, RegisterHeld,
                  CloseWaitDone, CloseWaitTimeout, CloseApi
    <2> QED BY <2>1, NothingMoves DEF Busy
  <1>8. CASE (\E s \in Stoppers : StopStep(s)) \/ ApiStep \/ UNCHANGED vars
    <2>1. UNCHANGED <<pool, held, sess, task, loop>>
      BY <1>8 DEF StopStep, CallShutdown, SendShutdown, ApiStep, ApiListens, ApiFails,
                  ApiSendsErr, ApiCancels, vars
    <2> QED BY <2>1, NothingMoves DEF Busy
  <1> QED
    BY <1>1, <1>2, <1>3, <1>4, <1>5, <1>6, <1>7, <1>8 DEF Next, LoopStep, TaskStep, Ended

\* The inductive invariant behind the safety of the pool: types, and every id that
\* GetNextAvailable, Run and the page goroutines pass on is in one place.
THEOREM PlacesHold == Spec => [](TypeOK /\ Places)
  <1>1. Init => TypeOK /\ Places
    BY InitTypeOK, InitPlaces
  <1>2. TypeOK /\ Places /\ [Next]_vars => (TypeOK /\ Places)'
    BY NextTypeOK, NextPlaces
  <1> QED BY <1>1, <1>2, PTL DEF Spec

\* Types of the registry, the channels and the goroutines' positions (registry.go:28-48,
\* browsercontroller.go:31-34, 47-126).
THEOREM TypeCorrect == Spec => []TypeOK
  BY PlacesHold, PTL

\* A session id is in one place at a time (session/registry.go:51-87): two fetches never
\* share a browser session or a recorder proxy, whatever the number of sessions.
THEOREM SessionsExclusive == Spec => []SessionExclusive
  <1>1. TypeOK /\ Places => SessionExclusive
    <2> SUFFICES ASSUME TypeOK, Places PROVE SessionExclusive
      OBVIOUS
    <2>1. InPool \cap LentIds = {}
      BY DEF InPool, LentIds, Places, Disjoint
    <2>2. HeldByLoop \cap (InPool \cup LentIds) = {}
      BY DEF HeldByLoop, InPool, LentIds, Places, Disjoint
    <2> QED BY <2>1, <2>2 DEF SessionExclusive, Places, PoolInjective, Disjoint
  <1> QED BY <1>1, PlacesHold, PTL

\* Registry.Release sends on the pool channel with the mutex held (registry.go:80-87):
\* the other ids are fewer than the channel can hold, so the send does not block.
THEOREM ReleaseHasRoom == Spec => []ReleaseNeverBlocks
  <1>1. ASSUME TypeOK, Places, NEW i \in Ids, \A k \in DOMAIN pool : pool[k] # i
        PROVE  HasRoom(pool, MaxSessions - 1)
    <2> DEFINE Others == Ids \ {i}
    <2>1. /\ IsFiniteSet(Ids) /\ Cardinality(Ids) = MaxSessions - 1
          /\ IsFiniteSet(1..Len(pool)) /\ Cardinality(1..Len(pool)) = Len(pool)
      BY FS_Interval, MaxSessionsAssumption DEF Ids, TypeOK
    <2>2. IsFiniteSet(Others) /\ Cardinality(Others) = MaxSessions - 2
      <3>1. /\ IsFiniteSet(Ids \ {i})
            /\ Cardinality(Ids \ {i}) = IF i \in Ids THEN Cardinality(Ids) - 1 ELSE Cardinality(Ids)
        BY <2>1, FS_RemoveElement, Zenon
      <3>2. MaxSessions - 1 - 1 = MaxSessions - 2
        BY MaxSessionsAssumption
      <3> QED BY <1>1, <2>1, <3>1, <3>2
    <2>3. pool \in [1..Len(pool) -> Others]
      BY <1>1 DEF TypeOK
    <2>4. \A j, k \in 1..Len(pool) : j # k => pool[j] # pool[k]
      BY <1>1, <2>3 DEF Places, PoolInjective
    <2> HIDE DEF Others
    <2>5. ~(Cardinality(Others) < Cardinality(1..Len(pool)))
      BY <2>1, <2>2, <2>3, <2>4, FS_PigeonHole, Zenon
    <2> QED BY <1>1, <2>1, <2>2, <2>5, MaxSessionsAssumption DEF HasRoom, TypeOK
  <1>2. TypeOK /\ Places => ReleaseNeverBlocks
    <2> SUFFICES ASSUME TypeOK, Places,
                        loop = "getPage" \/ \E p \in Pages : task[p] = "release"
                 PROVE  HasRoom(pool, MaxSessions - 1)
      BY DEF ReleaseNeverBlocks
    <2>1. CASE loop = "getPage"
      BY <2>1, <1>1 DEF Places, HeldInUse, Disjoint
    <2>2. ASSUME NEW p \in Pages, task[p] = "release" PROVE HasRoom(pool, MaxSessions - 1)
      <3>1. p \in Busy /\ sess[p] \in Ids
        BY <2>2 DEF Busy, Places, SessInUse
      <3> QED BY <3>1, <1>1 DEF Places, Disjoint
    <2> QED BY <2>1, <2>2
  <1> QED BY <1>2, PlacesHold, PTL

-----------------------------------------------------------------------------
(* What Run does with its channels.                                        *)

\* Between the default branch and the page no message waits in backoff.
BackoffEmpty == loop \in {"acquire", "register", "getPage"} => backoff = 0

\* After a late page Run is back at its select with the stop message still there.
LateOnce ==
  /\ late <= 1
  /\ late = 1 => ~(loop \in {"acquire", "register", "getPage"})
  /\ late = 1 /\ loop = "select" => done # <<>>

\* Only the receive that ends the loop takes a message out of done.
ErrorWaits == (api = "errSent" \/ cancelled) /\ InRun => done # <<>>

NilSent ==
  result = "nil" \/ (\E k \in DOMAIN done : done[k] = "nil")
    => \E s \in Stoppers : stopper[s] = "sent"

Signals == BackoffEmpty /\ LateOnce /\ ErrorWaits /\ NilSent

\* A new controller has empty channels and nobody has signalled (browsercontroller.go:36-45).
LEMMA InitSignals == Init => Signals
  BY DEF Init, Signals, BackoffEmpty, LateOnce, ErrorWaits, NilSent

\* The steps of Run, Shutdown and the API goroutine keep the facts about done, backoff and
\* ctx (browsercontroller.go:56-61, 76-110, 130).
LEMMA NextSignals == TypeOK /\ Signals /\ [Next]_vars => Signals'
  <1> SUFFICES ASSUME TypeOK, Signals, [Next]_vars PROVE Signals'
    OBVIOUS
  <1> USE DEF loopVars, regVars, stopVars, taskVars, Return, InRun
  <1> USE DEF Signals, BackoffEmpty, LateOnce, ErrorWaits, NilSent
  <1>1. CASE SelectDone
    <2>1. /\ 1 \in DOMAIN done /\ Head(done) = done[1]
          /\ DOMAIN done' = {}
      <3>1. /\ done \in Seq({"nil", "err"}) /\ Len(done) <= 1
            /\ done' \in Seq({"nil", "err"}) /\ Len(done') = Len(done) - 1
        BY <1>1, ChannelOps DEF SelectDone, TypeOK
      <3>2. Len(done) \in Nat /\ Len(done') \in Nat
        BY <3>1
      <3>3. Len(done) = 1 /\ Len(done') = 0
        BY <3>1, <3>2
      <3> QED BY <3>1, <3>3
    <2>2. NilSent'
      BY <1>1, <2>1 DEF SelectDone
    <2> QED BY <1>1, <2>2 DEF SelectDone
  <1>2. CASE SelectBackoff
    BY <1>2 DEF SelectBackoff
  <1>3. CASE SelectDefault
    BY <1>3 DEF SelectDefault, DefaultReady, TypeOK
  <1>4. CASE AcquireCancelled \/ Acquire \/ RegisterHeld
    BY <1>4 DEF AcquireCancelled, Acquire, RegisterHeld
  <1>5. CASE NewSessionFails
    BY <1>5 DEF NewSessionFails
  <1>6. ASSUME NEW p \in Pages, GetPage(p) PROVE Signals'
    <2>1. late = 0
      BY <1>6 DEF GetPage, TypeOK
    <2> QED BY <1>6, <2>1 DEF GetPage, Spawn
  <1>7. CASE GetPageNotFound
    BY <1>7 DEF GetPageNotFound
  <1>8. CASE GetPageFails
    BY <1>8 DEF GetPageFails
  <1>9. CASE CloseWaitDone \/ CloseWaitTimeout
    BY <1>9 DEF CloseWaitDone, CloseWaitTimeout
  <1>10. CASE CloseApi
    BY <1>10 DEF CloseApi
  <1>11. ASSUME NEW p \in Pages, TaskStep(p) PROVE Signals'
    BY <1>11 DEF TaskStep, StartFetch, EndFetch, ReportPage, DecGauge, ReleaseTask
  <1>12. ASSUME NEW s \in Stoppers, CallShutdown(s) PROVE Signals'
    BY <1>12 DEF CallShutdown, TypeOK
  <1>13. ASSUME NEW s \in Stoppers, SendShutdown(s) PROVE Signals'
    <2>1. done' # <<>> /\ stopper'[s] = "sent"
      BY <1>13 DEF SendShutdown, TypeOK
    <2> QED BY <1>13, <2>1 DEF SendShutdown
  <1>14. CASE ApiListens \/ ApiFails
    BY <1>14 DEF ApiListens, ApiFails
  <1>15. CASE ApiSendsErr
    <2>1. /\ done' # <<>>
          /\ \A k \in DOMAIN done' : done'[k] = "nil" => k \in DOMAIN done /\ done[k] = "nil"
      BY <1>15 DEF ApiSendsErr, TypeOK
    <2> QED BY <1>15, <2>1 DEF ApiSendsErr
  <1>16. CASE ApiCancels
    BY <1>16 DEF ApiCancels
  <1>17. CASE UNCHANGED vars
    BY <1>17 DEF vars
  <1> QED
    BY <1>1, <1>2, <1>3, <1>4, <1>5, <1>6, <1>7, <1>8, <1>9, <1>10, <1>11, <1>12, <1>13,
       <1>14, <1>15, <1>16, <1>17 DEF Next, LoopStep, StopStep, ApiStep, Ended

\* What done, backoff and ctx say of each other holds in every behaviour.
THEOREM SignalsHold == Spec => []Signals
  BY InitSignals, NextSignals, TypeCorrect, PTL DEF Spec

\* A message in done stops the intake of pages (browsercontroller.go:77-108): at most the
\* page Run was already waiting for is still fetched.
THEOREM OneLatePage == Spec => []AtMostOneLatePage
  <1>1. Signals => AtMostOneLatePage
    BY DEF Signals, LateOnce, AtMostOneLatePage
  <1> QED BY <1>1, SignalsHold, PTL

\* The loop never blocks on its own channel backoff (browsercontroller.go:75, 103).
THEOREM BackoffHasRoom == Spec => []BackoffNeverBlocks
  <1>1. Signals => BackoffNeverBlocks
    BY DEF Signals, BackoffEmpty, BackoffNeverBlocks, BackoffRoom
  <1> QED BY <1>1, SignalsHold, PTL

\* The order of browsercontroller.go:58-59 (send, then cancel) keeps the loop, which
\* continues on a cancelled ctx, from spinning.
THEOREM CancelledLoopEnds == Spec => []CancelledLoopStops
  <1>1. Signals => CancelledLoopStops
    BY DEF Signals, ErrorWaits, CancelledLoopStops
  <1> QED BY <1>1, SignalsHold, PTL

\* Run returns nil only when Shutdown has been called (browsercontroller.go:58, 78, 130).
THEOREM NilMeansShutdown == Spec => []NilOnlyOnShutdown
  <1>1. Signals => NilOnlyOnShutdown
    BY DEF Signals, NilSent, NilOnlyOnShutdown
  <1> QED BY <1>1, SignalsHold, PTL

\* Neither Run, with its channel backoff, nor a page goroutine, with the registry's mutex
\* held, ever blocks on a send (browsercontroller.go:103, registry.go:86).
THEOREM SendsNeverBlock == Spec => []SendsHaveRoom
  <1>1. ReleaseNeverBlocks /\ BackoffNeverBlocks => SendsHaveRoom
    BY DEF SendsHaveRoom
  <1> QED BY <1>1, ReleaseHasRoom, BackoffHasRoom, PTL

\* Run ends on a stop message and returns what that says (browsercontroller.go:58, 77-79).
THEOREM StopsWhenTold == Spec => []StopsForAReason
  <1>1. CancelledLoopStops /\ NilOnlyOnShutdown => StopsForAReason
    BY DEF StopsForAReason
  <1> QED BY <1>1, CancelledLoopEnds, NilMeansShutdown, PTL

-----------------------------------------------------------------------------
(* The slots of the registry and the wait group that counts them.          *)

Slots == RegisteredWhileInUse /\ IsFiniteSet(registered) /\ WaitCountsSlots

\* NewRegistry leaves all slots empty (registry.go:38).
LEMMA InitSlots == Init => Slots
  <1> SUFFICES ASSUME Init PROVE Slots
    OBVIOUS
  <1>1. LentIds = {} /\ registered = {} /\ wg = 0 /\ loop # "getPage"
    BY DEF Init, LentIds, Busy
  <1> QED BY <1>1, FS_EmptySet DEF Slots, RegisteredWhileInUse, WaitCountsSlots

\* Release of an id whose slot is occupied.
LEMMA ReleaseSlot ==
  ASSUME Slots, NEW i \in registered, Release(i)
  PROVE  IsFiniteSet(registered)' /\ WaitCountsSlots'
  <1>1. registered' = registered \ {i} /\ wg' = wg - 1
    BY DEF Release
  <1>2. /\ IsFiniteSet(registered \ {i})
        /\ Cardinality(registered \ {i}) = Cardinality(registered) - 1
    BY FS_RemoveElement, Zenon DEF Slots
  <1> QED BY <1>1, <1>2 DEF Slots, WaitCountsSlots

\* Slots are filled and emptied together with wg.Add and wg.Done (registry.go:64-65, 84-85).
LEMMA NextSlots == TypeOK /\ Places /\ Slots /\ [Next]_vars => Slots'
  <1> SUFFICES ASSUME TypeOK, Places, Slots, [Next]_vars PROVE Slots'
    OBVIOUS
  <1> USE DEF loopVars, regVars, stopVars, taskVars, Return
  <1>1. CASE RegisterHeld
    <2>1. /\ held \in Ids /\ held \notin LentIds
          /\ held' = held /\ LentIds' = LentIds /\ registered = LentIds
          /\ registered' = registered \cup {held} /\ wg' = wg + 1 /\ loop' = "getPage"
      BY <1>1 DEF RegisterHeld, Register, Places, HeldInUse, Disjoint, LentIds, Busy, Slots,
                  RegisteredWhileInUse
    <2>2. RegisteredWhileInUse'
      BY <2>1, NoSessionAssumption DEF RegisteredWhileInUse, HeldByLoop
    <2>3. /\ IsFiniteSet(registered \cup {held})
          /\ Cardinality(registered \cup {held}) = Cardinality(registered) + 1
      BY <2>1, FS_AddElement, Zenon DEF Slots
    <2> QED BY <2>1, <2>2, <2>3 DEF Slots, WaitCountsSlots
  <1>2. ASSUME NEW p \in Pages, GetPage(p) PROVE Slots'
    <2>1. /\ held \in Ids /\ loop = "getPage" /\ loop' = "select"
          /\ UNCHANGED <<registered, wg>>
          /\ Busy' = Busy \cup {p} /\ p \notin Busy
          /\ sess' = [sess EXCEPT ![p] = held]
      BY <1>2 DEF GetPage, Spawn, Places, HeldInUse, Busy, TypeOK
    <2>2. LentIds' = LentIds \cup {held}
      BY <2>1 DEF LentIds, TypeOK, Busy
    <2>3. HeldByLoop = {held}
      BY <2>1, NoSessionAssumption DEF HeldByLoop
    <2> QED BY <2>1, <2>2, <2>3 DEF Slots, RegisteredWhileInUse, WaitCountsSlots
  <1>3. CASE GetPageNotFound \/ GetPageFails
    <2>1. /\ held \in Ids /\ loop = "getPage" /\ loop' # "getPage" /\ Release(held)
          /\ LentIds' = LentIds /\ held \notin LentIds
      BY <1>3 DEF GetPageNotFound, GetPageFails, Places, HeldInUse, Disjoint, LentIds, Busy
    <2>2. held \in registered /\ registered = LentIds \cup {held}
      BY <2>1, NoSessionAssumption DEF Slots, RegisteredWhileInUse, HeldByLoop
    <2>3. RegisteredWhileInUse'
      BY <2>1, <2>2 DEF RegisteredWhileInUse, Release
    <2> QED BY <2>1, <2>2, <2>3, ReleaseSlot DEF Slots
  <1>4. ASSUME NEW p \in Pages, ReleaseTask(p) PROVE Slots'
    <2>1. /\ p \in Busy /\ sess[p] \in Ids /\ Release(sess[p])
          /\ Busy' = Busy \ {p} /\ sess' = [sess EXCEPT ![p] = NoSession]
          /\ UNCHANGED <<loop, held>>
      BY <1>4 DEF ReleaseTask, MoveTask, Places, SessInUse, Busy, TypeOK
    <2>2. LentIds' = LentIds \ {sess[p]}
      <3>1. \A q \in Busy' : q # p /\ sess'[q] = sess[q] /\ sess[q] # sess[p]
        BY <2>1 DEF TypeOK, Busy, Places, Disjoint
      <3> QED BY <2>1, <3>1 DEF LentIds
    <2>3. sess[p] \in registered /\ sess[p] \notin HeldByLoop
      BY <2>1 DEF Slots, RegisteredWhileInUse, LentIds, HeldByLoop, Places, Disjoint
    <2>4. RegisteredWhileInUse'
      BY <2>1, <2>2, <2>3 DEF Slots, RegisteredWhileInUse, HeldByLoop, Release
    <2> QED BY <2>1, <2>3, <2>4, ReleaseSlot DEF Slots
  \* The other steps leave the slots, and the goroutines that hold ids, as they are.
  <1>5. ASSUME UNCHANGED <<registered, wg, sess>>, Busy' = Busy,
               loop' # "getPage", loop # "getPage"
        PROVE  Slots'
    BY <1>5 DEF Slots, RegisteredWhileInUse, WaitCountsSlots, LentIds
  <1>6. ASSUME UNCHANGED <<registered, wg, sess, held, loop>>, Busy' = Busy PROVE Slots'
    BY <1>6 DEF Slots, RegisteredWhileInUse, WaitCountsSlots, LentIds, HeldByLoop
  <1>7. CASE SelectDone \/ SelectBackoff \/ SelectDefault \/ AcquireCancelled \/ Acquire
             \/ NewSessionFails \/ CloseWaitDone \/ CloseWaitTimeout \/ CloseApi
    BY <1>5, <1>7 DEF SelectDone, SelectBackoff, SelectDefault, AcquireCancelled, Acquire,
         NewSessionFails, CloseWaitDone, CloseWaitTimeout, CloseApi, Busy
  <1>8. ASSUME NEW p \in Pages,
               StartFetch(p) \/ EndFetch(p) \/ ReportPage(p) \/ DecGauge(p)
        PROVE  Slots'
    <2>1. Busy' = Busy /\ UNCHANGED <<registered, wg, sess, held, loop>>
      BY <1>8 DEF StartFetch, EndFetch, ReportPage, DecGauge, MoveTask, Busy, TypeOK
    <2> QED BY <2>1, <1>6
  <1>9. CASE (\E s \in Stoppers : StopStep(s)) \/ ApiStep \/ UNCHANGED vars
    BY <1>6, <1>9 DEF StopStep, CallShutdown, SendShutdown, ApiStep, ApiListens, ApiFails,
         ApiSendsErr, ApiCancels, vars, Busy
  <1> QED
    BY <1>1, <1>2, <1>3, <1>4, <1>7, <1>8, <1>9 DEF Next, LoopStep, TaskStep, Ended

\* Occupied slots, sessions in use and wg agree in every behaviour.
THEOREM SlotsHold == Spec => []Slots
  BY InitSlots, NextSlots, PlacesHold, PTL DEF Spec

\* The slots filled and emptied by GetNextAvailable and Release (registry.go:65, 84) are
\* those of the sessions in use.
THEOREM SlotsAreInUse == Spec => []RegisteredWhileInUse
  <1>1. Slots => RegisteredWhileInUse
    BY DEF Slots
  <1> QED BY <1>1, SlotsHold, PTL

\* wg.Add and wg.Done (registry.go:64, 85) count the occupied slots.
THEOREM WaitGroupCountsSlots == Spec => []WaitCountsSlots
  <1>1. Slots => WaitCountsSlots
    BY DEF Slots
  <1> QED BY <1>1, SlotsHold, PTL

-----------------------------------------------------------------------------
(* Closing.                                                                *)

\* The deferred calls of a page's goroutine run after PageCompleted.
ReportedFirst ==
  \A p \in Pages : task[p] \in {"dec", "release", "finished"}
                    => outcome[p] \in {"delivered", "undelivered"}

NobodyLeft ==
  loop \in {"stopping", "exited", "crashed"} /\ ~timedOut => Busy = {}

Closing == ReportedFirst /\ NobodyLeft

\* Before Run closes there is nothing to have left behind.
LEMMA InitClosing == Init => Closing
  BY DEF Init, Closing, ReportedFirst, NobodyLeft

\* A page goroutine reports before it releases (browsercontroller.go:112-123), and CloseWait
\* returns by itself only when the slots are empty (registry.go:103-116).
LEMMA NextClosing == TypeOK /\ Places /\ Slots /\ Closing /\ [Next]_vars => Closing'
  <1> SUFFICES ASSUME TypeOK, Places, Slots, Closing, [Next]_vars PROVE Closing'
    OBVIOUS
  <1> USE DEF loopVars, regVars, stopVars, taskVars, Return
  <1>1. CASE CloseWaitDone
    <2>1. registered = {}
      BY <1>1, FS_EmptySet DEF CloseWaitDone, WaitOver, Slots, WaitCountsSlots
    <2>2. Busy = {}
      BY <2>1 DEF Slots, RegisteredWhileInUse, LentIds
    <2> QED BY <1>1, <2>2 DEF CloseWaitDone, Closing, ReportedFirst, NobodyLeft, Busy
  <1>2. CASE CloseWaitTimeout
    BY <1>2 DEF CloseWaitTimeout, Closing, ReportedFirst, NobodyLeft
  <1>3. CASE CloseApi
    BY <1>3 DEF CloseApi, Closing, ReportedFirst, NobodyLeft, Busy
  <1>4. ASSUME NEW p \in Pages, GetPage(p) PROVE Closing'
    BY <1>4 DEF GetPage, Spawn, Closing, ReportedFirst, NobodyLeft, TypeOK
  <1>5. ASSUME NEW p \in Pages, TaskStep(p) PROVE Closing'
    <2> USE DEF Closing, MoveTask, TypeOK
    <2>1. UNCHANGED <<loop, timedOut>> /\ Busy' \subseteq Busy
      BY <1>5 DEF TaskStep, StartFetch, EndFetch, ReportPage, DecGauge, ReleaseTask, Busy
    <2>2. NobodyLeft'
      BY <2>1 DEF NobodyLeft
    <2>3. CASE ReportPage(p)
      BY <2>2, <2>3 DEF ReportPage, ReportedFirst
    <2>4. CASE EndFetch(p)
      BY <2>2, <2>4 DEF EndFetch, ReportedFirst
    <2>5. CASE StartFetch(p) \/ DecGauge(p) \/ ReleaseTask(p)
      BY <2>2, <2>5 DEF StartFetch, DecGauge, ReleaseTask, ReportedFirst
    <2> QED BY <1>5, <2>3, <2>4, <2>5 DEF TaskStep
  <1>6. CASE SelectDone \/ SelectBackoff \/ SelectDefault \/ AcquireCancelled \/ Acquire
             \/ RegisterHeld \/ NewSessionFails \/ GetPageNotFound \/ GetPageFails
    <2>1. UNCHANGED <<task, outcome>> /\ loop' \notin {"stopping", "exited", "crashed"}
      BY <1>6 DEF SelectDone, SelectBackoff, SelectDefault, AcquireCancelled, Acquire,
           RegisterHeld, NewSessionFails, GetPageNotFound, GetPageFails
    <2> QED BY <2>1 DEF Closing, ReportedFirst, NobodyLeft
  <1>7. CASE (\E s \in Stoppers : StopStep(s)) \/ ApiStep \/ UNCHANGED vars
    <2>1. UNCHANGED <<task, outcome, loop, timedOut>>
      BY <1>7 DEF StopStep, CallShutdown, SendShutdown, ApiStep, ApiListens, ApiFails,
           ApiSendsErr, ApiCancels, vars
    <2> QED BY <2>1 DEF Closing, ReportedFirst, NobodyLeft, Busy
  <1> QED
    BY <1>1, <1>2, <1>3, <1>4, <1>5, <1>6, <1>7 DEF Next, LoopStep, Ended

\* CloseWait (registry.go:103-116) keeps its promise for any number of sessions: when it
\* returns by itself the report of every page taken has been made or tried.
THEOREM ClosesClean == Spec => []CloseWaitClean
  <1>1. Closing => CloseWaitClean
    BY DEF Closing, ReportedFirst, NobodyLeft, CloseWaitClean
  <1> QED BY <1>1, InitClosing, NextClosing, PlacesHold, SlotsHold, PTL DEF Spec

-----------------------------------------------------------------------------
(* Refinement: Controller implements SessionPool, and its gauge counts the *)
(* active sessions.                                                        *)

Reserved    == IF loop \in {"register", "getPage"} THEN HeldByLoop ELSE {}
ProgressMap == [p \in Pages |-> Progress(p)]

-----------------------------------------------------------------------------
(* How the steps of the program change what the abstract pool sees.        *)

\* A step that only moves Run between its waiting places, or nothing at all, is a stutter.
LEMMA PoolStutters ==
  ASSUME UNCHANGED <<pool, held, sess, task, outcome>>,
         loop' \in {"register", "getPage"} <=> loop \in {"register", "getPage"}
  PROVE  UNCHANGED SP!poolVars
  BY DEF SP!poolVars, InPool, HeldByLoop, Progress

\* The pool grows by the id that is appended to it.
LEMMA FreeGrows ==
  ASSUME TypeOK, NEW i \in Ids, pool' = Append(pool, i)
  PROVE  InPool' = InPool \cup {i}
  <1>1. /\ Len(pool) \in Nat /\ DOMAIN pool = 1..Len(pool)
        /\ DOMAIN pool' = 1..(Len(pool) + 1)
        /\ pool'[Len(pool) + 1] = i
        /\ \A k \in 1..Len(pool) : pool'[k] = pool[k]
    BY DEF TypeOK
  <1> QED BY <1>1 DEF InPool

\* The pool shrinks by the id that is received from it.
LEMMA FreeShrinks ==
  ASSUME TypeOK, PoolInjective, pool # <<>>, pool' = Tail(pool)
  PROVE  Head(pool) \in InPool /\ InPool' = InPool \ {Head(pool)}
  <1>1. /\ Len(pool) \in Nat \ {0} /\ DOMAIN pool = 1..Len(pool)
        /\ DOMAIN pool' = 1..(Len(pool) - 1)
        /\ Head(pool) = pool[1]
        /\ \A k \in 1..(Len(pool) - 1) : pool'[k] = pool[k + 1]
    BY DEF TypeOK
  <1>2. InPool = {pool[k] : k \in 1..Len(pool)}
    BY <1>1 DEF InPool
  <1>3. InPool' = {pool'[k] : k \in 1..(Len(pool) - 1)}
    BY <1>1 DEF InPool
  <1>4. ASSUME NEW x \in InPool, x # Head(pool) PROVE x \in InPool'
    <2>1. PICK j \in 1..Len(pool) : x = pool[j]
      BY <1>2, <1>4
    <2>2. j - 1 \in 1..(Len(pool) - 1) /\ (j - 1) + 1 = j
      BY <1>1, <1>4, <2>1
    <2>3. pool'[j - 1] = x
      BY <1>1, <2>1, <2>2
    <2> QED BY <1>3, <2>2, <2>3
  <1>5. ASSUME NEW x \in InPool' PROVE x \in InPool /\ x # Head(pool)
    <2>1. PICK k \in 1..(Len(pool) - 1) : x = pool'[k]
      BY <1>3, <1>5
    <2>2. k + 1 \in 1..Len(pool) /\ x = pool[k + 1] /\ k + 1 # 1
      BY <1>1, <2>1
    <2>3. pool[k + 1] # pool[1]
      BY <1>1, <2>2 DEF PoolInjective
    <2> QED BY <1>1, <1>2, <2>2, <2>3
  <1>6. Head(pool) \in InPool
    BY <1>1, <1>2
  <1> QED BY <1>4, <1>5, <1>6

\* A new registry and a new controller (browsercontroller.go:36-45, registry.go:36-48) are a
\* pool of which nothing is lent.
LEMMA InitImplements == Init => SP!Init
  <1> SUFFICES ASSUME Init PROVE SP!Init
    OBVIOUS
  <1>1. InPool = Ids
    BY DEF Init, FillPool, InPool
  <1>2. Reserved = {} /\ ProgressMap = [p \in Pages |-> "waiting"]
    BY DEF Init, Reserved, ProgressMap, Progress
  <1> QED BY <1>1, <1>2 DEF Init, SP!Init, Reserved, ProgressMap

\* Every step of Run and of the page goroutines lends, returns, loses, reports or finishes as
\* the abstract pool does, or does not touch it.
LEMMA NextImplements ==
  TypeOK /\ Places /\ ReportedFirst /\ [Next]_vars => [SP!Next]_(SP!poolVars)
  <1> SUFFICES ASSUME TypeOK, Places, ReportedFirst, [Next]_vars
               PROVE  [SP!Next]_(SP!poolVars)
    OBVIOUS
  <1> USE DEF loopVars, regVars, stopVars, taskVars, Return
  <1>1. CASE Acquire
    <2>1. /\ Head(pool) \in Ids /\ Head(pool) \in InPool
          /\ InPool' = InPool \ {Head(pool)}
      BY <1>1, FreeShrinks, ChannelOps DEF Acquire, Places, TypeOK
    <2>2. Reserved = {} /\ Reserved' = {Head(pool)}
      BY <1>1, <2>1, NoSessionAssumption DEF Acquire, Reserved, HeldByLoop
    <2>3. ProgressMap' = ProgressMap /\ sess' = sess
      BY <1>1 DEF Acquire, ProgressMap, Progress
    <2>4. SP!Reserve(Head(pool))
      BY <2>1, <2>2, <2>3 DEF SP!Reserve, Reserved, ProgressMap
    <2> QED BY <2>1, <2>4 DEF SP!Next
  <1>2. CASE NewSessionFails
    <2>1. held \in Ids /\ loop = "register" /\ held' = NoSession /\ loop' = "closing"
      BY <1>2 DEF NewSessionFails, Places, HeldInUse
    <2>2. Reserved = {held} /\ Reserved' = {}
      BY <2>1, NoSessionAssumption DEF Reserved, HeldByLoop
    <2>3. ProgressMap' = ProgressMap /\ sess' = sess /\ InPool' = InPool
      BY <1>2 DEF NewSessionFails, ProgressMap, Progress, InPool
    <2>4. SP!Lose(held)
      BY <2>2, <2>3 DEF SP!Lose, Reserved, ProgressMap
    <2> QED BY <2>1, <2>4 DEF SP!Next
  <1>3. ASSUME NEW p \in Pages, GetPage(p) PROVE SP!Next
    <2>1. /\ held \in Ids /\ loop = "getPage" /\ held' = NoSession /\ loop' = "select"
          /\ task[p] = "waiting" /\ task' = [task EXCEPT ![p] = "spawned"]
          /\ sess' = [sess EXCEPT ![p] = held] /\ UNCHANGED <<pool, outcome>>
      BY <1>3 DEF GetPage, Spawn, Places, HeldInUse
    <2>2. Reserved = {held} /\ Reserved' = {} /\ InPool' = InPool
      BY <2>1, NoSessionAssumption DEF Reserved, HeldByLoop, InPool
    <2>3. ProgressMap[p] = "waiting" /\ ProgressMap' = [ProgressMap EXCEPT ![p] = "running"]
      BY <2>1 DEF ProgressMap, Progress, TypeOK
    <2>4. SP!Lend(p, held)
      BY <2>1, <2>2, <2>3 DEF SP!Lend, Reserved, ProgressMap
    <2> QED BY <2>1, <2>4 DEF SP!Next
  <1>4. CASE GetPageNotFound \/ GetPageFails
    <2>1. /\ held \in Ids /\ loop = "getPage" /\ held' = NoSession
          /\ loop' \in {"select", "closing"} /\ pool' = Append(pool, held)
          /\ UNCHANGED <<task, sess, outcome>>
      BY <1>4 DEF GetPageNotFound, GetPageFails, Release, Places, HeldInUse
    <2>2. Reserved = {held} /\ Reserved' = {}
      BY <2>1, NoSessionAssumption DEF Reserved, HeldByLoop
    <2>3. InPool' = InPool \cup {held} /\ ProgressMap' = ProgressMap
      BY <2>1, FreeGrows DEF ProgressMap, Progress
    <2>4. SP!Return(held)
      BY <2>1, <2>2, <2>3 DEF SP!Return, Reserved, ProgressMap
    <2> QED BY <2>1, <2>4 DEF SP!Next
  <1>5. ASSUME NEW p \in Pages, ReportPage(p) PROVE SP!Next
    <2>1. /\ task[p] = "reporting" /\ task' = [task EXCEPT ![p] = "dec"]
          /\ UNCHANGED <<loop, held, pool, sess>>
          /\ \E o \in {"delivered", "undelivered"} : outcome' = [outcome EXCEPT ![p] = o]
      BY <1>5 DEF ReportPage, MoveTask
    <2>2. ProgressMap[p] = "running" /\ ProgressMap' = [ProgressMap EXCEPT ![p] = "reported"]
      BY <2>1 DEF ProgressMap, Progress, TypeOK
    <2>3. InPool' = InPool /\ Reserved' = Reserved
      BY <2>1 DEF InPool, Reserved, HeldByLoop
    <2>4. SP!Report(p)
      BY <2>1, <2>2, <2>3 DEF SP!Report, Reserved, ProgressMap
    <2> QED BY <2>4 DEF SP!Next
  <1>6. ASSUME NEW p \in Pages, ReleaseTask(p) PROVE SP!Next
    <2>1. /\ task[p] = "release" /\ task' = [task EXCEPT ![p] = "finished"]
          /\ sess[p] \in Ids /\ sess' = [sess EXCEPT ![p] = NoSession]
          /\ pool' = Append(pool, sess[p]) /\ UNCHANGED <<loop, held, outcome>>
      BY <1>6 DEF ReleaseTask, MoveTask, Release, Places, SessInUse, Busy
    <2>2. ProgressMap[p] = "reported" /\ ProgressMap' = [ProgressMap EXCEPT ![p] = "finished"]
      BY <2>1 DEF ProgressMap, Progress, TypeOK, ReportedFirst
    <2>3. InPool' = InPool \cup {sess[p]} /\ Reserved' = Reserved
      BY <2>1, FreeGrows DEF Reserved, HeldByLoop
    <2>4. SP!Finish(p)
      BY <2>1, <2>2, <2>3 DEF SP!Finish, Reserved, ProgressMap
    <2> QED BY <2>4 DEF SP!Next
  <1>7. ASSUME NEW p \in Pages, StartFetch(p) \/ EndFetch(p) \/ DecGauge(p)
        PROVE  UNCHANGED SP!poolVars
    <2>1. UNCHANGED <<loop, held, pool, sess>>
      BY <1>7 DEF StartFetch, EndFetch, DecGauge
    <2>2. \A q \in Pages : Progress(q)' = Progress(q)
      BY <1>7 DEF StartFetch, EndFetch, DecGauge, MoveTask, Progress, TypeOK
    <2>3. ProgressMap' = ProgressMap
      BY <2>2 DEF ProgressMap
    <2>4. InPool' = InPool /\ Reserved' = Reserved
      BY <2>1 DEF InPool, Reserved, HeldByLoop
    <2> QED BY <2>1, <2>3, <2>4 DEF SP!poolVars, Reserved, ProgressMap
  <1>8. CASE SelectDone \/ SelectBackoff \/ SelectDefault \/ AcquireCancelled \/ RegisterHeld
             \/ CloseWaitDone \/ CloseWaitTimeout \/ CloseApi
    BY <1>8, PoolStutters DEF SelectDone, SelectBackoff, SelectDefault, AcquireCancelled,
         RegisterHeld, CloseWaitDone, CloseWaitTimeout, CloseApi
  <1>9. CASE (\E s \in Stoppers : StopStep(s)) \/ ApiStep \/ UNCHANGED vars
    BY <1>9, PoolStutters DEF StopStep, CallShutdown, SendShutdown, ApiStep, ApiListens,
         ApiFails, ApiSendsErr, ApiCancels, vars
  <1> QED
    BY <1>1, <1>2, <1>3, <1>4, <1>5, <1>6, <1>7, <1>8, <1>9
       DEF Next, LoopStep, TaskStep, Ended

\* A page goroutine that has left PageCompleted has an outcome (browsercontroller.go:119).
LEMMA ReportedFirstHolds == Spec => []ReportedFirst
  <1>1. Closing => ReportedFirst
    BY DEF Closing
  <1> QED BY <1>1, InitClosing, NextClosing, PlacesHold, SlotsHold, PTL DEF Spec

\* Run (browsercontroller.go:76-124) and the registry (registry.go:50-87) implement the pool
\* of sessions: one session for one page, back in the pool only after the page's report.
THEOREM ControllerImplementsPool == Spec => ImplementsSessionPool
  BY InitImplements, NextImplements, PlacesHold, ReportedFirstHolds, PTL
     DEF Spec, ImplementsSessionPool, SP!Spec

-----------------------------------------------------------------------------
(* The gauge.                                                              *)

GaugeInv == IsFiniteSet(Active) /\ GaugeCountsActive

\* Inc before Fetch and the deferred Dec (browsercontroller.go:116-117) follow the set of
\* active pages until the deferred call of Run resets the gauge (line 66).
LEMMA NextGauge == TypeOK /\ GaugeInv /\ [Next]_vars => GaugeInv'
  <1> SUFFICES ASSUME TypeOK, GaugeInv, [Next]_vars PROVE GaugeInv'
    OBVIOUS
  <1> USE DEF loopVars, regVars, stopVars, taskVars, Return, InRun
  <1>1. ASSUME NEW p \in Pages, StartFetch(p) PROVE GaugeInv'
    <2>1. /\ p \notin Active /\ Active' = Active \cup {p}
          /\ gauge' = gauge + 1 /\ loop' = loop
      BY <1>1 DEF StartFetch, MoveTask, Active, TypeOK
    <2>2. /\ IsFiniteSet(Active \cup {p})
          /\ Cardinality(Active \cup {p}) = Cardinality(Active) + 1
      BY <2>1, FS_AddElement, Zenon DEF GaugeInv
    <2> QED BY <2>1, <2>2 DEF GaugeInv, GaugeCountsActive
  <1>2. ASSUME NEW p \in Pages, DecGauge(p) PROVE GaugeInv'
    <2>1. /\ p \in Active /\ Active' = Active \ {p}
          /\ gauge' = gauge - 1 /\ loop' = loop
      BY <1>2 DEF DecGauge, MoveTask, Active, TypeOK
    <2>2. /\ IsFiniteSet(Active \ {p})
          /\ Cardinality(Active \ {p}) = Cardinality(Active) - 1
      BY <2>1, FS_RemoveElement, Zenon DEF GaugeInv
    <2> QED BY <2>1, <2>2 DEF GaugeInv, GaugeCountsActive
  <1>3. ASSUME UNCHANGED gauge, Active' = Active,
               InRun' \/ loop' = "closing" => InRun \/ loop = "closing"
        PROVE  GaugeInv'
    BY <1>3 DEF GaugeInv, GaugeCountsActive
  <1>4. ASSUME NEW p \in Pages, EndFetch(p) \/ ReportPage(p) \/ ReleaseTask(p) PROVE GaugeInv'
    <2>1. Active' = Active /\ UNCHANGED <<gauge, loop>>
      BY <1>4 DEF EndFetch, ReportPage, ReleaseTask, MoveTask, Active, TypeOK
    <2> QED BY <1>3, <2>1
  <1>5. ASSUME NEW p \in Pages, GetPage(p) PROVE GaugeInv'
    <2>1. Active' = Active /\ gauge' = gauge /\ InRun
      BY <1>5 DEF GetPage, Spawn, Active, TypeOK
    <2> QED BY <1>3, <2>1
  <1>6. CASE SelectDone \/ SelectBackoff \/ SelectDefault \/ AcquireCancelled \/ Acquire
             \/ RegisterHeld \/ NewSessionFails \/ GetPageNotFound \/ GetPageFails
    <2>1. Active' = Active /\ gauge' = gauge /\ InRun
      BY <1>6 DEF SelectDone, SelectBackoff, SelectDefault, AcquireCancelled, Acquire,
           RegisterHeld, NewSessionFails, GetPageNotFound, GetPageFails, Active
    <2> QED BY <1>3, <2>1
  <1>7. CASE CloseWaitDone \/ CloseWaitTimeout
    BY <1>7 DEF CloseWaitDone, CloseWaitTimeout, GaugeInv, GaugeCountsActive, Active
  <1>8. CASE CloseApi
    BY <1>8 DEF CloseApi, GaugeInv, GaugeCountsActive, Active
  <1>9. CASE (\E s \in Stoppers : StopStep(s)) \/ ApiStep \/ UNCHANGED vars
    <2>1. Active' = Active /\ UNCHANGED <<gauge, loop>>
      BY <1>9 DEF StopStep, CallShutdown, SendShutdown, ApiStep, ApiListens, ApiFails,
           ApiSendsErr, ApiCancels, vars, Active
    <2> QED BY <1>3, <2>1
  <1> QED
    BY <1>1, <1>2, <1>4, <1>5, <1>6, <1>7, <1>8, <1>9 DEF Next, LoopStep, TaskStep, Ended

\* ActiveBrowserSessions is the number of pages between Inc and Dec until Run resets it
\* (browsercontroller.go:66, 116-117), for any number of pages.
THEOREM GaugeIsRight == Spec => []GaugeCountsActive
  <1>1. Init => GaugeInv
    <2> SUFFICES ASSUME Init PROVE GaugeInv
      OBVIOUS
    <2>1. Active = {} /\ gauge = 0
      BY DEF Init, Active
    <2> QED BY <2>1, FS_EmptySet DEF GaugeInv, GaugeCountsActive
  <1>2. GaugeInv => GaugeCountsActive
    BY DEF GaugeInv
  <1> QED BY <1>1, <1>2, NextGauge, TypeCorrect, PTL DEF Spec

\* Slots, sessions in use, CloseWait's count and the gauge agree for any number of sessions
\* and pages (registry.go:64-65, 84-85, browsercontroller.go:115-122).
THEOREM AccountsAlwaysAgree == Spec => []AccountsAgree
  <1>1. RegisteredWhileInUse /\ WaitCountsSlots /\ GaugeCountsActive => AccountsAgree
    BY DEF AccountsAgree
  <1> QED BY <1>1, SlotsAreInUse, WaitGroupCountsSlots, GaugeIsRight, PTL
=============================================================================
