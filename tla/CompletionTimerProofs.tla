------------------------ MODULE CompletionTimerProofs ------------------------
(***************************************************************************)
(* The completion timer for any number of requests and callers of Cancel   *)
(* and for every idle and total time.                                      *)
(***************************************************************************)
EXTENDS CompletionTimer, TLAPS

\* Whoever swaps done away from 0 closes doneChan, and nobody else.  Without a check nobody
\* swaps it to 1, which is what Reset would take back; with one there is no Reset.
Closing ==
  /\ \A s \in Streams : notifier[s] # "panic"
  /\ \A c \in Cancellers : canceller[c] # "panic"
  /\ \A s, t \in Streams : notifier[s] = "close" /\ notifier[t] = "close" => s = t
  /\ \A c, d \in Cancellers : canceller[c] = "close" /\ canceller[d] = "close" => c = d
  /\ \A s \in Streams, c \in Cancellers : ~(notifier[s] = "close" /\ canceller[c] = "close")
  /\ done = 0 \/ doneClosed => /\ \A s \in Streams : notifier[s] # "close"
                               /\ \A c \in Cancellers : canceller[c] # "close"
  /\ done = 0 => ~doneClosed
  /\ waiter # "idle" => waits > 0

\* Without a check nobody ever reads a request or sees success.
Unchecked ==
  ~hasCheck => /\ ~lastCheckResult /\ done # 1 /\ result # "nil"
               /\ \A s \in Streams : notifier[s] \notin {"cas", "close"}
               /\ \A g \in Goroutines : stage[g] # "read"

\* The part of TypeOK a check touches.
CheckTypes ==
  /\ lastCheckResult \in BOOLEAN
  /\ stage \in [Goroutines -> {"no", "read", "store", "load"}]
  /\ upTo \in [Goroutines -> 0..Requests] /\ found \in [Goroutines -> 0..Requests]

\* Before the first wait nobody checks.
Unasked ==
  waits = 0 => /\ ~started /\ ~lastCheckResult /\ done # 1 /\ result = "none"
               /\ \A s \in Streams : notifier[s] \notin {"check", "cas", "close"}
               /\ \A g \in Goroutines : stage[g] = "no"

\* A check in progress ranges over every request the wait is about.
Reading ==
  \A g \in Goroutines :
    /\ stage[g] = "no" => found[g] = 0
    /\ stage[g] = "read" => waitedFor <= upTo[g] /\ 1..found[g] \subseteq logged

\* So a goroutine that stores, carries on or reports success does it with reason.
Complete == 1..waitedFor \subseteq logged

Seen ==
  /\ lastCheckResult \/ done = 1 \/ result = "nil" => Complete
  /\ \A s \in Streams : notifier[s] \in {"cas", "close"} => Complete

\* While Fetch waits, the idle timer is never behind idleTimeout, and idleTimeout is maxIdleTime
\* after the last Notify.
Idling ==
  Waiting =>
    IF idleLeft < 0 THEN quiet = MaxIdle + 1 /\ idleTimer = 0
                    ELSE quiet + idleLeft = MaxIdle /\ idleTimer <= idleLeft

IInv == TypeOK /\ Closing /\ Unchecked /\ Unasked /\ Reading /\ Seen /\ Idling

-----------------------------------------------------------------------------
\* The timer as NewCompletionTimer leaves it.
LEMMA InitIInv == Init => IInv
  <1> SUFFICES ASSUME Init PROVE IInv
    OBVIOUS
  <1> USE TimesAssumption DEF Init
  <1>1. TypeOK
    <2>1. 0 \in 0..MaxWaits /\ 0 \in 0..(MaxIdle + 2) /\ 0 \in 0..Requests
      BY DEF MaxWaits
    <2>2. /\ stage \in [Goroutines -> {"no", "read", "store", "load"}]
          /\ upTo \in [Goroutines -> 0..Requests] /\ found \in [Goroutines -> 0..Requests]
          /\ notifier \in [Streams -> {"idle", "started", "check", "cas", "close", "panic"}]
          /\ canceller \in [Cancellers -> {"idle", "close", "returned", "panic"}]
      BY <2>1
    <2>3. /\ hasCheck \in BOOLEAN /\ started \in BOOLEAN /\ doneClosed \in BOOLEAN
          /\ lastCheckResult \in BOOLEAN
      BY Zenon
    <2>4. /\ done \in 0..2 /\ idleLeft \in -1..MaxIdle /\ idleTimer \in 0..MaxIdle
          /\ waitTimer \in 0..MaxTotal /\ waitedFor \in 0..known
      OBVIOUS
    <2> QED BY <2>1, <2>2, <2>3, <2>4 DEF TypeOK
  <1> QED BY <1>1 DEF IInv, Closing, Unchecked, Unasked, Reading, Seen, Complete, Idling, Waiting

\* The registry and the crawl logs only grow.
LEMMA RegistryIInv ==
  ASSUME IInv, AddRequest \/ \E s \in Streams : SetCrawlLog(s) PROVE IInv'
  <1> USE TimesAssumption DEF IInv, doneVars, clockVars, checkVars, waiterVars
  <1>1. CASE AddRequest
    <2>1. TypeOK'
      <3>1. known' \in 0..Requests /\ logged' \in SUBSET (1..known') /\ waitedFor' \in 0..known'
        BY <1>1 DEF AddRequest, TypeOK
      <3> QED BY <1>1, <3>1 DEF AddRequest, TypeOK, MaxWaits
    <2> QED BY <1>1, <2>1 DEF AddRequest, Closing, Unchecked, Unasked, Reading, Seen, Complete,
                              Idling, Waiting
  <1>2. ASSUME NEW s \in Streams, SetCrawlLog(s) PROVE IInv'
    <2>1. TypeOK'
      BY <1>2 DEF SetCrawlLog, TypeOK, MaxWaits, Streams, Goroutines
    <2>2. logged \subseteq logged'
      BY <1>2 DEF SetCrawlLog
    <2>3. Reading' /\ Seen'
      BY <1>2, <2>2 DEF SetCrawlLog, Reading, Seen, Complete
    <2> QED BY <1>2, <2>1, <2>3 DEF SetCrawlLog, Closing, Unchecked, Unasked, Idling, Waiting
  <1> QED BY <1>1, <1>2

\* A check: TRUE is stored only after every request of the list was read with its crawl log.
LEMMA CheckIInv ==
  ASSUME IInv, NEW g \in Goroutines, CheckBegins(g) \/ CheckReads(g) \/ CheckStores(g)
  PROVE  IInv'
  <1> USE TimesAssumption DEF IInv, doneVars, clockVars, waiterVars
  <1>0. /\ UNCHANGED <<doneVars, clockVars, waiterVars, known, logged, notifier>>
        /\ Closing' /\ Idling'
    BY DEF CheckBegins, CheckReads, CheckStores, Closing, Idling, Waiting
  <1>1. waits > 0
    <2>1. waits \in Nat
      BY DEF TypeOK, MaxWaits
    <2>2. CASE waits = 0
      <3>1. stage[g] = "no" /\ ~CheckDue(g)
        BY <2>2 DEF Unasked, CheckDue, Closing, Goroutines, Streams
      <3> QED BY <3>1 DEF CheckBegins, CheckReads, CheckStores
    <2> QED BY <2>1, <2>2
  <1>2. CheckTypes' => TypeOK'
    BY <1>0 DEF CheckTypes, TypeOK, MaxWaits
  <1>3. CheckTypes /\ known \in 0..Requests
    BY DEF CheckTypes, TypeOK
  <1>4. CASE CheckBegins(g)
    <2>1. TypeOK'
      BY <1>4, <1>2, <1>3 DEF CheckBegins, CheckTypes
    <2>2. Reading'
      <3> SUFFICES ASSUME NEW h \in Goroutines
                   PROVE  /\ stage'[h] = "no" => found'[h] = 0
                          /\ stage'[h] = "read" => /\ waitedFor' <= upTo'[h]
                                                   /\ 1..found'[h] \subseteq logged'
        BY DEF Reading
      <3>1. CASE h = g
        BY <1>0, <1>4, <3>1 DEF CheckBegins, TypeOK, Reading
      <3>2. CASE h # g
        BY <1>0, <1>4, <3>2 DEF CheckBegins, TypeOK, Reading
      <3> QED BY <3>1, <3>2
    <2> QED BY <1>0, <1>1, <1>4, <2>1, <2>2
            DEF CheckBegins, TypeOK, Unchecked, Unasked, Seen, Complete
  <1>5. CASE CheckReads(g)
    <2>1. TypeOK'
      BY <1>5, <1>2, <1>3 DEF CheckReads, CheckTypes
    <2>2. Reading'
      <3> SUFFICES ASSUME NEW h \in Goroutines
                   PROVE  /\ stage'[h] = "no" => found'[h] = 0
                          /\ stage'[h] = "read" => /\ waitedFor' <= upTo'[h]
                                                   /\ 1..found'[h] \subseteq logged'
        BY DEF Reading
      <3>1. CASE h = g
        BY <1>0, <1>5, <3>1 DEF CheckReads, TypeOK, Reading
      <3>2. CASE h # g
        BY <1>0, <1>5, <3>2 DEF CheckReads, TypeOK, Reading
      <3> QED BY <3>1, <3>2
    <2> QED BY <1>0, <1>1, <1>5, <2>1, <2>2
            DEF CheckReads, TypeOK, Unchecked, Unasked, Seen, Complete
  <1>6. CASE CheckStores(g)
    <2>1. lastCheckResult' \in BOOLEAN
      BY <1>6, Zenon DEF CheckStores
    <2>2. TypeOK'
      BY <1>6, <2>1, <1>2, <1>3 DEF CheckStores, CheckTypes
    <2>3. lastCheckResult' => stage[g] = "read" /\ found[g] = upTo[g]
      BY <1>6 DEF CheckStores
    <2>4. lastCheckResult' => Complete /\ hasCheck
      BY <2>3 DEF TypeOK, Reading, Complete, Unchecked
    <2>5. Reading'
      BY <1>0, <1>6 DEF CheckStores, TypeOK, Reading
    <2>6. Unchecked' /\ Unasked'
      BY <1>0, <1>1, <1>6, <2>4 DEF CheckStores, TypeOK, Unchecked, Unasked
    <2>7. Seen'
      BY <1>0, <2>4 DEF Seen, Complete
    <2> QED BY <1>0, <2>2, <2>5, <2>6, <2>7
  <1> QED BY <1>4, <1>5, <1>6

\* Notify: success only after a check, and a close only after the swap.
LEMMA NotifyIInv ==
  ASSUME IInv, NEW s \in Streams,
         \/ Notify(s) \/ NotifyReadsStarted(s) \/ NotifyLoads(s) \/ NotifySwaps(s)
         \/ NotifyCloses(s)
  PROVE  IInv'
  <1> USE TimesAssumption DEF IInv, Step, doneVars, clockVars, checkVars, waiterVars
  <1>0. Complete' = Complete /\ s \in Goroutines
    BY DEF Notify, NotifyReadsStarted, NotifyLoads, Loads, NotifySwaps, NotifyCloses, Complete,
           Streams, Goroutines
  <1>1. CASE Notify(s)
    BY <1>0, <1>1 DEF Notify, TypeOK, MaxWaits, Closing, Unchecked, Unasked, Reading, Seen, Idling,
                      Waiting
  <1>2. CASE NotifyReadsStarted(s)
    BY <1>0, <1>2 DEF NotifyReadsStarted, TypeOK, MaxWaits, Closing, Unchecked, Unasked, Reading,
                      Seen, Idling, Waiting
  <1>3. CASE NotifyLoads(s)
    <2>1. TypeOK'
      <3>1. CheckTypes'
        BY <1>0, <1>3 DEF NotifyLoads, Loads, TypeOK, CheckTypes
      <3>2. notifier' \in [Streams -> {"idle", "started", "check", "cas", "close", "panic"}]
        BY <1>3 DEF NotifyLoads, TypeOK
      <3> QED BY <1>3, <3>1, <3>2 DEF NotifyLoads, Loads, TypeOK, CheckTypes, MaxWaits
    <2>2. Reading' /\ Idling'
      BY <1>0, <1>3 DEF NotifyLoads, Loads, TypeOK, Reading, Idling, Waiting
    <2>3. Closing'
      BY <1>3 DEF NotifyLoads, Loads, TypeOK, Closing
    <2>4. Unchecked' /\ Unasked' /\ Seen'
      BY <1>0, <1>3 DEF NotifyLoads, Loads, TypeOK, Unchecked, Unasked, Seen
    <2> QED BY <2>1, <2>2, <2>3, <2>4
  <1>4. CASE NotifySwaps(s)
    BY <1>0, <1>4 DEF NotifySwaps, TypeOK, MaxWaits, Closing, Unchecked, Unasked, Reading, Seen,
                      Idling, Waiting
  <1>5. CASE NotifyCloses(s)
    BY <1>0, <1>5 DEF NotifyCloses, TypeOK, MaxWaits, Closing, Unchecked, Unasked, Reading, Seen,
                      Idling, Waiting
  <1> QED BY <1>1, <1>2, <1>3, <1>4, <1>5

\* Cancel likewise.
LEMMA CancelIInv ==
  ASSUME IInv, NEW c \in Cancellers, CancelSwaps(c) \/ CancelCloses(c) PROVE IInv'
  <1> USE TimesAssumption DEF IInv, clockVars, checkVars, waiterVars, TypeOK, MaxWaits, Closing,
                              Unchecked, Unasked, Reading, Seen, Complete, Idling, Waiting
  <1>1. CASE CancelSwaps(c)
    BY <1>1 DEF CancelSwaps
  <1>2. CASE CancelCloses(c)
    BY <1>2 DEF CancelCloses
  <1> QED BY <1>1, <1>2

\* The waiter takes the result of its check, or of a later one of a stream.
LEMMA LoadIInv ==
  ASSUME IInv, CallLoads \/ WaitTimerLoads \/ IdleTimerLoads PROVE IInv'
  <1> USE TimesAssumption DEF IInv, Loads, To, Return, CallLoads, WaitTimerLoads, IdleTimerLoads,
                              doneVars
  <1>0. 0 \in Goroutines
    BY DEF Goroutines
  <1>1. /\ UNCHANGED <<hasCheck, started, done, doneClosed, canceller, lastCheckResult, known,
                       logged, notifier, waits, waitedFor>>
        /\ stage' = [stage EXCEPT ![0] = "no"] /\ upTo' = [upTo EXCEPT ![0] = 0]
        /\ found' = [found EXCEPT ![0] = 0]
        /\ waiter # "idle" /\ waiter' # "idle"
        /\ result' = "nil" => lastCheckResult \/ result = "nil"
    BY DEF clockVars
  <1>2. TypeOK'
    <2>1. idleTimer' \in 0..MaxIdle /\ UNCHANGED <<idleLeft, waitTimer, quiet>>
      BY DEF TypeOK, clockVars
    <2>2. /\ waiter' \in {"arm", "select", "returned"}
          /\ result' \in {"none", "nil", "idle", "exceeded", "cancelled"}
      BY DEF TypeOK
    <2> QED BY <1>0, <1>1, <2>1, <2>2 DEF TypeOK, MaxWaits
  <1>3. Closing'
    BY <1>1 DEF Closing
  <1>4. waits # 0
    BY <1>1 DEF Closing
  <1>5. Unchecked' /\ Unasked' /\ Seen'
    BY <1>0, <1>1, <1>4 DEF Unchecked, Unasked, Seen, Complete, TypeOK
  <1>6. Reading'
    BY <1>0, <1>1 DEF Reading, TypeOK
  <1>7. Idling'
    BY DEF Idling, Waiting, TypeOK, clockVars
  <1> QED BY <1>2, <1>3, <1>5, <1>6, <1>7

\* The rest of WaitForCompletion, and Reset: a second wait is one without a check.
LEMMA WaiterIInv ==
  ASSUME IInv,
         \/ CallWait \/ ArmTimers \/ WaitTimerFires \/ IdleTimerFires \/ DoneClosed \/ Reset
  PROVE  IInv'
  <1> USE TimesAssumption DEF IInv, doneVars, clockVars, checkVars, To, Return, MaxWaits
  <1>1. CASE CallWait
    <2>1. TypeOK'
      BY <1>1 DEF CallWait, TypeOK
    <2>2. hasCheck => waits = 0
      BY <1>1 DEF CallWait, TypeOK
    <2>3. Unchecked' /\ Closing' /\ Idling' /\ Unasked'
      BY <1>1 DEF CallWait, TypeOK, Unchecked, Closing, Idling, Waiting, Unasked
    <2>4. Reading'
      BY <1>1, <2>2 DEF CallWait, Reading, Unchecked, Unasked
    <2>5. Seen'
      BY <1>1, <2>2 DEF CallWait, Seen, Unchecked, Unasked
    <2> QED BY <2>1, <2>3, <2>4, <2>5
  <1> USE DEF TypeOK, Closing, Unchecked, Unasked, Reading, Seen, Complete, Idling, Waiting
  <1>2. CASE ArmTimers
    BY <1>2 DEF ArmTimers
  <1>3. CASE WaitTimerFires
    BY <1>3 DEF WaitTimerFires
  <1>4. CASE IdleTimerFires
    BY <1>4 DEF IdleTimerFires
  <1>5. CASE DoneClosed
    BY <1>5 DEF DoneClosed
  <1>6. CASE Reset
    <2>1. ~hasCheck /\ done' = done /\ waits > 0
      BY <1>6 DEF Reset
    <2> QED BY <1>6, <2>1 DEF Reset
  <1> QED BY <1>1, <1>2, <1>3, <1>4, <1>5, <1>6

\* Time passes only while the wait has nothing to do: not beyond an idle timer that is due.
LEMMA TickIInv == ASSUME IInv, Tick PROVE IInv'
  <1> USE TimesAssumption DEF IInv, Tick, doneVars, checkVars, waiterVars
  <1>1. TypeOK'
    BY DEF TypeOK, MaxWaits
  <1>2. Closing' /\ Unchecked' /\ Unasked' /\ Reading' /\ Seen'
    BY DEF Closing, Unchecked, Unasked, Reading, Seen, Complete
  <1>3. Idling'
    BY DEF TypeOK, Idling, Waiting, WaiterReady
  <1> QED BY <1>1, <1>2, <1>3

\* Every step keeps the invariant.
LEMMA NextIInv == IInv /\ [Next]_vars => IInv'
  <1> SUFFICES ASSUME IInv, [Next]_vars PROVE IInv'
    OBVIOUS
  <1>1. CASE UNCHANGED vars
    BY <1>1 DEF vars, doneVars, clockVars, checkVars, waiterVars, IInv, TypeOK, MaxWaits, Closing,
                Unchecked, Unasked, Reading, Seen, Complete, Idling, Waiting
  <1> QED BY <1>1, RegistryIInv, CheckIInv, NotifyIInv, CancelIInv, LoadIInv, WaiterIInv, TickIInv
          DEF Next

\* The invariant of the timer and of the goroutines that use it.
THEOREM SpecIInv == Spec => []IInv
  BY InitIInv, NextIInv, PTL DEF Spec

-----------------------------------------------------------------------------
\* Types of the timer, for every number of requests and every idle and total time.
THEOREM TypeCorrect == Spec => []TypeOK
  BY SpecIInv, PTL DEF IInv

\* WaitForCompletion returns nil only if every request known when it was called has its crawl
\* log (completiontimer.go 63-118), although MatchCrawlLogs reads the requests one by one while
\* they change (requests.go 113-132) and lastCheckResult is shared by all goroutines.
THEOREM SuccessAlwaysReal == Spec => []SuccessIsReal
  <1>1. IInv => SuccessIsReal
    BY DEF IInv, Seen, Complete, SuccessIsReal
  <1> QED BY <1>1, SpecIInv, PTL

\* close(t.doneChan) is executed at most once (completiontimer.go 73-76, 120-123, 129).
THEOREM ClosesDoneChanOnce == Spec => []DoneChanClosedOnce
  <1>1. IInv => DoneChanClosedOnce
    BY DEF IInv, Closing, DoneChanClosedOnce
  <1> QED BY <1>1, SpecIInv, PTL

\* Silence of maxIdleTime ends the wait (completiontimer.go 99-109).
THEOREM IdleAlwaysOnTime == Spec => []IdleOnTime
  <1>1. IInv => IdleOnTime
    BY TimesAssumption DEF IInv, TypeOK, Idling, IdleOnTime
  <1> QED BY <1>1, SpecIInv, PTL

\* Nothing shorter does: IdleTimeout is returned only when nobody has notified for longer.
THEOREM IdleNeverEarly == Spec => IdleNotEarly
  <1>1. IInv /\ [Next]_vars =>
          [waiter # "returned" /\ waiter' = "returned" /\ result' = "idle" => quiet > MaxIdle]_vars
    <2> SUFFICES ASSUME IInv, [Next]_vars, vars' # vars, waiter # "returned",
                        waiter' = "returned", result' = "idle"
                 PROVE  quiet > MaxIdle
      OBVIOUS
    <2>1. IdleTimerLoads /\ ~lastCheckResult /\ idleLeft < 0
      BY DEF Next, AddRequest, SetCrawlLog, CheckBegins, CheckReads, CheckStores, Notify,
         NotifyReadsStarted, NotifyLoads, NotifySwaps, NotifyCloses, CancelSwaps, CancelCloses,
         CallWait, CallLoads, ArmTimers, WaitTimerFires, WaitTimerLoads, IdleTimerFires,
         IdleTimerLoads, DoneClosed, Reset, Tick, To, Return, waiterVars
    <2> QED BY <2>1, TimesAssumption DEF IdleTimerLoads, Waiting, IInv, TypeOK, Idling
  <1> QED BY <1>1, SpecIInv, PTL DEF Spec, IdleNotEarly
=============================================================================
