-------------------------- MODULE CompletionTimer --------------------------
(***************************************************************************)
(* syncx.CompletionTimer as a session uses it: API streams call Notify     *)
(* from their own goroutines while Fetch is in WaitForCompletion.  Two     *)
(* instances exist: timer, whose check is MatchCrawlLogs, and              *)
(* netActivityTimer, without a check, which Fetch resets and waits for     *)
(* again.  The check reads the requests one by one while they change, and  *)
(* all goroutines pass its result through one field, lastCheckResult.      *)
(* Points in time are kept as the ticks left until they come.              *)
(***************************************************************************)
EXTENDS Integers, FiniteSets

CONSTANTS
  Requests,   \* the requests of the page; the stream of each calls Notify
  Cancellers, \* callers of Cancel
  MaxIdle,    \* maxIdleTime, in ticks
  MaxTotal,   \* maxTotalTime, in ticks
  QuietWaits  \* bound: waits of netActivityTimer, with a Reset between two

ASSUME TimesAssumption ==
  /\ Requests \in Nat
  /\ MaxIdle \in Nat \ {0} /\ MaxTotal \in Nat \ {0}
  /\ QuietWaits \in Nat \ {0}

VARIABLES
  hasCheck,   \* the timer has a check function: it is timer, not netActivityTimer
  started,    \* CompletionTimer.started
  done,       \* CompletionTimer.done: 0, 1 success, 2 cancel
  doneClosed, \* doneChan is closed
  lastCheckResult, \* CompletionTimer.lastCheckResult
  idleLeft,   \* until idleTimeout; -1 when time.Now().After(idleTimeout)
  idleTimer,  \* until idleTimer fires
  waitTimer,  \* until waitTimer fires
  known,      \* length of the registry's list of requests, which are numbered in its order
  logged,     \* the requests whose CrawlLog is set
  stage,      \* how far each goroutine is in a check
  upTo,       \* length of the list the check ranges over
  found,      \* requests of it the check has read, all of them with a crawl log
  notifier,   \* where each stream is inside Notify
  waiter,     \* where Fetch is inside WaitForCompletion
  waits,      \* calls of WaitForCompletion so far
  result,     \* what the last one that is over returned
  canceller,  \* where each caller of Cancel is
  quiet,      \* ticks since the last Notify, or since the wait began
  waitedFor   \* requests known when the wait began

doneVars   == <<done, doneClosed, canceller>>
clockVars  == <<idleLeft, idleTimer, waitTimer, quiet>>
checkVars  == <<lastCheckResult, stage, upTo, found>>
waiterVars == <<hasCheck, started, waiter, waits, result, waitedFor>>
vars == <<doneVars, clockVars, checkVars, waiterVars, known, logged, notifier>>

Streams    == 1..Requests
Goroutines == 0..Requests   \* 0 is Fetch

\* Fetch waits for timer once.
MaxWaits == IF hasCheck THEN 1 ELSE QuietWaits

TypeOK ==
  /\ hasCheck \in BOOLEAN /\ started \in BOOLEAN /\ done \in 0..2 /\ doneClosed \in BOOLEAN
  /\ lastCheckResult \in BOOLEAN
  /\ idleLeft \in -1..MaxIdle /\ idleTimer \in 0..MaxIdle /\ waitTimer \in 0..MaxTotal
  /\ known \in 0..Requests /\ logged \in SUBSET (1..known)
  /\ stage \in [Goroutines -> {"no", "read", "store", "load"}]
  /\ upTo \in [Goroutines -> 0..Requests] /\ found \in [Goroutines -> 0..Requests]
  /\ notifier \in [Streams -> {"idle", "started", "check", "cas", "close", "panic"}]
  /\ waiter \in {"idle", "first", "arm", "select", "waitFired", "idleFired", "returned"}
  /\ waits \in 0..MaxWaits
  /\ result \in {"none", "nil", "idle", "exceeded", "cancelled"}
  /\ canceller \in [Cancellers -> {"idle", "close", "returned", "panic"}]
  /\ quiet \in 0..(MaxIdle + 2) /\ waitedFor \in 0..known

Init ==
  /\ hasCheck \in BOOLEAN
  /\ started = FALSE /\ done = 0 /\ doneClosed = FALSE /\ lastCheckResult = FALSE
  /\ idleLeft = -1 /\ idleTimer = 0 /\ waitTimer = 0
  /\ known \in 0..Requests /\ logged = {}
  /\ stage = [g \in Goroutines |-> "no"]
  /\ upTo = [g \in Goroutines |-> 0] /\ found = [g \in Goroutines |-> 0]
  /\ notifier = [s \in Streams |-> "idle"]
  /\ waiter = "idle" /\ waits = 0 /\ result = "none"
  /\ canceller = [c \in Cancellers |-> "idle"]
  /\ quiet = 0 /\ waitedFor = 0

-----------------------------------------------------------------------------
(* The registry, as far as the check reads it.                             *)

\* requests.AddRequest
AddRequest ==
  /\ known < Requests /\ known' = known + 1
  /\ UNCHANGED <<doneVars, clockVars, checkVars, waiterVars, logged, notifier>>

\* DoRequest_Completed sets the crawl log before it calls Notify.
SetCrawlLog(s) ==
  /\ s \in (1..known) \ logged /\ notifier[s] = "idle"
  /\ logged' = logged \cup {s}
  /\ UNCHANGED <<doneVars, clockVars, checkVars, waiterVars, known, notifier>>

-----------------------------------------------------------------------------
(* t.lastCheckResult = t.check(), by any goroutine.                        *)

CheckDue(g) ==
  IF g = 0 THEN waiter \in {"first", "waitFired", "idleFired"} ELSE notifier[g] = "check"

\* The check that is never satisfied, or MatchCrawlLogs: the range clause evaluates the list.
CheckBegins(g) ==
  /\ CheckDue(g) /\ stage[g] = "no"
  /\ stage' = [stage EXCEPT ![g] = IF hasCheck THEN "read" ELSE "store"]
  /\ upTo' = [upTo EXCEPT ![g] = IF hasCheck THEN known ELSE 0]
  /\ UNCHANGED <<lastCheckResult, found, doneVars, clockVars, waiterVars, known, logged, notifier>>

CheckReadsLast(g) ==
  /\ stage[g] = "read" /\ found[g] < upTo[g]
  /\ IF found[g] + 1 \in logged \/ found[g] + 1 < upTo[g]
        THEN found' = [found EXCEPT ![g] = @ + 1] /\ stage' = stage
        ELSE stage' = [stage EXCEPT ![g] = "store"] /\ found' = found
  /\ UNCHANGED <<lastCheckResult, upTo, doneVars, clockVars, waiterVars, known, logged, notifier>>

\* One request without a crawl log settles the check; the rest is only counted.
CheckReads(g) ==
  /\ stage[g] = "read" /\ found[g] < upTo[g]
  /\ IF found[g] + 1 \in logged
        THEN found' = [found EXCEPT ![g] = @ + 1] /\ stage' = stage
        ELSE stage' = [stage EXCEPT ![g] = "store"] /\ found' = found
  /\ UNCHANGED <<lastCheckResult, upTo, doneVars, clockVars, waiterVars, known, logged, notifier>>

CheckStores(g) ==
  /\ \/ stage[g] = "store"
     \/ stage[g] = "read" /\ found[g] = upTo[g]
  /\ lastCheckResult' = (stage[g] = "read")
  /\ stage' = [stage EXCEPT ![g] = "load"]
  /\ UNCHANGED <<upTo, found, doneVars, clockVars, waiterVars, known, logged, notifier>>

\* if t.lastCheckResult: another goroutine may have stored its own since.
Loads(g) ==
  /\ stage[g] = "load"
  /\ stage' = [stage EXCEPT ![g] = "no"]
  /\ upTo' = [upTo EXCEPT ![g] = 0] /\ found' = [found EXCEPT ![g] = 0]
  /\ UNCHANGED <<lastCheckResult, known, logged>>

-----------------------------------------------------------------------------
(* Notify.                                                                 *)

Step(s, to) == notifier' = [notifier EXCEPT ![s] = to]

\* notifyCount, which is only logged, and idleTimeout
Notify(s) ==
  /\ notifier[s] = "idle" /\ Step(s, "started")
  /\ idleLeft' = MaxIdle /\ quiet' = 0
  /\ UNCHANGED <<doneVars, idleTimer, waitTimer, checkVars, waiterVars, known, logged>>

NotifyReadsStarted(s) ==
  /\ notifier[s] = "started" /\ Step(s, IF started THEN "check" ELSE "idle")
  /\ UNCHANGED <<doneVars, clockVars, checkVars, waiterVars, known, logged>>

NotifyLoads(s) ==
  /\ notifier[s] = "check" /\ Loads(s)
  /\ Step(s, IF lastCheckResult THEN "cas" ELSE "idle")
  /\ UNCHANGED <<doneVars, clockVars, waiterVars>>

NotifySetsDone(s) ==
  /\ notifier[s] = "cas" /\ Step(s, "close")
  /\ done' = 1
  /\ UNCHANGED <<doneClosed, canceller, clockVars, checkVars, waiterVars, known, logged>>

\* atomic.CompareAndSwapInt32(&t.done, 0, 1)
NotifySwaps(s) ==
  /\ notifier[s] = "cas" /\ Step(s, IF done = 0 THEN "close" ELSE "idle")
  /\ done' = IF done = 0 THEN 1 ELSE done
  /\ UNCHANGED <<doneClosed, canceller, clockVars, checkVars, waiterVars, known, logged>>

\* close(t.doneChan): panics on a closed channel.
NotifyCloses(s) ==
  /\ notifier[s] = "close" /\ Step(s, IF doneClosed THEN "panic" ELSE "idle")
  /\ doneClosed' = TRUE
  /\ UNCHANGED <<done, canceller, clockVars, checkVars, waiterVars, known, logged>>

-----------------------------------------------------------------------------
(* Cancel.                                                                 *)

CancelAdds(c) ==
  /\ canceller[c] = "idle"
  /\ canceller' = [canceller EXCEPT ![c] = IF done = 0 THEN "close" ELSE "returned"]
  /\ done' = done + 2
  /\ UNCHANGED <<doneClosed, clockVars, checkVars, waiterVars, known, logged, notifier>>

CancelSwaps(c) ==
  /\ canceller[c] = "idle"
  /\ canceller' = [canceller EXCEPT ![c] = IF done = 0 THEN "close" ELSE "returned"]
  /\ done' = IF done = 0 THEN 2 ELSE done
  /\ UNCHANGED <<doneClosed, clockVars, checkVars, waiterVars, known, logged, notifier>>

CancelCloses(c) ==
  /\ canceller[c] = "close"
  /\ canceller' = [canceller EXCEPT ![c] = IF doneClosed THEN "panic" ELSE "returned"]
  /\ doneClosed' = TRUE
  /\ UNCHANGED <<done, clockVars, checkVars, waiterVars, known, logged, notifier>>

-----------------------------------------------------------------------------
(* WaitForCompletion and Reset.                                            *)

To(w)     == waiter' = w /\ result' = result
Return(r) == waiter' = "returned" /\ result' = r

CallWait ==
  /\ waiter = "idle" /\ waits < MaxWaits /\ To("first")
  /\ waits' = waits + 1 /\ waitedFor' = known
  /\ UNCHANGED <<hasCheck, started, doneVars, clockVars, checkVars, known, logged, notifier>>

\* The check before anything is armed.
CallLoads ==
  /\ waiter = "first" /\ Loads(0)
  /\ IF lastCheckResult THEN Return("nil") ELSE To("arm")
  /\ UNCHANGED <<hasCheck, started, waits, waitedFor, doneVars, clockVars, notifier>>

\* The timers and idleTimeout; last of all, started.
ArmTimers ==
  /\ waiter = "arm" /\ To("select")
  /\ waitTimer' = MaxTotal /\ idleTimer' = MaxIdle /\ idleLeft' = MaxIdle /\ quiet' = 0
  /\ started' = TRUE
  /\ UNCHANGED <<hasCheck, waits, waitedFor, doneVars, checkVars, known, logged, notifier>>

WaitTimerFires ==
  /\ waiter = "select" /\ waitTimer = 0 /\ To("waitFired")
  /\ UNCHANGED <<hasCheck, started, waits, waitedFor, doneVars, clockVars, checkVars, known, logged,
                 notifier>>

WaitTimerIgnored ==
  /\ waiter = "waitFired" /\ Loads(0)
  /\ IF lastCheckResult THEN Return("nil") ELSE To("select")
  /\ UNCHANGED <<hasCheck, started, waits, waitedFor, doneVars, clockVars, notifier>>

WaitTimerLoads ==
  /\ waiter = "waitFired" /\ Loads(0)
  /\ Return(IF lastCheckResult THEN "nil" ELSE "exceeded")
  /\ UNCHANGED <<hasCheck, started, waits, waitedFor, doneVars, clockVars, notifier>>

IdleTimerFires ==
  /\ waiter = "select" /\ idleTimer = 0 /\ To("idleFired")
  /\ UNCHANGED <<hasCheck, started, waits, waitedFor, doneVars, clockVars, checkVars, known, logged,
                 notifier>>

IdleTimerReturns ==
  /\ waiter = "idleFired" /\ Loads(0)
  /\ Return(IF lastCheckResult THEN "nil" ELSE "idle")
  /\ UNCHANGED <<hasCheck, started, waits, waitedFor, doneVars, clockVars, notifier>>

IdleTimerFullPeriod ==
  /\ waiter = "idleFired" /\ Loads(0)
  /\ \/ lastCheckResult /\ Return("nil") /\ UNCHANGED idleTimer
     \/ ~lastCheckResult /\ idleLeft < 0 /\ Return("idle") /\ UNCHANGED idleTimer
     \/ ~lastCheckResult /\ idleLeft >= 0 /\ To("select") /\ idleTimer' = MaxIdle
  /\ UNCHANGED <<hasCheck, started, waits, waitedFor, doneVars, idleLeft, waitTimer, quiet,
                 notifier>>

\* If there was a Notify since, the timer is set again, to what is left until idleTimeout.
IdleTimerLoads ==
  /\ waiter = "idleFired" /\ Loads(0)
  /\ \/ lastCheckResult /\ Return("nil") /\ UNCHANGED idleTimer
     \/ ~lastCheckResult /\ idleLeft < 0 /\ Return("idle") /\ UNCHANGED idleTimer
     \/ ~lastCheckResult /\ idleLeft >= 0 /\ To("select") /\ idleTimer' = idleLeft
  /\ UNCHANGED <<hasCheck, started, waits, waitedFor, doneVars, idleLeft, waitTimer, quiet,
                 notifier>>

DoneClosed ==
  /\ waiter = "select" /\ doneClosed
  /\ Return(IF done = 1 THEN "nil" ELSE "cancelled")
  /\ UNCHANGED <<hasCheck, started, waits, waitedFor, doneVars, clockVars, checkVars, known, logged,
                 notifier>>

Reset ==
  /\ waiter = "returned" /\ waits < MaxWaits /\ To("idle")
  /\ done' = IF done = 1 THEN 0 ELSE done
  /\ started' = FALSE
  /\ UNCHANGED <<hasCheck, waits, waitedFor, doneClosed, canceller, clockVars, checkVars, known,
                 logged, notifier>>

-----------------------------------------------------------------------------
Waiting == waiter \in {"select", "waitFired", "idleFired"}

\* The wait has something to do now and does it before the clock goes on.  It does nothing but
\* spin while the idle timer is due and idleTimeout is this very moment.
WaiterReady ==
  /\ ~(idleTimer = 0 /\ idleLeft = 0)
  /\ \/ waiter = "select" /\ (waitTimer = 0 \/ doneClosed \/ idleTimer = 0)
     \/ waiter \in {"waitFired", "idleFired"}

Tick ==
  LET down(t) == IF t > 0 THEN t - 1 ELSE 0
  IN  /\ ~WaiterReady
      /\ idleLeft' = IF idleLeft >= 0 THEN idleLeft - 1 ELSE -1
      /\ idleTimer' = down(idleTimer) /\ waitTimer' = down(waitTimer)
      /\ quiet' = IF quiet < MaxIdle + 2 THEN quiet + 1 ELSE quiet
      /\ UNCHANGED <<doneVars, checkVars, waiterVars, known, logged, notifier>>

WaitStep ==
  \/ CheckBegins(0) \/ CheckReads(0) \/ CheckStores(0)
  \/ CallLoads \/ ArmTimers \/ WaitTimerFires \/ WaitTimerLoads \/ IdleTimerFires
  \/ IdleTimerLoads \/ DoneClosed

Next ==
  \/ AddRequest
  \/ \E s \in Streams :
       \/ SetCrawlLog(s) \/ Notify(s) \/ NotifyReadsStarted(s) \/ NotifyLoads(s)
       \/ NotifySwaps(s) \/ NotifyCloses(s)
  \/ \E g \in Goroutines : CheckBegins(g) \/ CheckReads(g) \/ CheckStores(g)
  \/ \E c \in Cancellers : CancelSwaps(c) \/ CancelCloses(c)
  \/ CallWait \/ CallLoads \/ ArmTimers \/ WaitTimerFires \/ WaitTimerLoads \/ IdleTimerFires
  \/ IdleTimerLoads \/ DoneClosed \/ Reset
  \/ Tick

\* Fetch runs and time passes; the streams owe nothing, and may notify without end.
Fairness == WF_vars(WaitStep) /\ WF_vars(Tick)

Spec     == Init /\ [][Next]_vars
FairSpec == Spec /\ Fairness

-----------------------------------------------------------------------------
(* Properties.                                                             *)

\* WaitForCompletion reports success only if every request known when it was called has its
\* crawl log, whichever goroutine's check said so and whoever overwrote lastCheckResult since.
\* A request that is registered during the wait may miss its own.
SuccessIsReal == waiter = "returned" /\ result = "nil" => 1..waitedFor \subseteq logged

\* An idle timeout is never reported while a stream has been active within maxIdleTime,
\* however its Notify interleaves with the arming and firing of the timers.
IdleNotEarly ==
  [][waiter # "returned" /\ waiter' = "returned" /\ result' = "idle" => quiet > MaxIdle]_vars

\* When all streams have been silent for maxIdleTime the wait is over, also when the idle
\* timer was set anew along the way.
IdleOnTime == Waiting => quiet <= MaxIdle + 1

\* doneChan is closed once: neither a stream nor Fetch panics in close(t.doneChan).
DoneChanClosedOnce ==
  /\ \A s \in Streams : notifier[s] # "panic"
  /\ \A c \in Cancellers : canceller[c] # "panic"

\* Streams that notify without end do not keep Fetch waiting for ever.
WaitEnds == waiter = "select" ~> waiter = "returned"
=============================================================================
