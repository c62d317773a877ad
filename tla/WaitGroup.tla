----------------------------- MODULE WaitGroup -----------------------------
(***************************************************************************)
(* syncx.WaitGroup, one action per atomic instruction or channel           *)
(* operation, as Fetch uses it: the listener goroutine of every browser    *)
(* target counts frames that start and stop loading, Fetch waits once for  *)
(* the count to be zero, API streams may cancel the wait, and loadCtx puts *)
(* a deadline on it.                                                       *)
(***************************************************************************)
EXTENDS Integers

CONSTANTS
  Targets,      \* browser targets; the callbacks of one run one at a time
  LateTargets,  \* targets the session starts to listen to when a frame is already loading
  Cancellers,   \* API streams that call Cancel
  MaxLoads      \* bound: frame loads per target

ASSUME LateAssumption  == LateTargets \subseteq Targets
ASSUME LoadsAssumption == MaxLoads \in Nat

VARIABLES
  counter,      \* WaitGroup.counter
  state,        \* WaitGroup.state: 0 nobody waits, 1 waiting, 2 done
  doneClosed,   \* WaitGroup.done is closed
  cancelClosed, \* WaitGroup.cancel is closed
  expired,      \* WaitGroup.ctx is done
  adder,        \* where the callback of each target is inside Add
  loading,      \* frames of the target that are loading in the browser
  loads,        \* loads the target may still start
  waiter,       \* where Fetch is inside Wait
  waitResult,   \* what Wait returned
  canceller,    \* where each caller of Cancel is
  sawZero       \* counter was 0 at some moment since Wait was called

targetVars == <<adder, loading, loads>>
waitVars   == <<waiter, waitResult>>
vars == <<counter, state, doneClosed, cancelClosed, expired, targetVars, waitVars,
          canceller, sawZero>>

TypeOK ==
  /\ counter \in Int
  /\ state \in 0..2
  /\ doneClosed \in BOOLEAN /\ cancelClosed \in BOOLEAN /\ expired \in BOOLEAN
  /\ adder \in [Targets -> {"idle", "cas", "close", "panic"}]
  /\ loading \in [Targets -> Nat] /\ loads \in [Targets -> Nat]
  /\ waiter \in {"idle", "check", "select", "returned"}
  /\ waitResult \in {"none", "nil", "exceeded", "cancelled"}
  /\ canceller \in [Cancellers -> {"idle", "returned", "panic"}]
  /\ sawZero \in BOOLEAN

Init ==
  /\ counter = 0 /\ state = 0
  /\ doneClosed = FALSE /\ cancelClosed = FALSE /\ expired = FALSE
  /\ adder = [t \in Targets |-> "idle"]
  /\ loading = [t \in Targets |-> IF t \in LateTargets THEN 1 ELSE 0]
  /\ loads = [t \in Targets |-> MaxLoads]
  /\ waiter = "idle" /\ waitResult = "none"
  /\ canceller = [c \in Cancellers |-> "idle"]
  /\ sawZero = FALSE

-----------------------------------------------------------------------------
(* Add, called from the listener.                                          *)

CallAddOnlyPositive(t, delta) ==
  /\ adder[t] = "idle"
  /\ counter' = counter + delta
  /\ adder' = [adder EXCEPT ![t] = IF counter' > 0 THEN "cas" ELSE "idle"]
  /\ sawZero' = (sawZero \/ counter' = 0)
  /\ UNCHANGED <<state, doneClosed, cancelClosed, expired, waitVars, canceller>>

\* n := atomic.AddInt32(...); only n == 0 evaluates the other operand of &&.
CallAdd(t, delta) ==
  /\ adder[t] = "idle"
  /\ counter' = counter + delta
  /\ adder' = [adder EXCEPT ![t] = IF counter' = 0 THEN "cas" ELSE "idle"]
  /\ sawZero' = (sawZero \/ counter' = 0)
  /\ UNCHANGED <<state, doneClosed, cancelClosed, expired, waitVars, canceller>>

\* EventFrameStartedLoading -> NotifyLoadStart -> Add(1)
FrameStarted(t) ==
  /\ loads[t] > 0
  /\ loads' = [loads EXCEPT ![t] = @ - 1]
  /\ loading' = [loading EXCEPT ![t] = @ + 1]
  /\ CallAdd(t, 1)

\* EventFrameStoppedLoading -> NotifyLoadFinished -> Done -> Add(-1)
FrameStopped(t) ==
  /\ loading[t] > 0
  /\ loading' = [loading EXCEPT ![t] = @ - 1]
  /\ UNCHANGED loads
  /\ CallAdd(t, -1)

CASFromAny(t) ==
  /\ adder[t] = "cas"
  /\ state' = 2
  /\ adder' = [adder EXCEPT ![t] = IF state >= 1 THEN "close" ELSE "idle"]
  /\ UNCHANGED <<counter, doneClosed, cancelClosed, expired, loading, loads, waitVars,
                 canceller, sawZero>>

\* atomic.CompareAndSwapInt32(&wg.state, 1, 2)
CASDone(t) ==
  /\ adder[t] = "cas"
  /\ state' = IF state = 1 THEN 2 ELSE state
  /\ adder' = [adder EXCEPT ![t] = IF state = 1 THEN "close" ELSE "idle"]
  /\ UNCHANGED <<counter, doneClosed, cancelClosed, expired, loading, loads, waitVars,
                 canceller, sawZero>>

\* close(wg.done): panics on a closed channel.
CloseDone(t) ==
  /\ adder[t] = "close"
  /\ doneClosed' = TRUE
  /\ adder' = [adder EXCEPT ![t] = IF doneClosed THEN "panic" ELSE "idle"]
  /\ UNCHANGED <<counter, state, cancelClosed, expired, loading, loads, waitVars,
                 canceller, sawZero>>

-----------------------------------------------------------------------------
(* Wait, called once by Fetch.                                             *)

WaitUnmarked ==
  /\ waiter = "idle"
  /\ waiter' = "check"
  /\ sawZero' = (counter = 0)
  /\ UNCHANGED <<counter, state, doneClosed, cancelClosed, expired, targetVars, waitResult,
                 canceller>>

\* atomic.CompareAndSwapInt32(&wg.state, 0, 1)
WaitCAS ==
  /\ waiter = "idle"
  /\ state' = IF state = 0 THEN 1 ELSE state
  /\ waiter' = "check"
  /\ sawZero' = (counter = 0)
  /\ UNCHANGED <<counter, doneClosed, cancelClosed, expired, targetVars, waitResult, canceller>>

WaitReturns(r) ==
  /\ waiter' = "returned" /\ waitResult' = r
  /\ UNCHANGED <<counter, state, doneClosed, cancelClosed, expired, targetVars, canceller,
                 sawZero>>

\* atomic.LoadInt32(&wg.counter) == 0
WaitSeesZero == waiter = "check" /\ counter = 0 /\ WaitReturns("nil")

WaitParks ==
  /\ waiter = "check" /\ counter # 0
  /\ waiter' = "select"
  /\ UNCHANGED <<counter, state, doneClosed, cancelClosed, expired, targetVars, waitResult,
                 canceller, sawZero>>

\* The select chooses any of the channels that are ready.
WaitSelects ==
  /\ waiter = "select"
  /\ \/ expired      /\ WaitReturns("exceeded")
     \/ doneClosed   /\ WaitReturns("nil")
     \/ cancelClosed /\ WaitReturns("cancelled")

-----------------------------------------------------------------------------
\* close(wg.cancel), which panics the second time.
Cancel(c) ==
  /\ canceller[c] = "idle"
  /\ cancelClosed' = TRUE
  /\ canceller' = [canceller EXCEPT ![c] = IF cancelClosed THEN "panic" ELSE "returned"]
  /\ UNCHANGED <<counter, state, doneClosed, expired, targetVars, waitVars, sawZero>>

\* The deadline of loadCtx passes, or a parent context is cancelled.
Expire ==
  /\ ~expired /\ expired' = TRUE
  /\ UNCHANGED <<counter, state, doneClosed, cancelClosed, targetVars, waitVars, canceller,
                 sawZero>>

InAdd(t)  == CASDone(t) \/ CloseDone(t)
InWait    == WaitSeesZero \/ WaitParks \/ WaitSelects

\* Fetch has returned from Wait and the browser is silent.
Quiet == waiter = "returned" /\ UNCHANGED vars

Next ==
  \/ \E t \in Targets : FrameStarted(t) \/ FrameStopped(t) \/ CASDone(t) \/ CloseDone(t)
  \/ WaitCAS \/ WaitSeesZero \/ WaitParks \/ WaitSelects
  \/ \E c \in Cancellers : Cancel(c)
  \/ Expire
  \/ Quiet

\* Goroutines run, and a frame that loads stops at some time.  Nothing is assumed of the
\* deadline: the wait has to end without it.
Fairness ==
  /\ \A t \in Targets : WF_vars(InAdd(t)) /\ WF_vars(FrameStopped(t))
  /\ WF_vars(InWait)

Spec     == Init /\ [][Next]_vars
FairSpec == Spec /\ Fairness

-----------------------------------------------------------------------------
(* Properties.                                                             *)

\* A waiter that is parked while the count is zero is about to be woken: the Add that
\* brought the count to zero has still to swap the state, or to close the channel.
NoLostWakeup ==
  waiter = "select" /\ counter = 0
    => doneClosed \/ \E t \in Targets : adder[t] \in {"cas", "close"}

\* However the Adds interleave, done is closed at most once: no listener goroutine (which
\* nothing recovers) panics in close(wg.done).
DoneClosedOnce ==
  /\ \A t \in Targets : adder[t] # "panic"
  /\ \A t, u \in Targets : adder[t] = "close" /\ adder[u] = "close" => t = u

\* Wait returns nil only if no frame was loading at some moment after it was called.
WaitsForFrames == waitResult = "nil" => sawZero

\* When the frames have stopped loading Wait returns, without the help of the deadline.
WaitEnds == waiter = "check" ~> waiter = "returned"
=============================================================================
