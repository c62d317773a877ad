-------------------------- MODULE WaitGroupProofs --------------------------
(***************************************************************************)
(* Proofs about WaitGroup, for every number of targets, loads and          *)
(* cancellers: no wakeup is lost and done is closed at most once.          *)
(***************************************************************************)
EXTENDS WaitGroup, TLAPS

\* Somebody waits, or has waited, as soon as Wait has run its first instruction.
WaitMarked == waiter # "idle" => state # 0

\* Whoever moved the state to 2 closes done, alone, or has closed it.
OneCloser ==
  /\ \A t \in Targets : adder[t] # "panic"
  /\ \A t \in Targets : adder[t] = "close" => state = 2 /\ ~doneClosed
  /\ \A t, u \in Targets : adder[t] = "close" /\ adder[u] = "close" => t = u

CloserPending ==
  /\ doneClosed => state = 2
  /\ state = 2 => doneClosed \/ \E t \in Targets : adder[t] = "close"

\* While the state is 1, the Add that brought the count to zero has its swap before it.
SwapPending ==
  waiter = "select" /\ state = 1 /\ counter = 0 => \E t \in Targets : adder[t] = "cas"

IInv == TypeOK /\ WaitMarked /\ OneCloser /\ CloserPending /\ SwapPending

\* The initial state (a new WaitGroup, syncx/waitgroup.go:32-39) satisfies the invariant.
LEMMA InitIInv == Init => IInv
  <1> SUFFICES ASSUME Init PROVE IInv
    OBVIOUS
  <1> USE DEF Init
  <1>1. TypeOK
    <2>1. loading \in [Targets -> Nat] /\ loads \in [Targets -> Nat]
      BY LoadsAssumption
    <2>2. /\ doneClosed \in BOOLEAN /\ cancelClosed \in BOOLEAN
          /\ expired \in BOOLEAN /\ sawZero \in BOOLEAN
      BY Zenon
    <2>3. counter \in Int /\ state \in 0..2
      OBVIOUS
    <2>4. /\ adder \in [Targets -> {"idle", "cas", "close", "panic"}]
          /\ canceller \in [Cancellers -> {"idle", "returned", "panic"}]
      OBVIOUS
    <2> QED BY <2>1, <2>2, <2>3, <2>4 DEF TypeOK
  <1>2. WaitMarked /\ OneCloser /\ CloserPending /\ SwapPending
    BY DEF WaitMarked, OneCloser, CloserPending, SwapPending
  <1> QED BY <1>1, <1>2 DEF IInv

\* An Add of 1 or -1 keeps the invariant: when it reaches zero it stays before its swap.
LEMMA CallAddIInv ==
  ASSUME IInv, NEW t \in Targets, NEW d \in {1, -1}, CallAdd(t, d),
         loading' \in [Targets -> Nat], loads' \in [Targets -> Nat]
  PROVE  IInv'
  <1> USE DEF IInv, CallAdd, waitVars
  <1>1. TypeOK'
    <2>1. sawZero' \in BOOLEAN
      BY Zenon
    <2>2. /\ counter' \in Int
          /\ adder' \in [Targets -> {"idle", "cas", "close", "panic"}]
      BY DEF TypeOK
    <2> QED BY <2>1, <2>2 DEF TypeOK
  <1>2. WaitMarked'
    BY DEF WaitMarked
  <1>3. OneCloser'
    BY DEF OneCloser, TypeOK
  <1>4. CloserPending'
    BY DEF CloserPending, TypeOK
  <1>5. SwapPending'
    BY DEF SwapPending, TypeOK
  <1> QED BY <1>1, <1>2, <1>3, <1>4, <1>5

\* Every step of the listeners, of Wait, of Cancel and of the clock keeps the invariant.
LEMMA NextIInv == IInv /\ [Next]_vars => IInv'
  <1> SUFFICES ASSUME IInv, [Next]_vars PROVE IInv'
    OBVIOUS
  <1>1. ASSUME NEW t \in Targets, FrameStarted(t) PROVE IInv'
    <2>1. loading' \in [Targets -> Nat] /\ loads' \in [Targets -> Nat]
      BY <1>1 DEF FrameStarted, IInv, TypeOK
    <2>2. CallAdd(t, 1)
      BY <1>1 DEF FrameStarted
    <2> QED BY <2>1, <2>2, CallAddIInv
  <1>2. ASSUME NEW t \in Targets, FrameStopped(t) PROVE IInv'
    <2>1. loading' \in [Targets -> Nat] /\ loads' \in [Targets -> Nat]
      BY <1>2 DEF FrameStopped, IInv, TypeOK
    <2>2. CallAdd(t, -1)
      BY <1>2 DEF FrameStopped
    <2> QED BY <2>1, <2>2, CallAddIInv
  <1>3. ASSUME NEW t \in Targets, CASDone(t) PROVE IInv'
    <2> USE <1>3 DEF CASDone, waitVars, IInv
    <2>1. TypeOK'
      BY DEF TypeOK
    <2>2. WaitMarked'
      BY DEF WaitMarked
    <2>3. OneCloser'
      BY DEF OneCloser, CloserPending, TypeOK
    <2>4. CloserPending'
      <3>1. CASE state = 1
        BY <3>1 DEF CloserPending, TypeOK
      <3>2. CASE state # 1
        BY <3>2 DEF CloserPending, TypeOK
      <3> QED BY <3>1, <3>2
    <2>5. SwapPending'
      BY DEF SwapPending, TypeOK
    <2> QED BY <2>1, <2>2, <2>3, <2>4, <2>5
  <1>4. ASSUME NEW t \in Targets, CloseDone(t) PROVE IInv'
    <2> USE <1>4 DEF CloseDone, waitVars, IInv
    <2>1. TypeOK'
      BY DEF TypeOK
    <2>2. WaitMarked'
      BY DEF WaitMarked
    <2>3. OneCloser'
      BY DEF OneCloser, TypeOK
    <2>4. CloserPending'
      BY DEF CloserPending, OneCloser, TypeOK
    <2>5. SwapPending'
      BY DEF SwapPending, OneCloser, TypeOK
    <2> QED BY <2>1, <2>2, <2>3, <2>4, <2>5
  <1>5. CASE WaitCAS
    <2> USE <1>5 DEF WaitCAS, targetVars, IInv
    <2>1. TypeOK'
      BY DEF TypeOK
    <2>2. WaitMarked'
      BY DEF WaitMarked, TypeOK
    <2>3. OneCloser'
      BY DEF OneCloser, TypeOK
    <2>4. CloserPending'
      BY DEF CloserPending, TypeOK
    <2>5. SwapPending'
      BY DEF SwapPending, TypeOK
    <2> QED BY <2>1, <2>2, <2>3, <2>4, <2>5
  \* The other steps of Wait change nothing but the waiter, which parks on a count # 0.
  <1>6. CASE WaitSeesZero \/ WaitParks \/ WaitSelects
    <2> USE <1>6 DEF WaitSeesZero, WaitParks, WaitSelects, WaitReturns, targetVars, IInv
    <2>1. TypeOK'
      BY DEF TypeOK
    <2>2. WaitMarked'
      BY DEF WaitMarked
    <2>3. OneCloser'
      BY DEF OneCloser
    <2>4. CloserPending'
      BY DEF CloserPending
    <2>5. SwapPending'
      BY DEF SwapPending
    <2> QED BY <2>1, <2>2, <2>3, <2>4, <2>5
  <1>7. ASSUME NEW c \in Cancellers, Cancel(c) PROVE IInv'
    BY <1>7 DEF Cancel, targetVars, waitVars, IInv, TypeOK, WaitMarked, OneCloser,
                CloserPending, SwapPending
  <1>8. CASE Expire
    BY <1>8 DEF Expire, targetVars, waitVars, IInv, TypeOK, WaitMarked, OneCloser,
                CloserPending, SwapPending
  <1>9. CASE UNCHANGED vars
    BY <1>9 DEF vars, targetVars, waitVars, IInv, TypeOK, WaitMarked, OneCloser,
                CloserPending, SwapPending
  <1> QED
    BY <1>1, <1>2, <1>3, <1>4, <1>5, <1>6, <1>7, <1>8, <1>9 DEF Next, Quiet

\* The inductive invariant holds in every behaviour.
THEOREM SpecIInv == Spec => []IInv
  BY InitIInv, NextIInv, PTL DEF Spec

\* Types of the atomic fields and of the goroutines' positions in Add, Wait and Cancel
\* (syncx/waitgroup.go:24-69).
THEOREM TypeCorrect == Spec => []TypeOK
  <1>1. IInv => TypeOK
    BY DEF IInv
  <1> QED BY <1>1, SpecIInv, PTL

\* Wait never sleeps past a count of zero (waitgroup.go:41-65): for any number of targets
\* that Add while Wait looks at the count, one that is about to wake it is left.
THEOREM NeverLosesWakeup == Spec => []NoLostWakeup
  <1>1. IInv => NoLostWakeup
    <2> SUFFICES ASSUME IInv, waiter = "select", counter = 0
                 PROVE  doneClosed \/ \E t \in Targets : adder[t] \in {"cas", "close"}
      BY DEF NoLostWakeup
    <2>1. state \in {1, 2}
      BY DEF IInv, TypeOK, WaitMarked
    <2>2. CASE state = 1
      BY <2>2 DEF IInv, SwapPending
    <2>3. CASE state = 2
      BY <2>3 DEF IInv, CloserPending
    <2> QED BY <2>1, <2>2, <2>3
  <1> QED BY <1>1, SpecIInv, PTL

\* close(wg.done) (waitgroup.go:43-45) runs at most once: the swap 1 -> 2 has one winner.
THEOREM ClosesDoneOnce == Spec => []DoneClosedOnce
  <1>1. IInv => DoneClosedOnce
    BY DEF IInv, OneCloser, DoneClosedOnce
  <1> QED BY <1>1, SpecIInv, PTL
=============================================================================
