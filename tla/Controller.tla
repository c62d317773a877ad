----------------------------- MODULE Controller -----------------------------
(***************************************************************************)
(* The main loop of the browser controller (controller/browsercontroller.go) *)
(* together with the registry of browser sessions it draws from            *)
(* (session/registry.go).                                                  *)
(*                                                                         *)
(* Processes: the goroutine in Run, one goroutine per page being fetched,  *)
(* the goroutine that serves the API, and the goroutines that may call     *)
(* Shutdown (signal handler and metrics server in main.go).  A mutex-      *)
(* protected section is one action; so is one channel operation.           *)
(***************************************************************************)
EXTENDS Integers, Sequences, FiniteSets

CONSTANTS
  MaxSessions,  \* option maxSessions (flag proxy-count)
  Pages,        \* page harvest specs the frontier has to hand out
  Stoppers,     \* goroutines that may call Shutdown
  NoSession     \* "no session": a nil *Session

Ids == 1..(MaxSessions - 1)   \* slot 0 is kept for direct sessions

ASSUME MaxSessionsAssumption == MaxSessions \in Nat \ {0}
ASSUME NoSessionAssumption   == NoSession \notin Ids

VARIABLES
  loop,        \* where the goroutine of Run is
  held,        \* the session (id) Run has obtained and not yet passed on
  pool,        \* Registry.pool: buffered channel of ids, capacity MaxSessions - 1
  registered,  \* the ids i with Registry.sessions[i] # nil
  wg,          \* counter of Registry.wg
  endpointOk,  \* the configured browser address parses (session.New succeeds)
  done,        \* BrowserController.done: buffered channel, capacity 1
  backoff,     \* number of messages in the channel backoff, capacity 1
  cancelled,   \* ctx of Run has been cancelled
  api,         \* where the goroutine that runs apiServer.Start is
  grpcUp,      \* ApiServer.grpcServer # nil
  stopper,     \* where each caller of Shutdown is
  task,        \* where the goroutine of each page is
  sess,        \* the session each of them captured
  outcome,     \* what Fetch returned for the page, then what became of its report
  gauge,       \* metrics.ActiveBrowserSessions
  timedOut,    \* CloseWait gave up waiting
  result,      \* what Run returns
  late         \* pages handed out while a stop message lay in done

loopVars == <<loop, held, backoff, result, timedOut>>
regVars  == <<pool, registered, wg, endpointOk>>
stopVars == <<done, stopper, cancelled, api, grpcUp>>
taskVars == <<task, sess, outcome>>
vars     == <<loopVars, regVars, stopVars, taskVars, gauge, late>>

LoopStates == {"select", "acquire", "register", "getPage",
               "closing", "stopping", "exited", "crashed"}
TaskStates == {"waiting", "spawned", "fetching", "reporting", "dec", "release", "finished"}
ApiStates  == {"starting", "serving", "failed", "errSent", "ended"}
Outcomes   == {"none", "rendered", "fetchError", "delivered", "undelivered"}

TypeOK ==
  /\ loop \in LoopStates
  /\ held \in Ids \cup {NoSession}
  /\ pool \in Seq(Ids)
  /\ registered \in SUBSET Ids
  /\ wg \in Int
  /\ endpointOk \in BOOLEAN
  /\ done \in Seq({"nil", "err"}) /\ Len(done) <= 1
  /\ backoff \in 0..1
  /\ cancelled \in BOOLEAN
  /\ api \in ApiStates
  /\ grpcUp \in BOOLEAN
  /\ stopper \in [Stoppers -> {"idle", "sending", "sent"}]
  /\ task \in [Pages -> TaskStates]
  /\ sess \in [Pages -> Ids \cup {NoSession}]
  /\ outcome \in [Pages -> Outcomes]
  /\ gauge \in Int
  /\ timedOut \in BOOLEAN
  /\ result \in {"none", "nil", "err"}
  /\ late \in Nat

\* The goroutines are gone once main has returned (or the process crashed).
Running == loop \notin {"exited", "crashed"}
InRun   == loop \in {"select", "acquire", "register", "getPage"}

FillPool == [i \in Ids |-> i]     \* NewRegistry: for i := 1; i < maxSessions

Init ==
  /\ loop = "select" /\ held = NoSession /\ backoff = 0
  /\ result = "none" /\ timedOut = FALSE
  /\ pool = FillPool /\ registered = {} /\ wg = 0
  /\ endpointOk \in BOOLEAN
  /\ done = <<>> /\ cancelled = FALSE /\ api = "starting" /\ grpcUp = FALSE
  /\ stopper = [s \in Stoppers |-> "idle"]
  /\ task = [p \in Pages |-> "waiting"]
  /\ sess = [p \in Pages |-> NoSession]
  /\ outcome = [p \in Pages |-> "none"]
  /\ gauge = 0 /\ late = 0

-----------------------------------------------------------------------------
(* Registry.                                                               *)

\* The channel is made one too small.
HasRoomButOne(ch, capacity) == Len(ch) < capacity - 1

\* A buffered channel: the send that finds it full blocks.
HasRoom(ch, capacity) == Len(ch) < capacity

ReleaseKeepsSlot(i) ==
  /\ HasRoom(pool, MaxSessions - 1)
  /\ registered' = registered
  /\ wg' = wg - 1
  /\ pool' = Append(pool, i)
ReleaseTwice(i) ==
  /\ registered' = registered \ {i}
  /\ wg' = wg - 1
  /\ pool' = pool \o <<i, i>>

\* Release: the slot is emptied, wg.Done, then the id goes back to the pool.
Release(i) ==
  /\ HasRoom(pool, MaxSessions - 1)
  /\ registered' = registered \ {i}
  /\ wg' = wg - 1
  /\ pool' = Append(pool, i)

\* The second half of GetNextAvailable: wg.Add(1), sessions[i] = sess.
Register(i) ==
  /\ registered' = registered \cup {i}
  /\ wg' = wg + 1

-----------------------------------------------------------------------------
(* The goroutine of Run.                                                   *)

Return(r) == loop' = "closing" /\ result' = r

\* case err := <-bc.done: return err
SelectDone ==
  /\ loop = "select" /\ done # <<>>
  /\ Return(Head(done))
  /\ done' = Tail(done)
  /\ UNCHANGED <<held, backoff, timedOut, regVars, stopper, cancelled, api, grpcUp,
                 taskVars, gauge, late>>

\* case <-backoff: sleep ten seconds and look again
SelectBackoff ==
  /\ loop = "select" /\ backoff = 1
  /\ backoff' = 0
  /\ UNCHANGED <<loop, held, result, timedOut, regVars, stopVars, taskVars, gauge, late>>

DefaultIgnoresDone == backoff = 0

\* Go takes the default branch only if no channel operation can proceed.
DefaultReady == done = <<>> /\ backoff = 0

SelectDefault ==
  /\ loop = "select" /\ DefaultReady
  /\ loop' = "acquire"
  /\ UNCHANGED <<held, backoff, result, timedOut, regVars, stopVars, taskVars, gauge, late>>

\* GetNextAvailable: case <-ctx.Done(), answered with `continue`.
AcquireCancelled ==
  /\ loop = "acquire" /\ cancelled
  /\ loop' = "select"
  /\ UNCHANGED <<held, backoff, result, timedOut, regVars, stopVars, taskVars, gauge, late>>

\* GetNextAvailable: case i = <-sr.pool
Acquire ==
  /\ loop = "acquire" /\ pool # <<>>
  /\ held' = Head(pool) /\ pool' = Tail(pool)
  /\ loop' = "register"
  /\ UNCHANGED <<backoff, result, timedOut, registered, wg, endpointOk, stopVars, taskVars,
                 gauge, late>>

\* GetNextAvailable under the mutex: New(i) and the registration.
RegisterHeld ==
  /\ loop = "register" /\ endpointOk
  /\ Register(held)
  /\ loop' = "getPage"
  /\ UNCHANGED <<held, backoff, result, timedOut, pool, endpointOk, stopVars, taskVars,
                 gauge, late>>

\* New(i) fails: the id is in neither the pool nor a slot, and Run returns the error.
NewSessionFails ==
  /\ loop = "register" /\ ~endpointOk
  /\ held' = NoSession
  /\ Return("err")
  /\ UNCHANGED <<backoff, timedOut, regVars, stopVars, taskVars, gauge, late>>

SpawnKeepsHeld(p) ==
  /\ loop' = "select" /\ held' = held
  /\ task' = [task EXCEPT ![p] = "spawned"]
  /\ sess' = [sess EXCEPT ![p] = held]

\* The page and the session go to a new goroutine; Run looks at its channels again.
Spawn(p) ==
  /\ loop' = "select" /\ held' = NoSession
  /\ task' = [task EXCEPT ![p] = "spawned"]
  /\ sess' = [sess EXCEPT ![p] = held]

\* GetNextPage(ctx) answers with a page: not with a cancelled ctx.
GetPage(p) ==
  /\ loop = "getPage" /\ ~cancelled
  /\ task[p] = "waiting"
  /\ Spawn(p)
  /\ late' = IF done # <<>> THEN late + 1 ELSE late
  /\ UNCHANGED <<backoff, result, timedOut, regVars, stopVars, outcome, gauge>>

BackoffRoom == backoff < 1

NotFoundLeaksSession ==
  /\ loop = "getPage" /\ ~cancelled
  /\ BackoffRoom
  /\ held' = NoSession
  /\ backoff' = backoff + 1 /\ loop' = "select"
  /\ UNCHANGED <<result, timedOut, regVars, stopVars, taskVars, gauge, late>>

\* GetNextPage answers NotFound: release, backoff <- time.Now(), continue.
GetPageNotFound ==
  /\ loop = "getPage" /\ ~cancelled
  /\ BackoffRoom
  /\ Release(held)
  /\ held' = NoSession
  /\ backoff' = backoff + 1 /\ loop' = "select"
  /\ UNCHANGED <<result, timedOut, endpointOk, stopVars, taskVars, gauge, late>>

\* Any other error of GetNextPage ends Run, after the session is released.
GetPageFails ==
  /\ loop = "getPage"
  /\ Release(held)
  /\ held' = NoSession
  /\ Return("err")
  /\ UNCHANGED <<backoff, timedOut, endpointOk, stopVars, taskVars, gauge, late>>

CloseWaitHasty == TRUE

\* CloseWait sees wg.Wait return.
WaitOver == wg = 0

\* First deferred call: CloseWait ends by itself, then the gauges are set to 0.
CloseWaitDone ==
  /\ loop = "closing" /\ WaitOver
  /\ loop' = "stopping" /\ gauge' = 0
  /\ UNCHANGED <<held, backoff, result, timedOut, regVars, stopVars, taskVars, late>>

\* ... or it takes closeTimeout to be over first.
CloseWaitTimeout ==
  /\ loop = "closing"
  /\ loop' = "stopping" /\ gauge' = 0 /\ timedOut' = TRUE
  /\ UNCHANGED <<held, backoff, result, regVars, stopVars, taskVars, late>>

\* Second deferred call: apiServer.Close uses grpcServer, which may never have been
\* assigned.  GracefulStop makes a running Serve return without an error.
CloseApi ==
  /\ loop = "stopping"
  /\ loop' = IF grpcUp THEN "exited" ELSE "crashed"
  /\ api' = IF api = "serving" THEN "ended" ELSE api
  /\ UNCHANGED <<held, backoff, result, timedOut, regVars, done, stopper, cancelled, grpcUp,
                 taskVars, gauge, late>>

-----------------------------------------------------------------------------
(* The goroutine of one page.                                              *)

MoveTask(p, from, to) == Running /\ task[p] = from /\ task' = [task EXCEPT ![p] = to]

\* metrics.ActiveBrowserSessions.Inc() and the call of Fetch
StartFetch(p) ==
  /\ MoveTask(p, "spawned", "fetching")
  /\ gauge' = gauge + 1
  /\ UNCHANGED <<loopVars, regVars, stopVars, sess, outcome, late>>

EndFetchUnreported(p) ==
  /\ MoveTask(p, "fetching", "dec")
  /\ \E o \in {"rendered", "fetchError"} : outcome' = [outcome EXCEPT ![p] = o]
  /\ UNCHANGED <<loopVars, regVars, stopVars, sess, gauge, late>>

\* Fetch returns a result or an error (its panics are recovered into errors).
EndFetch(p) ==
  /\ MoveTask(p, "fetching", "reporting")
  /\ \E o \in {"rendered", "fetchError"} : outcome' = [outcome EXCEPT ![p] = o]
  /\ UNCHANGED <<loopVars, regVars, stopVars, sess, gauge, late>>

\* PageCompleted returns; its error is only logged.
ReportPage(p) ==
  /\ MoveTask(p, "reporting", "dec")
  /\ \E o \in {"delivered", "undelivered"} : outcome' = [outcome EXCEPT ![p] = o]
  /\ UNCHANGED <<loopVars, regVars, stopVars, sess, gauge, late>>

\* The deferred calls run last in, first out: Dec before Release.
DecGauge(p) ==
  /\ MoveTask(p, "dec", "release")
  /\ gauge' = gauge - 1
  /\ UNCHANGED <<loopVars, regVars, stopVars, sess, outcome, late>>

ReleaseTask(p) ==
  /\ MoveTask(p, "release", "finished")
  /\ Release(sess[p])
  /\ sess' = [sess EXCEPT ![p] = NoSession]
  /\ UNCHANGED <<loopVars, endpointOk, stopVars, outcome, gauge, late>>

-----------------------------------------------------------------------------
(* Shutdown and the API server.                                            *)

CallShutdown(s) ==
  /\ Running /\ stopper[s] = "idle"
  /\ stopper' = [stopper EXCEPT ![s] = "sending"]
  /\ UNCHANGED <<loopVars, regVars, done, cancelled, api, grpcUp, taskVars, gauge, late>>

\* bc.done <- nil blocks while another message is there.
SendShutdown(s) ==
  /\ Running /\ stopper[s] = "sending" /\ HasRoom(done, 1)
  /\ stopper' = [stopper EXCEPT ![s] = "sent"]
  /\ done' = Append(done, "nil")
  /\ UNCHANGED <<loopVars, regVars, cancelled, api, grpcUp, taskVars, gauge, late>>

\* Start: net.Listen fails, or a server is made and serves.
ApiListens ==
  /\ Running /\ api = "starting"
  /\ api' = "serving" /\ grpcUp' = TRUE
  /\ UNCHANGED <<loopVars, regVars, done, stopper, cancelled, taskVars, gauge, late>>

ApiFails ==
  /\ Running /\ api \in {"starting", "serving"}
  /\ api' = "failed"
  /\ UNCHANGED <<loopVars, regVars, done, stopper, cancelled, grpcUp, taskVars, gauge, late>>

ApiSendsNil ==
  /\ Running /\ api = "failed" /\ HasRoom(done, 1)
  /\ api' = "errSent" /\ done' = Append(done, "nil")
  /\ UNCHANGED <<loopVars, regVars, stopper, cancelled, grpcUp, taskVars, gauge, late>>

\* bc.done <- err ...
ApiSendsErr ==
  /\ Running /\ api = "failed" /\ HasRoom(done, 1)
  /\ api' = "errSent" /\ done' = Append(done, "err")
  /\ UNCHANGED <<loopVars, regVars, stopper, cancelled, grpcUp, taskVars, gauge, late>>

\* ... and then cancel()
ApiCancels ==
  /\ Running /\ api = "errSent"
  /\ api' = "ended" /\ cancelled' = TRUE
  /\ UNCHANGED <<loopVars, regVars, done, stopper, grpcUp, taskVars, gauge, late>>

-----------------------------------------------------------------------------
\* main has returned, or the process has crashed.
Ended == ~Running /\ UNCHANGED vars

LoopStep ==
  \/ SelectDone \/ SelectBackoff \/ SelectDefault
  \/ AcquireCancelled \/ Acquire \/ RegisterHeld \/ NewSessionFails
  \/ (\E p \in Pages : GetPage(p)) \/ GetPageNotFound \/ GetPageFails
  \/ CloseWaitDone \/ CloseWaitTimeout \/ CloseApi

TaskStep(p) ==
  StartFetch(p) \/ EndFetch(p) \/ ReportPage(p) \/ DecGauge(p) \/ ReleaseTask(p)

StopStep(s) == CallShutdown(s) \/ SendShutdown(s)
ApiStep     == ApiListens \/ ApiFails \/ ApiSendsErr \/ ApiCancels

Next ==
  \/ LoopStep
  \/ \E p \in Pages : TaskStep(p)
  \/ \E s \in Stoppers : StopStep(s)
  \/ ApiStep
  \/ Ended

\* Every goroutine that can run does.  Nothing forces a call of Shutdown, or makes the API
\* server fail.  That Fetch, PageCompleted and GetNextPage return is an assumption on them.
Fairness ==
  /\ WF_vars(LoopStep)
  /\ \A p \in Pages : WF_vars(TaskStep(p))
  /\ \A s \in Stoppers : WF_vars(SendShutdown(s))
  /\ WF_vars(ApiListens) /\ WF_vars(ApiSendsErr \/ ApiCancels)

Spec     == Init /\ [][Next]_vars
FairSpec == Spec /\ Fairness

-----------------------------------------------------------------------------
(* Properties.                                                             *)

Active     == {p \in Pages : task[p] \in {"fetching", "reporting", "dec"}}
Busy       == {p \in Pages : task[p] \notin {"waiting", "finished"}}
LentIds    == {sess[p] : p \in Busy}
InPool     == {pool[k] : k \in DOMAIN pool}
HeldByLoop == {held} \ {NoSession}

\* A session id is at any time in exactly one place: once in the pool, with Run, or with
\* the goroutine of one page (Fetch of two pages never drive the same browser and proxy).
SessionExclusive ==
  /\ \A j, k \in DOMAIN pool : pool[j] = pool[k] => j = k
  /\ \A p, q \in Busy : sess[p] = sess[q] => p = q
  /\ InPool \cap LentIds = {}
  /\ HeldByLoop \cap (InPool \cup LentIds) = {}

\* A session in use is found by Registry.Get, under the proxy's id, until its report has
\* been made; a slot never outlives its use.
RegisteredWhileInUse ==
  registered = LentIds \cup (IF loop = "getPage" THEN HeldByLoop ELSE {})

\* wg counts the occupied slots, so that CloseWait waits for exactly those.
WaitCountsSlots == wg = Cardinality(registered)

\* The gauge shows the active sessions until Run starts closing.
GaugeCountsActive == InRun \/ loop = "closing" => gauge = Cardinality(Active)

\* The four accounts of the sessions agree at every step of the goroutines' deferred calls:
\* the slots, the sessions in use, what CloseWait waits for and what the gauge shows.
AccountsAgree == RegisteredWhileInUse /\ WaitCountsSlots /\ GaugeCountsActive

\* Release sends to the pool with the mutex held: were the channel full, Get would block
\* with it and no API call could proceed.  The pool always has room for an id in use.
ReleaseNeverBlocks ==
  (loop = "getPage" \/ \E p \in Pages : task[p] = "release") => HasRoom(pool, MaxSessions - 1)

\* backoff <- time.Now() is sent by the goroutine that receives it: it must find room.
BackoffNeverBlocks == loop = "getPage" => BackoffRoom

\* No send that the code takes for granted can block.
SendsHaveRoom == ReleaseNeverBlocks /\ BackoffNeverBlocks

\* Once a stop message is in done at most one more page is fetched.
AtMostOneLatePage == late <= 1

\* If CloseWait returns by itself no page is left in the middle: every page taken from the
\* frontier has been reported (or its report has been tried and has failed).
CloseWaitClean ==
  loop \in {"stopping", "exited", "crashed"} /\ ~timedOut
    => /\ Busy = {}
       /\ \A p \in Pages : task[p] = "finished" => outcome[p] \in {"delivered", "undelivered"}

\* ctx is cancelled only after the error is in done, so the loop that goes round on a
\* cancelled ctx finds it there and does not spin.
CancelledLoopStops == cancelled /\ InRun => done # <<>>

\* Run returns nil only on a call of Shutdown: an API failure is never turned into a
\* normal exit, unless Shutdown came first.
NilOnlyOnShutdown == result = "nil" => \E s \in Stoppers : stopper[s] = "sent"

\* A Run whose context was cancelled finds its stop message, and it returns nil only on a call
\* of Shutdown.  (Errors of NewSession and GetNextPage end it as well.)
StopsForAReason == CancelledLoopStops /\ NilOnlyOnShutdown

\* After a call of Shutdown Run returns, whatever its goroutine waits for at that moment.
ShutdownTerminates == \A s \in Stoppers : stopper[s] = "sending" ~> ~Running

\* A page taken from the frontier is reported, or the program ends first.
EveryPageReported ==
  \A p \in Pages : task[p] = "spawned" ~> (task[p] = "finished" \/ ~Running)

\* What the registry and the loop promise together: the sessions are a pool, and the page
\* a session is lent for is reported before the session can be lent again.
Progress(p) ==
  CASE task[p] = "waiting"  -> "waiting"
    [] task[p] = "finished" -> "finished"
    [] task[p] \in {"dec", "release"} /\ outcome[p] \in {"delivered", "undelivered"} -> "reported"
    [] OTHER -> "running"

SP == INSTANCE SessionPool WITH
        free     <- InPool,
        reserved <- IF loop \in {"register", "getPage"} THEN HeldByLoop ELSE {},
        progress <- [p \in Pages |-> Progress(p)],
        lentTo   <- sess

ImplementsSessionPool == SP!Spec
=============================================================================
