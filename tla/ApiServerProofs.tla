--------------------------- MODULE ApiServerProofs ---------------------------
(***************************************************************************)
(* The safety properties of a session and the streams that are about it,   *)
(* for any number of requests, streams and messages.                       *)
(***************************************************************************)
EXTENDS ApiServer, FiniteSetTheorems, WellFoundedInduction, TLAPS

Positions == Handling \cup {"recv", "stop", "cancelFrames", "cancelLoad", "complete", "ended",
                            "panicked"}
Completing == {"stop", "cancelFrames", "cancelLoad", "complete"}
Beyond     == {"added", "continued", "answered"}
Over       == {"cleanup", "returned", "released"}

\* The types the properties depend on
Types ==
  /\ fetch \in FetchStates /\ result \in Results
  /\ registry \in Seq(Requests)
  /\ crawlLog \in [Requests -> Logs \cup {NoLog}]
  /\ browser \in [Requests -> {"idle", "paused"} \cup Beyond]
  /\ pc \in [Streams -> Positions]
  /\ req \in [Streams -> Requests \cup {NoRequest}]
  /\ kind \in [Streams -> Kinds] /\ asked \in [Streams -> Requests \cup {NoRequest}]
  /\ news \in [Streams -> 0..MaxNews] /\ open \subseteq Streams

\* The browser goes on with a request only when it is registered, and asks for others only when
\* it has the page; the proxy asks only about those the browser goes on with.
Order ==
  /\ registry # <<>> => registry[1] = Nav /\ browser[Nav] \in Beyond
  /\ \A r \in Requests : browser[r] \in Beyond => r \in Registered
  /\ \A r \in Requests \ {Nav} : browser[r] # "idle" => browser[Nav] = "answered"
  /\ \A s \in Streams : kind[s] = "id" /\ pc[s] \in Handling => asked[s] \in Registered

\* A crawl log belongs to a registered request; a message is answered once.
Delivery ==
  /\ \A s \in Streams : req[s] # NoRequest => req[s] \in Registered
  /\ \A r \in Requests : crawlLog[r] # NoLog => r \in Registered
  /\ \A s \in open : pc[s] \notin Completing
  /\ \A s \in Streams : s \in open \/ pc[s] \in Completing => news[s] # 0
  /\ \A l \in acked : /\ l \in Logs /\ l \in Streams \X Nat /\ l[2] <= news[l[1]]
                      /\ l[1] \in open => l[2] < news[l[1]]

\* When the logs are collected no message is answered any more, unless the browser is still there.
Harvest ==
  /\ pageLog => fetch \in {"outlinks"} \cup Over
  /\ pageLog \/ fetch \in {"walk", "pageLog", "outlinks"} => ctx # "live" \/ closeErr
  /\ AckedLogsHarvested

\* A fetch that is aborted has the crawl log of its page.
Abort ==
  /\ result # "none" => fetch \in Over
  /\ aborted => registry # <<>> /\ crawlLog[registry[1]] # NoLog
  /\ AbortNotTimeout

IInv == Types /\ Order /\ Delivery /\ Harvest /\ Abort

-----------------------------------------------------------------------------
\* What the names of crawl logs are.
LEMMA LogOps ==
  /\ Nav \in Requests /\ NoRequest \notin Requests /\ NoLog \notin Logs /\ MaxNews \in Nat
  /\ \A s \in Streams, n \in 1..MaxNews : <<s, n>> \in Logs
  BY RequestsAssumption, StreamsAssumption DEF Requests

\* AddRequest appends to the registry.
LEMMA RegistryGrows ==
  ASSUME registry \in Seq(Requests), NEW r \in Requests, registry' = Append(registry, r)
  PROVE  /\ registry' \in Seq(Requests) /\ registry' # <<>>
         /\ registry'[1] = IF registry = <<>> THEN r ELSE registry[1]
         /\ Registered' = Registered \cup {r}
  <1>1. registry' \in Seq(Requests) /\ Len(registry') = Len(registry) + 1
    OBVIOUS
  <1>2. DOMAIN registry = 1..Len(registry) /\ DOMAIN registry' = 1..(Len(registry) + 1)
        /\ Len(registry) \in Nat
    BY <1>1
  <1>3. /\ \A k \in 1..Len(registry) : registry'[k] = registry[k]
        /\ registry'[Len(registry) + 1] = r
    OBVIOUS
  <1>4. Registered' = Registered \cup {r}
    <2>1. ASSUME NEW k \in DOMAIN registry' PROVE registry'[k] \in Registered \cup {r}
      BY <1>2, <1>3 DEF Registered
    <2>2. ASSUME NEW x \in Registered \cup {r} PROVE \E k \in DOMAIN registry' : x = registry'[k]
      BY <1>2, <1>3 DEF Registered
    <2> QED BY <2>1, <2>2 DEF Registered
  <1>5. registry' # <<>> /\ registry'[1] = IF registry = <<>> THEN r ELSE registry[1]
    BY <1>1, <1>2, <1>3
  <1> QED BY <1>1, <1>4, <1>5

\* The session before Fetch, and the streams before their first message.
LEMMA InitIInv == Init => IInv
  <1> SUFFICES ASSUME Init PROVE IInv
    OBVIOUS
  <1>1. Types
    BY LogOps DEF Init, SessionInit, Types, FetchStates, Results, Positions, Kinds
  <1>2. Order
    BY LogOps DEF Init, SessionInit, Order, Beyond, Handling
  <1>3. Delivery
    BY LogOps DEF Init, SessionInit, Delivery, Completing
  <1>4. ~pageLog /\ ~aborted
    BY Zenon DEF Init, SessionInit
  <1>5. Harvest
    BY <1>4 DEF Init, SessionInit, Harvest, AckedLogsHarvested, Harvested
  <1>6. Abort
    BY <1>4 DEF Init, SessionInit, Abort, AbortNotTimeout
  <1> QED BY <1>1, <1>2, <1>3, <1>5, <1>6 DEF IInv

-----------------------------------------------------------------------------
\* Fetch changes neither registry nor crawl logs: it collects those of the registered requests
\* once the browser context is cancelled, and reports a time-out only without a crawl log.
LEMMA FetchIInv ==
  ASSUME IInv, FetchStep \/ LoadDeadline \/ SessionLost, UNCHANGED streamVars PROVE IInv'
  <1> USE LogOps DEF IInv, streamVars
  <1>1. UNCHANGED <<registry, crawlLog, fromCache, gotNew, browser, warcLogs, aborted>>
    BY DEF FetchStep, FetchRuns, RegisterSession, Configure, OpenTab, InitTasks, Navigate, Settle,
       ExecuteScripts, FramesWait, TimerWait, Finalize, BrowserCall, Extract, CloseBrowser,
       WriteCrawlLogs, WritePageLog, MakeResult, Cleanup, ReleaseSession, NavigateGivesUp,
       FramesStop, LoadDeadline, SessionLost, Advance, requestVars
  <1>2. Registered' = Registered
    BY <1>1 DEF Registered
  <1>3. Order' /\ Delivery'
    BY <1>1, <1>2 DEF Order, Delivery
  <1>4. fetch' \in FetchStates /\ result' \in Results
    BY DEF Types, FetchStep, FetchRuns, RegisterSession, Configure, OpenTab, InitTasks, Navigate,
       Settle, ExecuteScripts, FramesWait, TimerWait, Finalize, BrowserCall, Extract, CloseBrowser,
       WriteCrawlLogs, WritePageLog, MakeResult, Cleanup, ReleaseSession, NavigateGivesUp,
       FramesStop, LoadDeadline, SessionLost, Advance, Goto, Leave, WaitCancelled, WaitExceeded,
       FetchStates, Results, fetchVars
  <1>5. Types'
    BY <1>1, <1>4 DEF Types
  <1>6. Harvest'
    <2>1. CASE WriteCrawlLogs
      <3>1. /\ ctx' = ctx /\ closeErr' = closeErr /\ pageLog' = pageLog
            /\ fetch = "walk" /\ fetch' = "pageLog"
            /\ crawlLogs' = {crawlLog[r] : r \in Registered} \cap warcLogs
        BY <2>1 DEF WriteCrawlLogs, Goto, ctxVars
      <3>2. \A l \in acked \cap warcLogs : l \in crawlLogs' \/ \A r \in Requests : crawlLog[r] # l
        <4> SUFFICES ASSUME NEW l \in acked \cap warcLogs, NEW r \in Requests, crawlLog[r] = l
                     PROVE  l \in crawlLogs'
          OBVIOUS
        <4>1. l # NoLog
          BY DEF Delivery
        <4> QED BY <3>1, <4>1 DEF Delivery
      <3> QED BY <1>1, <3>1, <3>2 DEF Harvest, AckedLogsHarvested, Harvested, Over
    <2>2. CASE ~WriteCrawlLogs
      <3>1. crawlLogs' = crawlLogs
        BY <2>2 DEF FetchStep, FetchRuns, RegisterSession, Configure, OpenTab, InitTasks, Navigate,
           Settle, ExecuteScripts, FramesWait, TimerWait, Finalize, BrowserCall, Extract,
           CloseBrowser, WritePageLog, MakeResult, Cleanup, ReleaseSession, NavigateGivesUp,
           FramesStop, LoadDeadline, SessionLost, Advance, fetchVars
      <3>2. Harvested' => Harvested
        BY <2>2 DEF FetchStep, FetchRuns, RegisterSession, Configure, OpenTab, InitTasks, Navigate,
           Settle, ExecuteScripts, FramesWait, TimerWait, Finalize, BrowserCall, Extract,
           CloseBrowser, WritePageLog, MakeResult, Cleanup, ReleaseSession, NavigateGivesUp,
           FramesStop, LoadDeadline, SessionLost, Advance, Goto, Leave, WaitCancelled,
           WaitExceeded, fetchVars, Harvested
      <3>3. pageLog' => fetch' \in {"outlinks"} \cup Over
        BY <2>2 DEF Harvest, Over, FetchStep, FetchRuns, RegisterSession, Configure, OpenTab,
           InitTasks, Navigate, Settle, ExecuteScripts, FramesWait, TimerWait, Finalize,
           BrowserCall, Extract, CloseBrowser, WritePageLog, MakeResult, Cleanup, ReleaseSession,
           NavigateGivesUp, FramesStop, LoadDeadline, SessionLost, Advance, Goto, Leave, fetchVars
      <3>4. pageLog' \/ fetch' \in {"walk", "pageLog", "outlinks"} => ctx' # "live" \/ closeErr'
        BY <2>2 DEF Harvest, Over, FetchStep, FetchRuns, RegisterSession, Configure, OpenTab,
           InitTasks, Navigate, Settle, ExecuteScripts, FramesWait, TimerWait, Finalize,
           BrowserCall, Extract, CloseBrowser, WritePageLog, MakeResult, Cleanup, ReleaseSession,
           NavigateGivesUp, FramesStop, LoadDeadline, SessionLost, Advance, Goto, Leave,
           CancelContext, fetchVars, ctxVars, WaitCancelled, WaitExceeded
      <3>5. closeErr => closeErr'
        BY <2>2, Zenon DEF FetchStep, FetchRuns, RegisterSession, Configure, OpenTab, InitTasks,
           Navigate, Settle, ExecuteScripts, FramesWait, TimerWait, Finalize, BrowserCall, Extract,
           CloseBrowser, WritePageLog, MakeResult, Cleanup, ReleaseSession, NavigateGivesUp,
           FramesStop, LoadDeadline, SessionLost, Advance, fetchVars
      <3> QED BY <1>1, <3>1, <3>2, <3>3, <3>4, <3>5 DEF Harvest, AckedLogsHarvested
    <2> QED BY <2>1, <2>2
  <1>7. Abort'
    <2>1. result' # "none" => fetch' \in Over
      BY DEF Abort, Over, FetchStep, FetchRuns, RegisterSession, Configure, OpenTab, InitTasks,
         Navigate, Settle, ExecuteScripts, FramesWait, TimerWait, Finalize, BrowserCall, Extract,
         CloseBrowser, WriteCrawlLogs, WritePageLog, MakeResult, Cleanup, ReleaseSession,
         NavigateGivesUp, FramesStop, LoadDeadline, SessionLost, Advance, Goto, Leave,
         WaitCancelled, WaitExceeded, fetchVars
    <2>2. loadCtx = "deadline" /\ fetch # "openTab" => loadCtx' = "deadline"
      BY DEF FetchStep, FetchRuns, RegisterSession, Configure, OpenTab, InitTasks, Navigate,
         Settle, ExecuteScripts, FramesWait, TimerWait, Finalize, BrowserCall, Extract,
         CloseBrowser, WriteCrawlLogs, WritePageLog, MakeResult, Cleanup, ReleaseSession,
         NavigateGivesUp, FramesStop, LoadDeadline, SessionLost, Advance, CancelContext,
         CancelLoadIn, ctxVars
    <2>3. CASE result = "exceeded"
      BY <1>1, <2>1, <2>2, <2>3 DEF Abort, AbortNotTimeout, Over
    <2>4. CASE result # "exceeded"
      <3>1. ASSUME aborted, result' = "exceeded" PROVE loadCtx' = "deadline"
        BY <2>2, <2>4, <3>1 DEF Abort, NoInitial, NoInitialLog, FetchStep, FetchRuns,
           RegisterSession, Configure, OpenTab, InitTasks, Navigate, Settle, ExecuteScripts,
           FramesWait, TimerWait, Finalize, BrowserCall, Extract, CloseBrowser, WriteCrawlLogs,
           WritePageLog, MakeResult, Cleanup, ReleaseSession, NavigateGivesUp, FramesStop,
           LoadDeadline, SessionLost, Advance, Goto, Leave, WaitCancelled, WaitExceeded, fetchVars
      <3> QED BY <1>1, <2>1, <3>1 DEF Abort, AbortNotTimeout
    <2> QED BY <2>3, <2>4
  <1> QED BY <1>3, <1>5, <1>6, <1>7

-----------------------------------------------------------------------------
\* A request is paused, registered and continued in this order, and the page before the others.
LEMMA BrowserIInv ==
  ASSUME IInv, NEW r \in Requests,
         \/ (PauseRequest(r) \/ AddRequest(r) \/ ContinueRequest(r)) /\ UNCHANGED streamVars
         \/ Answer(r)
  PROVE  IInv'
  <1> USE LogOps DEF IInv, streamVars, requestVars, fetchVars, ctxVars, BrowserStep
  <1>1. UNCHANGED <<fetch, result, crawlLogs, pageLog, closeErr, ctx, loadCtx, crawlLog, warcLogs,
                    aborted, pc, req, kind, asked, news, open, acked, lateAcks>>
    BY DEF PauseRequest, AddRequest, ContinueRequest, Answer
  <1>2. CASE AddRequest(r)
    <2>1. /\ registry' \in Seq(Requests) /\ registry' # <<>>
          /\ registry'[1] = IF registry = <<>> THEN r ELSE registry[1]
          /\ Registered' = Registered \cup {r}
      BY <1>2, RegistryGrows DEF AddRequest, Types
    <2>2. browser[r] = "paused" /\ browser' = [browser EXCEPT ![r] = "added"]
      BY <1>2 DEF AddRequest
    <2>3. Types'
      BY <1>1, <2>1, <2>2 DEF Types, Beyond
    <2>4. Order'
      <3>1. registry'[1] = Nav /\ browser'[Nav] \in Beyond
        <4>1. CASE r = Nav
          <5>1. registry = <<>>
            BY <2>2, <4>1 DEF Order, Beyond
          <5> QED BY <2>1, <2>2, <4>1, <5>1 DEF Types, Beyond
        <4>2. CASE r # Nav
          <5>1. browser[Nav] = "answered" /\ browser'[Nav] = "answered"
            BY <2>2, <4>2 DEF Order, Types
          <5>2. registry # <<>>
            BY <5>1 DEF Order, Beyond, Registered
          <5> QED BY <2>1, <5>1, <5>2 DEF Order, Beyond
        <4> QED BY <4>1, <4>2
      <3>2. \A q \in Requests : browser'[q] \in Beyond => q \in Registered'
        BY <2>1, <2>2 DEF Types, Order, Beyond
      <3>3. \A q \in Requests \ {Nav} : browser'[q] # "idle" => browser'[Nav] = "answered"
        BY <2>2 DEF Types, Order
      <3>4. \A s \in Streams : kind'[s] = "id" /\ pc'[s] \in Handling => asked'[s] \in Registered'
        BY <1>1, <2>1 DEF Order
      <3> QED BY <3>1, <3>2, <3>3, <3>4 DEF Order
    <2>5. Delivery' /\ Harvest'
      BY <1>1, <2>1 DEF Delivery, Harvest, AckedLogsHarvested, Harvested
    <2>6. Abort'
      BY <1>1, <2>1 DEF Abort, AbortNotTimeout
    <2> QED BY <2>3, <2>4, <2>5, <2>6
  <1>3. CASE PauseRequest(r) \/ ContinueRequest(r) \/ Answer(r)
    <2>1. registry' = registry /\ Registered' = Registered
      BY <1>3 DEF PauseRequest, ContinueRequest, Answer, Registered
    <2>2. Types'
      BY <1>1, <1>3, <2>1 DEF PauseRequest, ContinueRequest, Answer, Types, Beyond
    <2>3. Order'
      BY <1>1, <1>3, <2>1 DEF PauseRequest, ContinueRequest, Answer, Types, Order, Beyond
    <2>4. Delivery' /\ Harvest' /\ Abort'
      BY <1>1, <2>1
         DEF Delivery, Harvest, AckedLogsHarvested, Harvested, Abort, AbortNotTimeout
    <2> QED BY <2>2, <2>3, <2>4
  <1> QED BY <1>2, <1>3

-----------------------------------------------------------------------------
\* A New asks about a request the browser goes on with, and begins a message of its own.
LEMMA NewIInv ==
  ASSUME IInv, NEW s \in Streams, NEW k \in Kinds, NEW r \in Requests \cup {NoRequest},
         ReceiveNew(s, k, r)
  PROVE  IInv'
  <1> USE LogOps DEF IInv, ReceiveNew, To
  <1>1. /\ UNCHANGED <<fetch, result, crawlLogs, pageLog, closeErr, ctx, loadCtx, registry,
                       browser, crawlLog, warcLogs, aborted, req, acked, lateAcks>>
        /\ Registered' = Registered
    BY DEF sessionVars, fetchVars, ctxVars, requestVars, Registered
  <1>2. /\ s \notin open /\ news[s] < MaxNews /\ open' = open \cup {s}
        /\ news' = [news EXCEPT ![s] = @ + 1] /\ kind' = [kind EXCEPT ![s] = k]
        /\ asked' = [asked EXCEPT ![s] = r]
    BY DEF Sends
  <1>3. \E p \in {"recv", "panicked", "robots"} : pc' = [pc EXCEPT ![s] = p]
    OBVIOUS
  <1>4. k = "id" => r \in Requests /\ browser[r] = "continued"
    BY DEF Sends
  <1> HIDE DEF ReceiveNew
  <1>5. Types'
    BY <1>1, <1>2, <1>3 DEF Types, Positions, Handling
  <1>6. Order'
    BY <1>1, <1>2, <1>3, <1>4 DEF Order, Types, Handling, Beyond
  <1>7. Delivery'
    <2>1. /\ \A t \in open' : pc'[t] \notin Completing
          /\ \A t \in Streams : t \in open' \/ pc'[t] \in Completing => news'[t] # 0
      BY <1>2, <1>3 DEF Delivery, Types, Completing
    <2>2. ASSUME NEW l \in acked
          PROVE  /\ l \in Logs /\ l \in Streams \X Nat /\ l[2] <= news'[l[1]]
                 /\ l[1] \in open' => l[2] < news'[l[1]]
      <3>1. l \in Logs /\ l \in Streams \X Nat /\ l[2] <= news[l[1]]
            /\ (l[1] \in open => l[2] < news[l[1]]) /\ l[1] \in Streams /\ l[2] \in Nat
        BY DEF Delivery
      <3>2. CASE l[1] = s
        BY <1>2, <3>1, <3>2 DEF Types
      <3>3. CASE l[1] # s
        BY <1>2, <3>1, <3>3 DEF Types
      <3> QED BY <3>2, <3>3
    <2> QED BY <1>1, <2>1, <2>2 DEF Delivery
  <1>8. Harvest' /\ Abort'
    BY <1>1 DEF Harvest, AckedLogsHarvested, Harvested, Abort, AbortNotTimeout
  <1> QED BY <1>5, <1>6, <1>7, <1>8

\* A crawl log is set under a name of its own, for a registered request.
LEMMA CompletedIInv ==
  ASSUME IInv, NEW s \in Streams, NEW c \in BOOLEAN, NEW w \in BOOLEAN, ReceiveCompleted(s, c, w)
  PROVE  IInv'
  <1> USE LogOps DEF IInv
  <1>1. /\ UNCHANGED <<fetch, result, crawlLogs, pageLog, closeErr, ctx, loadCtx, registry,
                       browser, req, kind, asked, news, acked, lateAcks>>
        /\ Registered' = Registered /\ s \in open /\ open' = open \ {s}
    BY DEF ReceiveCompleted, fetchVars, ctxVars, Registered
  <1>2. \E p \in {"panicked", "recv", "stop", "complete"} : pc' = [pc EXCEPT ![s] = p]
    BY DEF ReceiveCompleted, CompletedWithoutRequest, CompletedWithRequest, To
  <1>3. Log(s) \in Logs /\ Log(s) \notin acked /\ Log(s) # NoLog
    <2>1. news[s] \in 1..MaxNews
      BY <1>1 DEF Types, Delivery
    <2>2. Log(s) = <<s, news[s]>> /\ Log(s)[1] = s /\ Log(s)[2] = news[s]
      BY DEF Log
    <2> QED BY <1>1, <2>1, <2>2 DEF Delivery
  <1>4. \/ UNCHANGED <<crawlLog, warcLogs, aborted>>
        \/ /\ req[s] # NoRequest /\ crawlLog' = [crawlLog EXCEPT ![req[s]] = Log(s)]
           /\ warcLogs' \subseteq warcLogs \cup {Log(s)}
           /\ aborted' => aborted \/ (IsInitial(s) /\ fetch \in Loading)
    BY DEF ReceiveCompleted, CompletedWithoutRequest, CompletedWithRequest
  <1>5. Types'
    BY <1>1, <1>2, <1>3, <1>4 DEF Types, Positions
  <1>6. Order'
    BY <1>1, <1>2 DEF Order, Types, Handling
  <1>7. Delivery'
    <2>1. \A r \in Requests : crawlLog'[r] # NoLog => r \in Registered
      BY <1>4 DEF Delivery, Types
    <2>2. /\ \A t \in open' : pc'[t] \notin Completing
          /\ \A t \in Streams : t \in open' \/ pc'[t] \in Completing => news'[t] # 0
      BY <1>1, <1>2 DEF Delivery, Types
    <2> QED BY <1>1, <2>1, <2>2 DEF Delivery
  <1>8. Harvest'
    BY <1>1, <1>3, <1>4 DEF Harvest, AckedLogsHarvested, Harvested, Types
  <1>9. Abort'
    <2>1. aborted' => registry # <<>> /\ crawlLog'[registry[1]] # NoLog
      <3>1. ASSUME req[s] # NoRequest, crawlLog' = [crawlLog EXCEPT ![req[s]] = Log(s)],
                   registry # <<>>,
                   registry[1] = req[s] \/ crawlLog[registry[1]] # NoLog
            PROVE  crawlLog'[registry[1]] # NoLog
        <4>1. registry[1] \in Requests /\ req[s] \in Requests
          BY <3>1 DEF Order, Types
        <4> QED BY <1>3, <3>1, <4>1 DEF Types
      <3> QED BY <1>4, <3>1 DEF Abort, IsInitial
    <2>2. aborted' /\ ~aborted => result # "exceeded"
      BY <1>4 DEF Abort, Loading, Over
    <2> QED BY <1>1, <2>1, <2>2 DEF Abort, AbortNotTimeout
  <1> QED BY <1>5, <1>6, <1>7, <1>8, <1>9

\* LookUp finds only what is registered.
LEMMA LookUpIInv == ASSUME IInv, NEW s \in Streams, LookUp(s) PROVE IInv'
  <1> USE LogOps DEF IInv
  <1>1. /\ UNCHANGED <<fetch, result, crawlLogs, pageLog, closeErr, ctx, loadCtx, registry,
                       browser, crawlLog, warcLogs, aborted, kind, asked, news, open, acked,
                       lateAcks>>
        /\ Registered' = Registered
    BY DEF LookUp, fetchVars, ctxVars, Registered
  <1>2. \E p \in {"panicked", "ended", "recv"} : pc' = [pc EXCEPT ![s] = p]
    BY DEF LookUp, To
  <1>3. req' = req \/ req' = [req EXCEPT ![s] = Found(s)]
    BY DEF LookUp
  <1>4. Found(s) # NoRequest => Found(s) \in Registered /\ Found(s) \in Requests
    BY DEF Found, Types
  <1>5. Types'
    BY <1>1, <1>2, <1>3, <1>4 DEF Types, Positions
  <1>6. Order' /\ Delivery'
    BY <1>1, <1>2, <1>3, <1>4 DEF Order, Delivery, Types, Handling, Completing
  <1>7. Harvest' /\ Abort'
    BY <1>1 DEF Harvest, AckedLogsHarvested, Harvested, Abort, AbortNotTimeout
  <1> QED BY <1>5, <1>6, <1>7

\* A message is answered as accepted only while the browser context lives.
LEMMA CompleteIInv == ASSUME IInv, NEW s \in Streams, Complete(s) PROVE IInv'
  <1> USE LogOps DEF IInv
  <1>1. /\ UNCHANGED <<fetch, result, crawlLogs, pageLog, closeErr, ctx, loadCtx, registry,
                       browser, crawlLog, warcLogs, aborted, req, kind, asked, news, open>>
        /\ Registered' = Registered /\ pc[s] = "complete"
    BY DEF Complete, fetchVars, ctxVars, Registered
  <1>2. \E p \in {"ended", "recv"} : pc' = [pc EXCEPT ![s] = p]
    BY DEF Complete, To
  <1>3. /\ acked' = acked \/ (ctx = "live" /\ acked' = acked \cup {Log(s)})
        /\ lateAcks \subseteq lateAcks'
        /\ acked' # acked /\ Harvested => Log(s) \in lateAcks'
    BY DEF Complete, NotifyOK
  <1>4. Types' /\ Order'
    BY <1>1, <1>2 DEF Types, Positions, Order, Handling
  <1>5. s \notin open
    BY <1>1 DEF Delivery, Completing
  <1>6. Delivery'
    <2>1. /\ \A t \in open' : pc'[t] \notin Completing
          /\ \A t \in Streams : t \in open' \/ pc'[t] \in Completing => news'[t] # 0
      BY <1>1, <1>2 DEF Delivery, Types, Completing
    <2>2. news[s] \in 1..MaxNews
      BY <1>1 DEF Delivery, Types, Completing
    <2>3. Log(s) \in Logs /\ Log(s) \in Streams \X Nat /\ Log(s)[1] = s /\ Log(s)[2] = news[s]
      BY <2>2 DEF Log
    <2>4. \A l \in acked' : /\ l \in Logs /\ l \in Streams \X Nat /\ l[2] <= news[l[1]]
                            /\ l[1] \in open => l[2] < news[l[1]]
      <3>1. ASSUME NEW l \in acked
            PROVE  /\ l \in Logs /\ l \in Streams \X Nat /\ l[2] <= news[l[1]]
                   /\ l[1] \in open => l[2] < news[l[1]]
        BY DEF Delivery
      <3>2. /\ Log(s)[2] <= news[Log(s)[1]]
            /\ Log(s)[1] \in open => Log(s)[2] < news[Log(s)[1]]
        BY <1>5, <2>2, <2>3
      <3> QED BY <1>3, <2>3, <3>1, <3>2
    <2> QED BY <1>1, <2>1, <2>4 DEF Delivery
  <1>7. Harvest' /\ Abort'
    BY <1>1, <1>3 DEF Harvest, AckedLogsHarvested, Harvested, Abort, AbortNotTimeout
  <1> QED BY <1>4, <1>6, <1>7

\* The other steps of a handler move it on, and no message of its stream is open in between.
LEMMA HandlerIInv ==
  ASSUME IInv, NEW s \in Streams,
         \/ CheckRobots(s) \/ ReplyWithoutId(s) \/ ReceiveNotify(s) \/ StopLoading(s)
         \/ CancelFrames(s) \/ CancelLoad(s) \/ ProxyCloses(s) \/ RecvCancelled(s)
         \/ RecvDeadline(s)
  PROVE  IInv'
  <1> USE LogOps DEF IInv
  <1>1. /\ UNCHANGED <<fetch, result, crawlLogs, pageLog, closeErr, ctx, registry, browser,
                       crawlLog, warcLogs, aborted, req, kind, asked, news, open, acked,
                       lateAcks>>
        /\ Registered' = Registered /\ (loadCtx = "deadline" => loadCtx' = "deadline")
    BY DEF CheckRobots, ReplyWithoutId, ReceiveNotify, StopLoading, CancelFrames, CancelLoad,
       ProxyCloses, RecvCancelled, RecvDeadline, EndStream, CancelLoadIn, sessionVars, fetchVars,
       ctxVars, requestVars, Registered
  <1>2. \E p \in Positions : /\ pc' = [pc EXCEPT ![s] = p]
                             /\ p \in Handling => pc[s] \in Handling
                             /\ p \in Completing => pc[s] \in Completing
    BY DEF CheckRobots, ReplyWithoutId, ReceiveNotify, StopLoading, CancelFrames, CancelLoad,
       ProxyCloses, RecvCancelled, RecvDeadline, EndStream, To, Positions, Handling, Completing
  <1>3. Types' /\ Order' /\ Delivery'
    BY <1>1, <1>2 DEF Types, Order, Delivery
  <1>4. Harvest' /\ Abort'
    BY <1>1 DEF Harvest, AckedLogsHarvested, Harvested, Abort, AbortNotTimeout
  <1> QED BY <1>3, <1>4

-----------------------------------------------------------------------------
\* Every step keeps the invariant.
LEMMA NextIInv == IInv /\ [Next]_vars => IInv'
  <1> SUFFICES ASSUME IInv, [Next]_vars PROVE IInv'
    OBVIOUS
  <1>1. CASE SessionStep /\ UNCHANGED streamVars
    BY <1>1, FetchIInv, BrowserIInv DEF SessionStep
  <1>2. ASSUME NEW s \in Streams,
               Receive(s) \/ Handle(s) \/ ProxyCloses(s) \/ RecvCancelled(s) \/ RecvDeadline(s)
        PROVE  IInv'
    BY <1>2, NewIInv, CompletedIInv, LookUpIInv, CompleteIInv, HandlerIInv DEF Receive, Handle
  <1>3. ASSUME NEW r \in Requests, Answer(r) PROVE IInv'
    BY <1>3, BrowserIInv
  <1>4. CASE UNCHANGED vars
    BY <1>4 DEF vars, sessionVars, fetchVars, ctxVars, requestVars, streamVars, IInv, Types, Order,
       Delivery, Harvest, AckedLogsHarvested, Harvested, Abort, AbortNotTimeout, Registered
  <1> QED BY <1>1, <1>2, <1>3, <1>4 DEF Next, Ended

\* The invariant of a session and its streams.
THEOREM SpecIInv == Spec => []IInv
  BY InitIInv, NextIInv, PTL DEF Spec

\* A proxy that asks about a request of the browser finds it, and the first request is the
\* navigation (eventlisteners.go 128-166, requests.go 48-50, server.go 204-287).
THEOREM RequestsAlwaysInOrder == Spec => []RequestsInOrder
  <1>1. IInv => RequestsInOrder
    BY DEF IInv, Order, RequestsInOrder, Handling
  <1> QED BY <1>1, SpecIInv, PTL

\* A crawl log that was accepted is written with the page (server.go 320-332, session.go
\* 365-407).
THEOREM AckedAreHarvested == Spec => []AckedLogsHarvested
  <1>1. IInv => AckedLogsHarvested
    BY DEF IInv, Harvest
  <1> QED BY <1>1, SpecIInv, PTL

\* A fetch that is aborted for a cached page is reported as timed out only if it was
\* (server.go 320-326, session.go 302-346).
THEOREM AbortsAreNoTimeouts == Spec => []AbortNotTimeout
  <1>1. IInv => AbortNotTimeout
    BY DEF IInv, Abort
  <1> QED BY <1>1, SpecIInv, PTL

-----------------------------------------------------------------------------
(* AbortFetch is called once.                                              *)

\* A stream with a request at hand has it from a New with its id, which comes once: the stream
\* that aborts the fetch is the only one about the page, and is not asked about it again.
Cancelling ==
  /\ framesCancelled \in BOOLEAN /\ sess \in [Streams -> {"nil", "session", "direct"}]
  /\ \A s \in Streams : kind[s] = "id" => asked[s] \in proxied
  /\ \A s, t \in Streams : kind[s] = "id" /\ kind[t] = "id" /\ asked[s] = asked[t] => s = t
  /\ \A s \in open :
       /\ pc[s] = "recv" /\ sess[s] = "session" /\ req[s] # NoRequest
       /\ kind[s] \in {"id", "unknown", "direct"}
       => kind[s] = "id" /\ asked[s] = req[s]
  /\ \A s \in Streams : pc[s] \in {"stop", "cancelFrames"} =>
                          kind[s] = "id" /\ asked[s] = Nav /\ ~framesCancelled
  /\ framesCancelled => Nav \in proxied /\ \A s \in open : ~(kind[s] = "id" /\ asked[s] = Nav)

\* No stream is open.
LEMMA InitCancelling == Init => Cancelling
  <1> SUFFICES ASSUME Init PROVE Cancelling
    OBVIOUS
  <1>1. framesCancelled = FALSE
    BY Zenon DEF Init, SessionInit
  <1>2. /\ pc = [s \in Streams |-> "recv"] /\ sess = [s \in Streams |-> "nil"]
        /\ kind = [s \in Streams |-> "other"] /\ open = {}
    BY Zenon DEF Init
  <1> QED BY <1>1, <1>2 DEF Cancelling

\* A New with an id is about a request that no stream has had yet.
LEMMA NewCancelling ==
  ASSUME IInv, Cancelling, NEW s \in Streams, NEW k \in Kinds, NEW r \in Requests \cup {NoRequest},
         ReceiveNew(s, k, r)
  PROVE  Cancelling'
  <1> USE LogOps DEF IInv, Types, Cancelling
  <1>1. /\ s \notin open /\ pc[s] = "recv" /\ open' = open \cup {s}
        /\ kind' = [kind EXCEPT ![s] = k] /\ asked' = [asked EXCEPT ![s] = r]
        /\ proxied' = proxied \cup (IF k = "id" THEN {r} ELSE {})
        /\ k = "id" => r \in Requests \ proxied
        /\ UNCHANGED <<framesCancelled, req>>
    BY DEF ReceiveNew, Sends, sessionVars
  <1>2. \E p \in {"recv", "robots", "panicked"}, x \in {"nil", "session", "direct"} :
          /\ pc' = [pc EXCEPT ![s] = p] /\ sess' = [sess EXCEPT ![s] = x]
          /\ ~(p = "recv" /\ x = "session")
    BY DEF ReceiveNew, To
  <1> QED BY <1>1, <1>2

\* Completed: the stream that goes on to abort the fetch is about the page.
LEMMA CompletedCancelling ==
  ASSUME IInv, Cancelling, NEW s \in Streams, NEW c \in BOOLEAN, NEW w \in BOOLEAN,
         ReceiveCompleted(s, c, w)
  PROVE  Cancelling'
  <1> USE LogOps DEF IInv, Types, Cancelling
  <1>1. /\ pc[s] = "recv" /\ s \in open /\ open' = open \ {s}
        /\ c => kind[s] \in {"id", "unknown", "direct"}
        /\ UNCHANGED <<framesCancelled, sess, req, kind, asked, proxied>>
    BY DEF ReceiveCompleted
  <1>2. \E p \in {"recv", "panicked", "stop", "complete"} :
          /\ pc' = [pc EXCEPT ![s] = p]
          /\ p = "stop" => sess[s] = "session" /\ req[s] # NoRequest /\ c /\ req[s] = Nav
    <2>1. CASE CompletedWithoutRequest(s, c, w)
      BY <2>1 DEF CompletedWithoutRequest, To
    <2>2. CASE CompletedWithRequest(s, c, w)
      <3>1. IsInitial(s) => req[s] = Nav
        BY DEF IsInitial, Order
      <3> QED BY <2>2, <3>1 DEF CompletedWithRequest, To
    <2> QED BY <2>1, <2>2 DEF ReceiveCompleted
  <1> QED BY <1>1, <1>2

\* The request that is looked up is the one asked for, and none for an id nobody registered.
LEMMA LookUpCancelling ==
  ASSUME IInv, Cancelling, NEW s \in Streams, LookUp(s) PROVE Cancelling'
  <1> USE LogOps DEF IInv, Types, Cancelling
  <1>1. UNCHANGED <<framesCancelled, open, sess, kind, asked, proxied>>
    BY DEF LookUp
  <1>2. \E p \in {"recv", "panicked", "ended"} :
          /\ pc' = [pc EXCEPT ![s] = p]
          /\ p = "recv" => req' = [req EXCEPT ![s] = Found(s)]
          /\ p # "recv" => \A t \in Streams \ {s} : req'[t] = req[t]
    BY DEF LookUp, To
  <1>3. /\ Found(s) \in {NoRequest, asked[s]}
        /\ kind[s] \in {"unknown", "direct"} => Found(s) = NoRequest
    BY DEF Found
  <1> QED BY <1>1, <1>2, <1>3

\* frameWg.Cancel: no other stream is about the page, and this one is not open.
LEMMA CancelCancelling ==
  ASSUME IInv, Cancelling, NEW s \in Streams, CancelFrames(s) PROVE Cancelling'
  <1> USE LogOps DEF IInv, Types, Cancelling
  <1>1. /\ pc[s] = "cancelFrames" /\ framesCancelled' = TRUE
        /\ UNCHANGED <<open, sess, req, kind, asked, proxied>>
    BY DEF CancelFrames
  <1>2. \E p \in {"panicked", "cancelLoad"} : pc' = [pc EXCEPT ![s] = p]
    BY DEF CancelFrames, To
  <1>3. s \notin open
    BY <1>1 DEF Delivery, Completing
  <1> QED BY <1>1, <1>2, <1>3

\* The other steps of a stream keep what it is about, and nobody else calls frameWg.Cancel.
LEMMA HandlerCancelling ==
  ASSUME IInv, Cancelling, NEW s \in Streams,
         \/ CheckRobots(s) \/ ReplyWithoutId(s) \/ ReceiveNotify(s) \/ StopLoading(s)
         \/ CancelLoad(s) \/ Complete(s) \/ ProxyCloses(s) \/ RecvCancelled(s) \/ RecvDeadline(s)
  PROVE  Cancelling'
  <1> USE DEF IInv, Types, Cancelling
  <1>1. UNCHANGED <<framesCancelled, open, sess, req, kind, asked, proxied>>
    BY DEF CheckRobots, ReplyWithoutId, ReceiveNotify, StopLoading, CancelLoad, Complete,
       ProxyCloses, RecvCancelled, RecvDeadline, EndStream, sessionVars
  <1>2. \E p \in Positions :
          /\ pc' = [pc EXCEPT ![s] = p]
          /\ p = "cancelFrames" => pc[s] = "stop"
          /\ p # "stop"
          /\ p = "recv" => s \notin open \/ kind[s] \in {"connect", "other"}
    BY DEF CheckRobots, ReplyWithoutId, ReceiveNotify, StopLoading, CancelLoad, Complete,
       ProxyCloses, RecvCancelled, RecvDeadline, EndStream, To, Positions, Handling, Delivery,
       Completing
  <1> QED BY <1>1, <1>2

\* Every step keeps Cancelling.
LEMMA NextCancelling == IInv /\ Cancelling /\ [Next]_vars => Cancelling'
  <1> SUFFICES ASSUME IInv, Cancelling, [Next]_vars PROVE Cancelling'
    OBVIOUS
  <1>1. CASE UNCHANGED <<framesCancelled, streamVars>>
    BY <1>1 DEF streamVars, Cancelling
  <1>2. CASE SessionStep /\ UNCHANGED streamVars
    <2>1. UNCHANGED framesCancelled
      BY <1>2 DEF SessionStep, FetchStep, FetchRuns, RegisterSession, Configure, OpenTab,
         InitTasks, Navigate, NavigateGivesUp, Settle, ExecuteScripts, FramesWait, FramesStop,
         TimerWait, Finalize, BrowserCall, Extract, CloseBrowser, WriteCrawlLogs, WritePageLog,
         MakeResult, Cleanup, ReleaseSession, Advance, LoadDeadline, SessionLost, PauseRequest,
         AddRequest, ContinueRequest, BrowserStep
    <2> QED BY <1>1, <1>2, <2>1
  <1>3. ASSUME NEW s \in Streams,
               Receive(s) \/ Handle(s) \/ ProxyCloses(s) \/ RecvCancelled(s) \/ RecvDeadline(s)
        PROVE  Cancelling'
    BY <1>3, NewCancelling, CompletedCancelling, LookUpCancelling, CancelCancelling,
       HandlerCancelling DEF Receive, Handle
  <1>4. ASSUME NEW r \in Requests, Answer(r) PROVE Cancelling'
    BY <1>1, <1>4 DEF Answer, BrowserStep
  <1>5. CASE UNCHANGED vars
    BY <1>1, <1>5 DEF vars, sessionVars
  <1> QED BY <1>2, <1>3, <1>4, <1>5 DEF Next, Ended

\* AbortFetch does not panic on frameWg.cancel, though sess and req of a stream may be stale
\* (server.go 123-126, 320-326, waitgroup.go 67-69).
THEOREM CancelsOnce == Spec => []NoDoubleCancel
  <1>1. Cancelling => NoDoubleCancel
    BY DEF Cancelling, NoDoubleCancel
  <1> QED BY <1>1, SpecIInv, InitCancelling, NextCancelling, PTL DEF Spec

-----------------------------------------------------------------------------
(* The types of all the variables.                                         *)

\* A request is registered once: it is paused until then, and is not paused again.
Once ==
  /\ IsFiniteSet(Registered) /\ Len(registry) = Cardinality(Registered)
  /\ \A r \in Registered : browser[r] \in Beyond

\* A handler that sets FromCache has a request at hand.
Belongs ==
  /\ sess \in [Streams -> {"nil", "session", "direct"}]
  /\ bound \subseteq Streams /\ proxied \subseteq Requests
  /\ fromCache \subseteq Requests /\ gotNew \subseteq Requests
  /\ warcLogs \subseteq Logs /\ crawlLogs \subseteq Logs /\ directLogs \subseteq Logs
  /\ lateAcks \subseteq acked
  /\ \A s \in Streams : pc[s] \in Completing => req[s] # NoRequest

\* The contexts of the session, and the request its redirects have led to.
Contexts ==
  /\ ctx \in {"nil", "live", "cancelled"}
  /\ loadCtx \in {"nil", "live", "cancelled", "deadline"}
  /\ rootRequest \in Requests \cup {NoRequest}

\* What is set, and reset, at once.
Flags ==
  /\ slot \in BOOLEAN /\ framesCancelled \in BOOLEAN /\ stopped \in BOOLEAN
  /\ pageLog \in BOOLEAN /\ closeErr \in BOOLEAN /\ aborted \in BOOLEAN
  /\ cached \in [Streams -> BOOLEAN]

\* Nothing is registered, and no context is made.
LEMMA InitTypes == Init => Once /\ Belongs /\ Contexts /\ Flags
  <1> SUFFICES ASSUME Init PROVE Once /\ Belongs /\ Contexts /\ Flags
    OBVIOUS
  <1>1. Once
    <2>1. registry = <<>>
      BY DEF Init, SessionInit
    <2>2. Registered = {}
      BY <2>1 DEF Registered
    <2>3. IsFiniteSet(Registered) /\ Cardinality(Registered) = 0
      BY <2>2, FS_EmptySet
    <2> QED BY <2>1, <2>2, <2>3 DEF Once
  <1>2. Belongs
    BY DEF Init, SessionInit, Belongs, Completing
  <1>3. Contexts
    BY DEF Init, SessionInit, Contexts
  <1>4. Flags
    <2>1. cached \in [Streams -> BOOLEAN]
      BY DEF Init
    <2> QED BY <2>1, Zenon DEF Init, SessionInit, Flags
  <1> QED BY <1>1, <1>2, <1>3, <1>4

\* What the steps of Fetch, the deadline and the end of the browser change.
LEMMA FetchSteps ==
  ASSUME FetchStep \/ LoadDeadline \/ SessionLost
  PROVE  /\ UNCHANGED <<registry, browser, fromCache, gotNew, warcLogs, framesCancelled, stopped,
                        aborted>>
         /\ crawlLogs' = crawlLogs \/ crawlLogs' = {crawlLog[r] : r \in Registered} \cap warcLogs
         /\ ctx' \in {ctx, "live", "cancelled"}
         /\ loadCtx' \in {loadCtx, "live", "cancelled", "deadline"}
         /\ rootRequest' = rootRequest \/ (registry # <<>> /\ rootRequest' = RedirectEnd)
         /\ slot' = slot \/ slot' = TRUE \/ slot' = FALSE
         /\ pageLog' = pageLog \/ pageLog' = TRUE
         /\ closeErr' = closeErr \/ closeErr' = TRUE
  <1> USE DEF FetchStep, FetchRuns, RegisterSession, Configure, OpenTab, InitTasks, Navigate,
       Settle, ExecuteScripts, FramesWait, TimerWait, Finalize, BrowserCall, Extract, CloseBrowser,
       WriteCrawlLogs, WritePageLog, MakeResult, Cleanup, ReleaseSession, NavigateGivesUp,
       FramesStop, LoadDeadline, SessionLost, Advance
  <1>1. UNCHANGED <<registry, browser, fromCache, gotNew, warcLogs, framesCancelled, stopped,
                    aborted>>
    BY DEF requestVars
  <1>2. crawlLogs' = crawlLogs \/ crawlLogs' = {crawlLog[r] : r \in Registered} \cap warcLogs
    BY DEF fetchVars
  <1>3. /\ ctx' \in {ctx, "live", "cancelled"}
        /\ loadCtx' \in {loadCtx, "live", "cancelled", "deadline"}
    BY DEF CancelContext, CancelLoadIn, ctxVars
  <1>4. rootRequest' = rootRequest \/ (registry # <<>> /\ rootRequest' = RedirectEnd)
    OBVIOUS
  <1>5. slot' = slot \/ slot' = TRUE \/ slot' = FALSE
    OBVIOUS
  <1>6. pageLog' = pageLog \/ pageLog' = TRUE
    BY DEF fetchVars
  <1>7. closeErr' = closeErr \/ closeErr' = TRUE
    BY DEF fetchVars
  <1> QED BY <1>1, <1>2, <1>3, <1>4, <1>5, <1>6, <1>7, Zenon

\* AddRequest registers a paused request, which no other step does.
LEMMA NextOnce == IInv /\ Once /\ [Next]_vars => Once'
  <1> SUFFICES ASSUME IInv, Once, [Next]_vars PROVE Once'
    OBVIOUS
  <1>1. CASE UNCHANGED <<registry, browser>>
    BY <1>1 DEF Once, Registered
  <1>2. ASSUME NEW r \in Requests, AddRequest(r) PROVE Once'
    <2>1. registry' = Append(registry, r) /\ browser' = [browser EXCEPT ![r] = "added"]
          /\ browser[r] = "paused"
      BY <1>2 DEF AddRequest, BrowserStep
    <2>2. registry \in Seq(Requests) /\ browser \in [Requests -> {"idle", "paused"} \cup Beyond]
      BY DEF IInv, Types
    <2>3. Registered' = Registered \cup {r}
      BY <2>1, <2>2, RegistryGrows
    <2>4. r \notin Registered
      BY <2>1 DEF Once, Beyond
    <2>5. IsFiniteSet(Registered') /\ Cardinality(Registered') = Cardinality(Registered) + 1
      BY <2>3, <2>4, FS_AddElement DEF Once
    <2>6. Len(registry') = Len(registry) + 1
      BY <2>1, <2>2
    <2>7. \A x \in Registered' : browser'[x] \in Beyond
      <3>1. Registered \subseteq Requests
        BY <2>2 DEF Registered
      <3> QED BY <2>1, <2>2, <2>3, <3>1 DEF Once, Beyond
    <2> QED BY <2>5, <2>6, <2>7 DEF Once
  <1>3. ASSUME NEW r \in Requests, PauseRequest(r) \/ ContinueRequest(r) \/ Answer(r) PROVE Once'
    <2>1. registry' = registry /\ Registered' = Registered /\ Registered \subseteq Requests
      BY <1>3 DEF PauseRequest, ContinueRequest, Answer, requestVars, Registered, IInv, Types
    <2>2. \A x \in Registered : browser'[x] \in Beyond
      BY <1>3, <2>1 DEF PauseRequest, ContinueRequest, Answer, BrowserStep, Once, Beyond, IInv,
         Types
    <2> QED BY <2>1, <2>2 DEF Once
  <1>4. CASE FetchStep \/ LoadDeadline \/ SessionLost
    BY <1>1, <1>4, FetchSteps
  <1>5. ASSUME NEW s \in Streams,
               Receive(s) \/ Handle(s) \/ ProxyCloses(s) \/ RecvCancelled(s) \/ RecvDeadline(s)
        PROVE  Once'
    BY <1>1, <1>5 DEF Receive, Handle, ReceiveNew, CheckRobots, LookUp, ReplyWithoutId,
       ReceiveNotify, ReceiveCompleted, CompletedWithoutRequest, CompletedWithRequest, StopLoading,
       CancelFrames, CancelLoad, Complete, ProxyCloses, RecvCancelled, RecvDeadline, EndStream,
       sessionVars, requestVars
  <1>6. CASE UNCHANGED vars
    BY <1>1, <1>6 DEF vars, sessionVars, requestVars
  <1> QED BY <1>2, <1>3, <1>4, <1>5, <1>6 DEF Next, SessionStep, Ended

\* What a session and a stream have belongs to them.
LEMMA NextBelongs == IInv /\ Belongs /\ [Next]_vars => Belongs'
  <1> SUFFICES ASSUME IInv, Belongs, [Next]_vars PROVE Belongs'
    OBVIOUS
  <1>1. CASE UNCHANGED <<fromCache, gotNew, warcLogs, crawlLogs, streamVars>>
    BY <1>1 DEF Belongs, streamVars
  <1>2. CASE (FetchStep \/ LoadDeadline \/ SessionLost) /\ UNCHANGED streamVars
    BY <1>2, FetchSteps DEF Belongs, streamVars
  <1>3. ASSUME NEW r \in Requests,
               \/ (PauseRequest(r) \/ AddRequest(r) \/ ContinueRequest(r)) /\ UNCHANGED streamVars
               \/ Answer(r)
        PROVE  Belongs'
    BY <1>1, <1>3 DEF PauseRequest, AddRequest, ContinueRequest, Answer, BrowserStep, requestVars,
       fetchVars
  <1>4. ASSUME NEW s \in Streams, NEW k \in Kinds, NEW r \in Requests \cup {NoRequest},
               ReceiveNew(s, k, r)
        PROVE  Belongs'
    <2>1. k = "id" => r \in Requests
      BY <1>4 DEF ReceiveNew, Sends
    <2>2. proxied' \subseteq Requests /\ bound' \subseteq Streams
      BY <1>4, <2>1 DEF ReceiveNew, Belongs
    <2>3. sess' \in [Streams -> {"nil", "session", "direct"}]
      BY <1>4 DEF ReceiveNew, Belongs
    <2>4. UNCHANGED <<fromCache, gotNew, warcLogs, crawlLogs, directLogs, req, acked, lateAcks>>
      BY <1>4 DEF ReceiveNew, sessionVars, fetchVars, requestVars
    <2>5. \A t \in Streams : pc'[t] \in Completing => pc[t] \in Completing
      BY <1>4 DEF ReceiveNew, To, Completing, IInv, Types
    <2> QED BY <2>2, <2>3, <2>4, <2>5 DEF Belongs
  <1>5. ASSUME NEW s \in Streams, NEW c \in BOOLEAN, NEW w \in BOOLEAN, ReceiveCompleted(s, c, w)
        PROVE  Belongs'
    <2>1. Log(s) \in Logs
      BY <1>5, LogOps DEF ReceiveCompleted, Log, IInv, Types, Delivery
    <2>2. UNCHANGED <<sess, bound, proxied, req, fromCache, gotNew, crawlLogs, acked, lateAcks>>
      BY <1>5 DEF ReceiveCompleted, fetchVars
    <2>3. warcLogs' \subseteq Logs /\ directLogs' \subseteq Logs
      BY <1>5, <2>1 DEF ReceiveCompleted, CompletedWithoutRequest, CompletedWithRequest, Belongs
    <2>4. \A t \in Streams : pc'[t] \in Completing => req[t] # NoRequest
      BY <1>5 DEF ReceiveCompleted, CompletedWithoutRequest, CompletedWithRequest, To, Belongs,
         Completing, IInv, Types
    <2> QED BY <2>2, <2>3, <2>4 DEF Belongs
  <1>6. ASSUME NEW s \in Streams, LookUp(s) PROVE Belongs'
    <2>1. UNCHANGED <<sess, bound, proxied, fromCache, warcLogs, crawlLogs, directLogs, acked,
                      lateAcks>>
      BY <1>6 DEF LookUp, fetchVars
    <2>2. Found(s) \in Requests \cup {NoRequest}
      BY DEF Found, IInv, Types
    <2>3. gotNew' \subseteq Requests
      BY <1>6, <2>2 DEF LookUp, Belongs
    <2>4. \A t \in Streams : pc'[t] \in Completing => req'[t] # NoRequest
      BY <1>6 DEF LookUp, To, Belongs, Completing, IInv, Types
    <2> QED BY <2>1, <2>3, <2>4 DEF Belongs
  <1>7. ASSUME NEW s \in Streams, Complete(s) PROVE Belongs'
    <2>1. UNCHANGED <<sess, bound, proxied, req, gotNew, warcLogs, crawlLogs, directLogs>>
          /\ lateAcks' \subseteq acked'
      BY <1>7 DEF Complete, fetchVars, Belongs, NotifyOK
    <2>2. req[s] \in Requests
      BY <1>7 DEF Complete, Belongs, Completing, IInv, Types
    <2>3. fromCache' \subseteq Requests
      BY <1>7, <2>2 DEF Complete, Belongs
    <2>4. \A t \in Streams : pc'[t] \in Completing => pc[t] \in Completing
      BY <1>7 DEF Complete, To, Completing, IInv, Types
    <2> QED BY <2>1, <2>3, <2>4 DEF Belongs
  <1>8. ASSUME NEW s \in Streams,
               \/ CheckRobots(s) \/ ReplyWithoutId(s) \/ ReceiveNotify(s) \/ StopLoading(s)
               \/ CancelFrames(s) \/ CancelLoad(s)
               \/ ProxyCloses(s) \/ RecvCancelled(s) \/ RecvDeadline(s)
        PROVE  Belongs'
    <2>1. UNCHANGED <<sess, bound, proxied, req, fromCache, gotNew, warcLogs, crawlLogs,
                      directLogs, acked, lateAcks>>
      BY <1>8 DEF CheckRobots, ReplyWithoutId, ReceiveNotify, StopLoading, CancelFrames,
         CancelLoad, ProxyCloses, RecvCancelled, RecvDeadline, EndStream, sessionVars, fetchVars,
         requestVars
    <2>2. \A t \in Streams : pc'[t] \in Completing => pc[t] \in Completing
      BY <1>8 DEF CheckRobots, ReplyWithoutId, ReceiveNotify, StopLoading, CancelFrames,
         CancelLoad, ProxyCloses, RecvCancelled, RecvDeadline, EndStream, To, Completing, IInv,
         Types
    <2> QED BY <2>1, <2>2 DEF Belongs
  <1>9. CASE UNCHANGED vars
    BY <1>1, <1>9 DEF vars, sessionVars, fetchVars, requestVars
  <1> QED BY <1>2, <1>3, <1>4, <1>5, <1>6, <1>7, <1>8, <1>9 DEF Next, SessionStep, Receive, Handle,
             Ended

\* The order that Nat is well-founded by.
Below == {pair \in Nat \X Nat : pair[1] < pair[2]}

\* A set of positions that is not empty has a last one.
LEMMA LastOf ==
  ASSUME NEW n \in Nat, NEW S \in SUBSET (1..n), S # {}
  PROVE  \E k \in S : \A j \in S : j <= k
  <1> DEFINE T == {t \in 0..n : n - t \in S}
  <1>1. T \subseteq Nat /\ \A k \in S : n - k \in T
    <2>1. \A k \in S : k \in 1..n /\ n - k \in 0..n /\ n - (n - k) = k
      OBVIOUS
    <2> QED BY <2>1
  <1>2. T # {}
    BY <1>1
  <1> HIDE DEF T
  <1>3. PICK t \in T : \A u \in T : ~(<<u, t>> \in Below)
    <2>1. IsWellFoundedOn(Below, Nat)
      BY NatLessThanWellFounded DEF OpToRel, Below
    <2> QED BY <1>1, <1>2, <2>1, WFMin, Zenon
  <1>4. t \in 0..n /\ n - t \in S
    BY DEF T
  <1>5. ASSUME NEW k \in S PROVE k <= n - t
    <2>1. <<n - k, t>> \notin Below /\ n - k \in Nat /\ t \in Nat /\ k \in 1..n
      BY <1>1, <1>3, <1>4
    <2>2. ~(n - k < t)
      BY <2>1 DEF Below
    <2> QED BY <1>4, <2>1, <2>2
  <1> QED BY <1>4, <1>5

\* Redirects lead to a request that is registered.
LEMMA RedirectEndOps ==
  ASSUME registry \in Seq(Requests), registry # <<>> PROVE RedirectEnd \in Requests
  <1> DEFINE chain == {k \in DOMAIN registry : registry[k] \in {Nav} \cup Hops}
  <1>1. Len(registry) \in Nat /\ DOMAIN registry = 1..Len(registry) /\ 1 \in DOMAIN registry
        /\ \A k \in DOMAIN registry : registry[k] \in Requests
    OBVIOUS
  <1>2. CASE registry[1] \in {Nav} \cup Hops
    <2>1. chain \in SUBSET (1..Len(registry)) /\ chain # {} /\ chain \subseteq DOMAIN registry
      BY <1>1, <1>2
    <2>2. RedirectEnd = registry[CHOOSE k \in chain : \A j \in chain : j <= k]
      BY <1>2 DEF RedirectEnd
    <2> HIDE DEF chain
    <2>3. (CHOOSE k \in chain : \A j \in chain : j <= k) \in chain
      <3>1. \E k \in chain : \A j \in chain : j <= k
        BY <1>1, <2>1, LastOf
      <3> QED BY <3>1, Zenon
    <2> QED BY <1>1, <2>1, <2>2, <2>3
  <1>3. CASE registry[1] \notin {Nav} \cup Hops
    BY <1>1, <1>3 DEF RedirectEnd
  <1> QED BY <1>2, <1>3

\* Contexts are made once and end; FinalizeResponses sets the root request.
LEMMA NextContexts == IInv /\ Contexts /\ [Next]_vars => Contexts'
  <1> SUFFICES ASSUME IInv, Contexts, [Next]_vars PROVE Contexts'
    OBVIOUS
  <1>1. CASE UNCHANGED <<ctx, loadCtx, rootRequest>>
    BY <1>1 DEF Contexts
  <1>2. CASE FetchStep \/ LoadDeadline \/ SessionLost
    <2>1. rootRequest' \in Requests \cup {NoRequest}
      BY <1>2, FetchSteps, RedirectEndOps DEF Contexts, IInv, Types
    <2> QED BY <1>2, <2>1, FetchSteps DEF Contexts
  <1>3. ASSUME NEW s \in Streams,
               Receive(s) \/ Handle(s) \/ ProxyCloses(s) \/ RecvCancelled(s) \/ RecvDeadline(s)
        PROVE  Contexts'
    <2>1. UNCHANGED <<ctx, rootRequest>> /\ loadCtx' \in {loadCtx, CancelLoadIn(loadCtx)}
      BY <1>3 DEF Receive, Handle, ReceiveNew, CheckRobots, LookUp, ReplyWithoutId,
       ReceiveNotify, ReceiveCompleted, CompletedWithoutRequest, CompletedWithRequest, StopLoading,
       CancelFrames, CancelLoad, Complete, ProxyCloses, RecvCancelled, RecvDeadline, EndStream,
         sessionVars, ctxVars
    <2> QED BY <2>1 DEF Contexts, CancelLoadIn
  <1>4. ASSUME NEW r \in Requests,
               PauseRequest(r) \/ AddRequest(r) \/ ContinueRequest(r) \/ Answer(r)
        PROVE  Contexts'
    BY <1>1, <1>4 DEF PauseRequest, AddRequest, ContinueRequest, Answer, BrowserStep, ctxVars
  <1>5. CASE UNCHANGED vars
    BY <1>1, <1>5 DEF vars, sessionVars, ctxVars
  <1> QED BY <1>2, <1>3, <1>4, <1>5 DEF Next, SessionStep, Ended

\* Flags are set and reset.
LEMMA NextFlags == Flags /\ [Next]_vars => Flags'
  <1> SUFFICES ASSUME Flags, [Next]_vars PROVE Flags'
    OBVIOUS
  <1>1. CASE UNCHANGED <<slot, framesCancelled, stopped, pageLog, closeErr, aborted, cached>>
    BY <1>1, Zenon DEF Flags
  <1>2. CASE (FetchStep \/ LoadDeadline \/ SessionLost) /\ UNCHANGED streamVars
    BY <1>2, FetchSteps, Zenon DEF Flags, streamVars
  <1>3. ASSUME NEW s \in Streams, NEW c \in BOOLEAN, NEW w \in BOOLEAN, ReceiveCompleted(s, c, w)
        PROVE  Flags'
    <2>1. UNCHANGED <<slot, framesCancelled, stopped, pageLog, closeErr>>
      BY <1>3 DEF ReceiveCompleted, fetchVars
    <2>2. aborted' \in BOOLEAN
      BY <1>3, Zenon DEF ReceiveCompleted, CompletedWithRequest, CompletedWithoutRequest, Flags
    <2>3. cached' \in [Streams -> BOOLEAN]
      BY <1>3 DEF ReceiveCompleted, Flags
    <2> QED BY <2>1, <2>2, <2>3, Zenon DEF Flags
  <1>4. ASSUME NEW s \in Streams, StopLoading(s) PROVE Flags'
    BY <1>4, Zenon DEF StopLoading, Flags, fetchVars
  <1>5. ASSUME NEW s \in Streams, CancelFrames(s) PROVE Flags'
    BY <1>5, Zenon DEF CancelFrames, Flags, fetchVars
  <1>6. ASSUME NEW s \in Streams,
               \/ \E k \in Kinds, r \in Requests \cup {NoRequest} : ReceiveNew(s, k, r)
               \/ ReceiveNotify(s) \/ CheckRobots(s) \/ LookUp(s) \/ ReplyWithoutId(s)
               \/ CancelLoad(s) \/ Complete(s) \/ ProxyCloses(s) \/ RecvCancelled(s)
               \/ RecvDeadline(s)
        PROVE  Flags'
    BY <1>1, <1>6 DEF ReceiveNew, ReceiveNotify, CheckRobots, LookUp, ReplyWithoutId, CancelLoad,
       Complete, ProxyCloses, RecvCancelled, RecvDeadline, EndStream, sessionVars, fetchVars
  <1>7. ASSUME NEW r \in Requests,
               \/ (PauseRequest(r) \/ AddRequest(r) \/ ContinueRequest(r)) /\ UNCHANGED streamVars
               \/ Answer(r)
        PROVE  Flags'
    BY <1>1, <1>7 DEF PauseRequest, AddRequest, ContinueRequest, Answer, BrowserStep, fetchVars,
       streamVars
  <1>8. CASE UNCHANGED vars
    BY <1>1, <1>8 DEF vars, sessionVars, fetchVars, streamVars
  <1> QED BY <1>2, <1>3, <1>4, <1>5, <1>6, <1>7, <1>8 DEF Next, SessionStep, Receive, Handle, Ended

\* The variables keep their types; the length of the registry says that no request is in it
\* twice (requests.go 72-77, eventlisteners.go 128-166).
THEOREM TypeCorrect == Spec => []TypeOK
  <1>1. IInv /\ Once /\ Belongs /\ Contexts /\ Flags => TypeOK
    <2> SUFFICES ASSUME IInv, Once, Belongs, Contexts, Flags PROVE TypeOK
      OBVIOUS
    <2>1. browser \in [Requests -> {"idle", "paused", "added", "continued", "answered"}]
      BY DEF IInv, Types, Beyond
    <2>2. pc \in [Streams -> Handling \cup {"recv", "stop", "cancelFrames", "cancelLoad",
                                            "complete", "ended", "panicked"}]
      BY DEF IInv, Types, Positions
    <2>3. acked \subseteq Logs
      BY DEF IInv, Delivery
    <2>4. SessionTypeOK
      BY <2>1, Zenon DEF SessionTypeOK, IInv, Types, Once, Belongs, Contexts, Flags
    <2> QED BY <2>2, <2>3, <2>4, Zenon DEF TypeOK, IInv, Types, Belongs, Flags
  <1> QED BY <1>1, SpecIInv, InitTypes, NextOnce, NextBelongs, NextContexts, NextFlags,
           PTL DEF Spec
=============================================================================
