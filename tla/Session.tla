------------------------------ MODULE Session ------------------------------
(***************************************************************************)
(* One browser session (session/session.go): the goroutine of Fetch, the   *)
(* listener goroutines that register intercepted requests                  *)
(* (session/eventlisteners.go, requests/requests.go), the browser as the   *)
(* code sees it, and the operations API streams call on a session.         *)
(* ApiServer composes this with the streams.                               *)
(***************************************************************************)
EXTENDS Integers, Sequences, FiniteSets

CONSTANTS
  Nav,        \* the request the browser makes for the page itself
  Hops,       \* requests redirected from it: they share its NetworkId
  Subs,       \* requests of the page's resources
  Logs,       \* crawl logs, named by the message that delivers them
  NoRequest, NoLog

Requests == {Nav} \cup Hops \cup Subs

ASSUME RequestsAssumption ==
  /\ Nav \notin Hops \cup Subs /\ Hops \cap Subs = {}
  /\ NoRequest \notin Requests /\ NoLog \notin Logs

VARIABLES
  slot,        \* Registry.sessions[id] # nil
  fetch,       \* where the goroutine of Fetch is
  result,      \* what Fetch returns
  ctx,         \* Session.ctx
  loadCtx,     \* loadCtx, derived from ctx
  framesCancelled, \* frameWg.cancel is closed
  registry,    \* requestRegistry.requests
  rootRequest, \* requestRegistry.rootRequest
  crawlLog,    \* Request.CrawlLog
  fromCache,   \* requests with Request.FromCache
  gotNew,      \* requests with Request.GotNew
  browser,     \* how far the browser is with each request
  stopped,     \* the browser has done page.StopLoading
  warcLogs,    \* crawl logs that have a WarcId
  crawlLogs,   \* logs Fetch collects for WriteCrawlLogs
  pageLog,     \* WritePageLog has been called
  closeErr,    \* chromedp.Cancel of the browser context has returned an error
  aborted      \* AbortFetch was called before Fetch was done with frameWg.Wait

fetchVars   == <<fetch, result, crawlLogs, pageLog, closeErr>>
ctxVars     == <<ctx, loadCtx>>
requestVars == <<registry, crawlLog, fromCache, gotNew>>
sessionVars == <<slot, fetchVars, ctxVars, framesCancelled, requestVars, rootRequest, browser,
                 stopped, warcLogs, aborted>>

FetchStates == {"unregistered", "config", "openTab", "initTasks", "navigate", "settle",
                "scripts", "frames", "outstanding", "finalize", "extract", "close", "walk",
                "pageLog", "outlinks", "cleanup", "returned", "released"}
Results == {"none", "rendered", "alreadySeen", "exceeded", "failed", "panic"}
Loading == {"navigate", "settle", "scripts", "frames"}

Registered == {registry[k] : k \in DOMAIN registry}

SessionTypeOK ==
  /\ slot \in BOOLEAN
  /\ fetch \in FetchStates /\ result \in Results
  /\ ctx \in {"nil", "live", "cancelled"}
  /\ loadCtx \in {"nil", "live", "cancelled", "deadline"}
  /\ framesCancelled \in BOOLEAN
  /\ registry \in Seq(Requests) /\ Len(registry) = Cardinality(Registered)
  /\ rootRequest \in Requests \cup {NoRequest}
  /\ crawlLog \in [Requests -> Logs \cup {NoLog}]
  /\ fromCache \in SUBSET Requests /\ gotNew \in SUBSET Requests
  /\ browser \in [Requests -> {"idle", "paused", "added", "continued", "answered"}]
  /\ stopped \in BOOLEAN
  /\ warcLogs \in SUBSET Logs /\ crawlLogs \in SUBSET Logs
  /\ pageLog \in BOOLEAN /\ closeErr \in BOOLEAN /\ aborted \in BOOLEAN

SessionInit ==
  /\ slot = FALSE /\ fetch = "unregistered" /\ result = "none"
  /\ ctx = "nil" /\ loadCtx = "nil" /\ framesCancelled = FALSE
  /\ registry = <<>> /\ rootRequest = NoRequest
  /\ crawlLog = [r \in Requests |-> NoLog]
  /\ fromCache = {} /\ gotNew = {}
  /\ browser = [r \in Requests |-> "idle"] /\ stopped = FALSE
  /\ warcLogs = {} /\ crawlLogs = {} /\ pageLog = FALSE /\ closeErr = FALSE /\ aborted = FALSE

\* sess.Requests # nil: from the moment the tab is open.
HasRequests == loadCtx # "nil"

\* Session.Notify answers Canceled once the browser context is gone.
NotifyOK == ctx = "live"

-----------------------------------------------------------------------------
(* Contexts.                                                               *)

\* Cancelling a context cancels those derived from it that are still live.
CancelLoadIn(l) == IF l = "live" THEN "cancelled" ELSE l
CancelContext ==
  /\ ctx' = IF ctx = "live" THEN "cancelled" ELSE ctx
  /\ loadCtx' = CancelLoadIn(loadCtx)

\* maxTotalTime passes.
LoadDeadline ==
  /\ loadCtx = "live" /\ loadCtx' = "deadline"
  /\ UNCHANGED <<slot, fetchVars, ctx, framesCancelled, requestVars, rootRequest, browser,
                 stopped, warcLogs, aborted>>

\* The context of Run is cancelled (the API server has failed), or the browser goes away.
SessionLost ==
  /\ ctx = "live" /\ CancelContext
  /\ UNCHANGED <<slot, fetchVars, framesCancelled, requestVars, rootRequest, browser, stopped,
                 warcLogs, aborted>>

-----------------------------------------------------------------------------
(* Fetch.                                                                  *)

\* A return from the middle of Fetch; a panic is recovered into a result of its own.
Leave(r) == fetch' = "cleanup" /\ result' = r
Goto(pc) == fetch' = pc /\ result' = result

\* Registry.GetNextAvailable puts the session in its slot, then Fetch is called.
RegisterSession ==
  /\ fetch = "unregistered"
  /\ Goto("config") /\ slot' = TRUE
  /\ UNCHANGED <<crawlLogs, pageLog, closeErr, ctxVars, framesCancelled, requestVars, rootRequest,
                 browser, stopped, warcLogs, aborted>>

\* Configuration and scripts from the cache; then sess.ctx is set.
Configure ==
  /\ fetch = "config"
  /\ \/ Goto("openTab") /\ ctx' = "live"
     \/ fetch' = "returned" /\ result' = "failed" /\ ctx' = ctx
  /\ UNCHANGED <<slot, crawlLogs, pageLog, closeErr, loadCtx, framesCancelled, requestVars,
                 rootRequest, browser, stopped, warcLogs, aborted>>

\* The first tab; then loadCtx, frameWg, Requests, the listeners and the timers.
OpenTab ==
  /\ fetch = "openTab"
  /\ \/ Goto("initTasks") /\ loadCtx' = IF ctx = "live" THEN "live" ELSE "cancelled"
     \/ Leave("failed") /\ loadCtx' = loadCtx
  /\ UNCHANGED <<slot, crawlLogs, pageLog, closeErr, ctx, framesCancelled, requestVars,
                 rootRequest, browser, stopped, warcLogs, aborted>>

\* The remaining steps of Fetch up to FinalizeResponses change only its own position.
Advance(from, outcome) ==
  /\ fetch = from /\ outcome
  /\ UNCHANGED <<slot, crawlLogs, pageLog, closeErr, ctxVars, framesCancelled, requestVars,
                 rootRequest, browser, stopped, warcLogs, aborted>>

InitTasks == Advance("initTasks", Goto("navigate") \/ Leave("failed"))

\* InitialRequest() indexes the slice: with no request every use of it panics.
NoInitial        == registry = <<>>
InitialFromCache == registry # <<>> /\ registry[1] \in fromCache
NoInitialLog     == registry # <<>> /\ crawlLog[registry[1]] = NoLog

\* page.Navigate has its answer, or loadCtx ends the call; each error has its own result.
Navigate ==
  Advance("navigate",
    \/ browser[Nav] = "answered" /\ Goto("settle")
    \/ loadCtx = "deadline" /\ Leave("exceeded")
    \/ /\ loadCtx = "cancelled"
       /\ \/ NoInitial /\ Leave("panic")
          \/ InitialFromCache /\ Leave("alreadySeen")
          \/ ~NoInitial /\ ~InitialFromCache /\ Leave("failed"))

\* It may also fail, or be answered with an errorText (which the code drops): the page was
\* stopped, or could not be asked for at all.
NavigateGivesUp ==
  Advance("navigate",
    \/ (browser[Nav] = "idle" \/ stopped) /\ Goto("settle")
    \/ Leave("failed"))

\* netActivityTimer: its outcome is ignored.
Settle == Advance("settle", Goto("scripts"))

\* An error of the first phase ends Fetch, one of the second is only logged.
ExecuteScripts == Advance("scripts", Goto("frames") \/ Leave("failed"))

WaitCancelled ==
  /\ framesCancelled
  /\ \/ NoInitial /\ Leave("panic")
     \/ InitialFromCache /\ Leave("alreadySeen")
     \/ ~NoInitial /\ ~InitialFromCache /\ Goto("outstanding")

WaitExceededAnyLog == loadCtx # "live" /\ Leave(IF NoInitial THEN "panic" ELSE "exceeded")

WaitExceededNever == loadCtx = "cancelled" /\ Goto("outstanding")

\* loadCtx is done, for whatever reason.
WaitExceeded ==
  /\ loadCtx # "live"
  /\ \/ NoInitial /\ Leave("panic")
     \/ NoInitialLog /\ Leave("exceeded")
     \/ ~NoInitial /\ ~NoInitialLog /\ Goto("outstanding")

\* frameWg.Wait: its select takes any channel that is ready.
FramesWait == Advance("frames", WaitCancelled \/ WaitExceeded)

\* It returns nil when the frames have stopped loading (see WaitGroup).
FramesStop == Advance("frames", Goto("outstanding"))

\* The timer that waits for crawl logs ends with them, or idle, or exceeded: all go on.
TimerWait == Advance("outstanding", Goto("finalize"))

\* The last of the requests that share the NetworkId of the first (for requests in order).
RedirectEnd ==
  LET chain == {k \in DOMAIN registry : registry[k] \in {Nav} \cup Hops}
  IN  IF registry[1] \in {Nav} \cup Hops
      THEN registry[CHOOSE k \in chain : \A j \in chain : j <= k]
      ELSE registry[1]

\* FinalizeResponses
Finalize ==
  /\ fetch = "finalize"
  /\ \/ registry = <<>> /\ Leave("panic") /\ UNCHANGED rootRequest
     \/ registry # <<>> /\ Goto("extract") /\ rootRequest' = RedirectEnd
  /\ UNCHANGED <<slot, crawlLogs, pageLog, closeErr, ctxVars, framesCancelled, requestVars,
                 browser, stopped, warcLogs, aborted>>

\* saveScreenshot, extractOutlinks and extractCookies: commands to the page under sess.ctx,
\* whose errors are only logged.
Extract == Advance("extract", Goto("close"))

CloseBrowserKept ==
  /\ fetch = "close"
  /\ Goto("walk")
  /\ UNCHANGED <<slot, crawlLogs, pageLog, closeErr, ctxVars, framesCancelled, requestVars,
                 rootRequest, browser, stopped, warcLogs, aborted>>

\* chromedp.Cancel(cdpCtx).  Its error is only logged: Fetch goes on with ctx as it was.
CloseBrowser ==
  /\ fetch = "close"
  /\ Goto("walk")
  /\ \/ CancelContext /\ UNCHANGED closeErr
     \/ closeErr' = TRUE /\ UNCHANGED ctxVars
  /\ UNCHANGED <<slot, crawlLogs, pageLog, framesCancelled, requestVars, rootRequest, browser,
                 stopped, warcLogs, aborted>>

\* Walk and WriteCrawlLogs (its error is only logged): the logs that have a WarcId.
WriteCrawlLogs ==
  /\ fetch = "walk"
  /\ Goto("pageLog")
  /\ crawlLogs' = {crawlLog[r] : r \in Registered} \cap warcLogs
  /\ UNCHANGED <<slot, pageLog, closeErr, ctxVars, framesCancelled, requestVars, rootRequest,
                 browser, stopped, warcLogs, aborted>>

\* The page log is written if the initial request has a crawl log.
WritePageLog ==
  /\ fetch = "pageLog"
  /\ IF NoInitialLog THEN Leave("failed") /\ pageLog' = pageLog
                     ELSE Goto("outlinks") /\ pageLog' = TRUE
  /\ UNCHANGED <<slot, crawlLogs, closeErr, ctxVars, framesCancelled, requestVars, rootRequest,
                 browser, stopped, warcLogs, aborted>>

\* Every outlink takes its discovery path from the crawl log of the root request, which may
\* be missing; without outlinks the result is made all the same.
MakeResult ==
  Advance("outlinks",
    \/ crawlLog[rootRequest] = NoLog /\ Leave("panic")
    \/ Leave("rendered"))

\* The deferred calls: loadCancel, cdpCancel, cleanWorkspace, allocatorCancel.
Cleanup ==
  /\ fetch = "cleanup"
  /\ Goto("returned") /\ CancelContext
  /\ UNCHANGED <<slot, crawlLogs, pageLog, closeErr, framesCancelled, requestVars, rootRequest,
                 browser, stopped, warcLogs, aborted>>

\* After PageCompleted the controller releases the session.
ReleaseSession ==
  /\ fetch = "returned"
  /\ Goto("released") /\ slot' = FALSE
  /\ UNCHANGED <<crawlLogs, pageLog, closeErr, ctxVars, framesCancelled, requestVars, rootRequest,
                 browser, stopped, warcLogs, aborted>>

\* Commands to the browser under sess.ctx, which has no deadline: each returns when the browser
\* answers, which it need not, or when the context is over.
BrowserCall  == OpenTab \/ InitTasks \/ Extract \/ CloseBrowser
BrowserCalls == {"openTab", "initTasks", "extract", "close"}

\* What Fetch does without waiting for the page or the browser.
FetchRuns ==
  \/ RegisterSession \/ Configure \/ Navigate \/ Settle \/ ExecuteScripts \/ FramesWait
  \/ TimerWait \/ Finalize \/ WriteCrawlLogs \/ WritePageLog \/ MakeResult \/ Cleanup
  \/ ReleaseSession

FetchStep == FetchRuns \/ BrowserCall \/ NavigateGivesUp \/ FramesStop

-----------------------------------------------------------------------------
(* The browser and the listener.  Browser behaviour is an assumption: it   *)
(* asks for the page first, follows a redirect when it has the answer, and *)
(* loads resources when it has the page.                                   *)

BrowserStep(r, from, to) ==
  /\ browser[r] = from /\ browser' = [browser EXCEPT ![r] = to]
  /\ UNCHANGED <<slot, fetchVars, ctxVars, framesCancelled, rootRequest, stopped, warcLogs,
                 aborted>>

\* fetch.EventRequestPaused
PauseRequest(r) ==
  /\ ctx = "live" /\ ~stopped
  /\ IF r = Nav THEN fetch = "navigate"
     ELSE browser[Nav] = "answered"
  /\ BrowserStep(r, "idle", "paused")
  /\ UNCHANGED requestVars

AddRequestAgain(r) ==
  /\ browser[r] \in {"paused", "added"} /\ browser' = [browser EXCEPT ![r] = "added"]
  /\ registry' = Append(registry, r)
  /\ UNCHANGED <<slot, fetchVars, ctxVars, framesCancelled, rootRequest, stopped, warcLogs,
                 aborted, crawlLog, fromCache, gotNew>>

\* The goroutine of the event: AddRequest under the registry's mutex ...
AddRequest(r) ==
  /\ BrowserStep(r, "paused", "added")
  /\ registry' = Append(registry, r)
  /\ UNCHANGED <<crawlLog, fromCache, gotNew>>

ContinueUnregistered(r) ==
  /\ ctx = "live"
  /\ \/ BrowserStep(r, "paused", "continued")
     \/ BrowserStep(r, "added", "continued")
  /\ UNCHANGED requestVars

\* ... then ContinueRequest, which needs the browser.
ContinueRequest(r) ==
  /\ ctx = "live"
  /\ BrowserStep(r, "added", "continued")
  /\ UNCHANGED requestVars
=============================================================================
