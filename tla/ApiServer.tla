----------------------------- MODULE ApiServer -----------------------------
(***************************************************************************)
(* The streams the recorder proxies open on the API server (server.Do),    *)
(* composed with the session they are about (module Session).  The steps   *)
(* of a handler that other goroutines can come between are actions of      *)
(* their own.                                                              *)
(***************************************************************************)
EXTENDS Session

CONSTANTS
  Streams,  \* calls of Do
  MaxNews   \* bound: New messages on one stream

ASSUME StreamsAssumption ==
  MaxNews \in Nat /\ Streams \X (1..MaxNews) \subseteq Logs

VARIABLES
  pc,        \* where the goroutine of each Do is
  sess,      \* its variable sess: nil, the session, or a direct session
  req,       \* its variable req
  bound,     \* streams whose ctx is derived from the session's, no longer a ten-second one
  kind,      \* what kind of New is being handled
  asked,     \* the request it is about
  cached,    \* Completed.Cached of the message being handled
  news,      \* New messages received
  open,      \* streams with a New whose Completed has not come yet
  proxied,   \* requests a proxy has asked about
  acked,     \* logs of Completed messages handled to the end
  lateAcks,  \* those of them handled when Fetch had its crawl logs
  directLogs \* crawl logs written for direct sessions

streamVars == <<pc, sess, req, bound, kind, asked, cached, news, open, proxied, acked,
                lateAcks, directLogs>>
vars       == <<sessionVars, streamVars>>

\* A New with the id of an intercepted request, a preflight without id, a New with an id
\* nobody registered, CONNECT and other News without id, a New from the direct proxy.
Kinds == {"id", "options", "unknown", "connect", "other", "direct"}
Handling == {"robots", "lookup", "denied"}

TypeOK ==
  /\ SessionTypeOK
  /\ pc \in [Streams -> Handling \cup {"recv", "stop", "cancelFrames", "cancelLoad",
                                       "complete", "ended", "panicked"}]
  /\ sess \in [Streams -> {"nil", "session", "direct"}]
  /\ req \in [Streams -> Requests \cup {NoRequest}]
  /\ bound \in SUBSET Streams
  /\ kind \in [Streams -> Kinds]
  /\ asked \in [Streams -> Requests \cup {NoRequest}]
  /\ cached \in [Streams -> BOOLEAN]
  /\ news \in [Streams -> 0..MaxNews]
  /\ open \in SUBSET Streams /\ proxied \in SUBSET Requests
  /\ acked \in SUBSET Logs /\ lateAcks \in SUBSET acked /\ directLogs \in SUBSET Logs

Init ==
  /\ SessionInit
  /\ pc = [s \in Streams |-> "recv"]
  /\ sess = [s \in Streams |-> "nil"]
  /\ req = [s \in Streams |-> NoRequest]
  /\ bound = {}
  /\ kind = [s \in Streams |-> "other"]
  /\ asked = [s \in Streams |-> NoRequest]
  /\ cached = [s \in Streams |-> FALSE]
  /\ news = [s \in Streams |-> 0]
  /\ open = {} /\ proxied = {} /\ acked = {} /\ lateAcks = {} /\ directLogs = {}

To(s, where) == pc' = [pc EXCEPT ![s] = where]
Log(s)       == <<s, news[s]>>

-----------------------------------------------------------------------------
(* What the proxies send (an assumption on them): one New by id for each   *)
(* request the browser has been told to continue, a preflight only for a   *)
(* resource, any other New at any time, and one Completed for a New, which  *)
(* says Cached only of a request the controller let the proxy answer.      *)

Sends(s, k, r) ==
  /\ pc[s] = "recv" /\ s \notin open /\ news[s] < MaxNews
  /\ CASE k = "id"      -> r \in Requests \ proxied /\ browser[r] = "continued"
       [] k = "options" -> r \in Subs \ proxied /\ browser[r] = "continued"
       [] OTHER         -> r = NoRequest

\* DoRequest_New up to the look at robots.txt.  sessions.Get reads the slot; the context of
\* a session that Fetch has not yet given one is nil, and using it panics.
ReceiveNew(s, k, r) ==
  /\ Sends(s, k, r)
  /\ news' = [news EXCEPT ![s] = @ + 1]
  /\ open' = open \cup {s}
  /\ kind' = [kind EXCEPT ![s] = k] /\ asked' = [asked EXCEPT ![s] = r]
  /\ proxied' = proxied \cup (IF k = "id" THEN {r} ELSE {})
  /\ \/ k = "direct" /\ sess' = [sess EXCEPT ![s] = "direct"] /\ To(s, "recv")
        /\ UNCHANGED bound
     \/ k # "direct" /\ ~slot /\ sess' = [sess EXCEPT ![s] = "nil"] /\ To(s, "recv")
        /\ UNCHANGED bound
     \/ k # "direct" /\ slot /\ sess' = [sess EXCEPT ![s] = "session"]
        /\ bound' = bound \cup {s}
        /\ To(s, IF ctx = "nil" THEN "panicked" ELSE "robots")
  /\ UNCHANGED <<sessionVars, req, cached, acked, lateAcks, directLogs>>

\* robotsEvaluator.IsAllowed
CheckRobots(s) ==
  /\ pc[s] = "robots"
  /\ To(s, "lookup") \/ To(s, "denied")
  /\ UNCHANGED <<sessionVars, sess, req, bound, kind, asked, cached, news, open, proxied,
                 acked, lateAcks, directLogs>>

\* GetByRequestId finds a registered request; GetByUrl(url, true) one without GotNew.
Found(s) ==
  IF \/ kind[s] = "id"      /\ asked[s] \in Registered
     \/ kind[s] = "options" /\ asked[s] \in Registered \ gotNew /\ pc[s] = "lookup"
  THEN asked[s] ELSE NoRequest

\* The request is looked up and marked, Notify is called unless the URL was used (only an
\* allowed preflight), and the reply is sent.
LookUp(s) ==
  /\ pc[s] \in {"lookup", "denied"}
  /\ pc[s] = "denied" \/ kind[s] \in {"id", "options", "unknown"}
  /\ IF ~HasRequests
     THEN To(s, "panicked") /\ UNCHANGED <<req, gotNew>>
     ELSE /\ req' = [req EXCEPT ![s] = Found(s)]
          /\ gotNew' = gotNew \cup ({Found(s)} \ {NoRequest})
          /\ To(s, IF Found(s) # NoRequest /\ kind[s] = "id" /\ ~NotifyOK
                   THEN "ended" ELSE "recv")
  /\ UNCHANGED <<slot, fetchVars, ctxVars, framesCancelled, registry, crawlLog, fromCache,
                 rootRequest, browser, stopped, warcLogs, aborted, sess, bound, kind, asked,
                 cached, news, open, proxied, acked, lateAcks, directLogs>>

\* CONNECT is answered, any other New without id is cancelled: no request is looked up, and
\* req keeps its value.
ReplyWithoutId(s) ==
  /\ pc[s] = "lookup" /\ kind[s] \in {"connect", "other"}
  /\ To(s, "recv")
  /\ UNCHANGED <<sessionVars, sess, req, bound, kind, asked, cached, news, open, proxied,
                 acked, lateAcks, directLogs>>

-----------------------------------------------------------------------------
(* DoRequest_Notify and DoRequest_Completed.                               *)

\* A notification changes something only when it ends the stream.
ReceiveNotify(s) ==
  /\ pc[s] = "recv" /\ s \in open
  /\ \/ sess[s] = "nil" /\ To(s, "ended")
     \/ sess[s] = "session" /\ req[s] # NoRequest /\ ~NotifyOK /\ To(s, "ended")
     \/ sess[s] = "direct" /\ req[s] # NoRequest /\ To(s, "panicked")
  /\ UNCHANGED <<sessionVars, sess, req, bound, kind, asked, cached, news, open, proxied,
                 acked, lateAcks, directLogs>>

\* Completed without a request: a direct session writes the log, a session only reports
\* that it misses the id, and without a session reading sess.Id panics.
CompletedWithoutRequest(s, c, w) ==
  /\ req[s] = NoRequest
  /\ To(s, IF sess[s] = "nil" THEN "panicked" ELSE "recv")
  /\ directLogs' = directLogs \cup (IF sess[s] = "direct" /\ ~c /\ w THEN {Log(s)} ELSE {})
  /\ UNCHANGED <<crawlLog, warcLogs, aborted>>

IsInitialIfAny(s) == registry # <<>> /\ registry[1] # NoRequest

\* sess.Requests.InitialRequest().RequestId == req.RequestId
IsInitial(s) == registry # <<>> /\ req[s] = registry[1]

\* Completed with a request: CrawlLog is set; a cached initial request aborts the fetch.
\* A stale req under another session ends in a nil pointer.
CompletedWithRequest(s, c, w) ==
  /\ req[s] # NoRequest
  /\ crawlLog' = [crawlLog EXCEPT ![req[s]] = Log(s)]
  /\ warcLogs' = warcLogs \cup (IF w THEN {Log(s)} ELSE {})
  /\ To(s, IF sess[s] # "session" THEN "panicked"
           ELSE IF c /\ IsInitial(s) THEN "stop" ELSE "complete")
  /\ aborted' = (aborted \/ (sess[s] = "session" /\ c /\ IsInitial(s) /\ fetch \in Loading))
  /\ UNCHANGED directLogs

ReceiveCompleted(s, c, w) ==
  /\ pc[s] = "recv" /\ s \in open
  /\ c => kind[s] \in {"id", "unknown", "direct"}
  /\ open' = open \ {s}
  /\ cached' = [cached EXCEPT ![s] = c]
  /\ CompletedWithoutRequest(s, c, w) \/ CompletedWithRequest(s, c, w)
  /\ UNCHANGED <<slot, fetchVars, ctxVars, framesCancelled, registry, fromCache, gotNew,
                 rootRequest, browser, stopped, sess, req, bound, kind, asked, news, proxied,
                 acked, lateAcks>>

\* AbortFetch: page.StopLoading through the browser, or not if it is gone ...
StopLoading(s) ==
  /\ pc[s] = "stop"
  /\ stopped' = (stopped \/ ctx = "live")
  /\ To(s, "cancelFrames")
  /\ UNCHANGED <<slot, fetchVars, ctxVars, framesCancelled, requestVars, rootRequest, browser,
                 warcLogs, aborted, sess, req, bound, kind, asked, cached, news, open, proxied,
                 acked, lateAcks, directLogs>>

\* ... then, deferred, frameWg.Cancel, which panics on a closed channel ...
CancelFrames(s) ==
  /\ pc[s] = "cancelFrames"
  /\ framesCancelled' = TRUE
  /\ IF framesCancelled
     THEN loadCtx' = CancelLoadIn(loadCtx) /\ To(s, "panicked")
     ELSE loadCtx' = loadCtx /\ To(s, "cancelLoad")
  /\ UNCHANGED <<slot, fetchVars, ctx, requestVars, rootRequest, browser, stopped, warcLogs,
                 aborted, sess, req, bound, kind, asked, cached, news, open, proxied, acked,
                 lateAcks, directLogs>>

\* ... and loadCancel.
CancelLoad(s) ==
  /\ pc[s] = "cancelLoad"
  /\ loadCtx' = CancelLoadIn(loadCtx)
  /\ To(s, "complete")
  /\ UNCHANGED <<slot, fetchVars, ctx, framesCancelled, requestVars, rootRequest, browser,
                 stopped, warcLogs, aborted, sess, req, bound, kind, asked, cached, news, open,
                 proxied, acked, lateAcks, directLogs>>

\* Fetch has collected the crawl logs, and has a page log to write or written one.
Harvested == pageLog \/ fetch \in {"pageLog", "outlinks"}

\* FromCache, GotComplete, Notify.
Complete(s) ==
  /\ pc[s] = "complete"
  /\ fromCache' = fromCache \cup (IF cached[s] THEN {req[s]} ELSE {})
  /\ IF NotifyOK THEN To(s, "recv") /\ acked' = acked \cup {Log(s)}
                 ELSE To(s, "ended") /\ acked' = acked
  /\ lateAcks' = lateAcks \cup (IF NotifyOK /\ Harvested THEN {Log(s)} ELSE {})
  /\ UNCHANGED <<slot, fetchVars, ctxVars, framesCancelled, registry, crawlLog, gotNew,
                 rootRequest, browser, stopped, warcLogs, aborted, sess, req, bound, kind,
                 asked, cached, news, open, proxied, directLogs>>

-----------------------------------------------------------------------------
(* The end of a stream: the proxy closes it, or Recv returns because of ctx. *)

EndStream(s) ==
  /\ pc[s] = "recv" /\ To(s, "ended")
  /\ UNCHANGED <<sessionVars, sess, req, bound, kind, asked, cached, news, open, proxied,
                 acked, lateAcks, directLogs>>

RecvCancelledIdle(s) == s \in bound \ open /\ ctx = "cancelled" /\ EndStream(s)

ProxyCloses(s)   == s \notin open /\ EndStream(s)
RecvCancelled(s) == s \in bound /\ ctx = "cancelled" /\ EndStream(s)
RecvDeadline(s)  == s \notin bound /\ EndStream(s)

\* The proxy answers the browser, with the resource or an error, when Do has let it.
Answer(r) ==
  /\ r \in proxied
  /\ \A s \in Streams : asked[s] = r /\ kind[s] = "id" => pc[s] \notin Handling
  /\ BrowserStep(r, "continued", "answered")
  /\ UNCHANGED <<requestVars, streamVars>>

-----------------------------------------------------------------------------
Ended ==
  /\ fetch = "released" /\ \A s \in Streams : pc[s] \in {"ended", "panicked"}
  /\ UNCHANGED vars

Receive(s) ==
  \/ \E k \in Kinds, r \in Requests \cup {NoRequest} : ReceiveNew(s, k, r)
  \/ ReceiveNotify(s)
  \/ \E c, w \in BOOLEAN : ReceiveCompleted(s, c, w)

Handle(s) ==
  \/ CheckRobots(s) \/ LookUp(s) \/ ReplyWithoutId(s)
  \/ StopLoading(s) \/ CancelFrames(s) \/ CancelLoad(s) \/ Complete(s)

SessionStep ==
  \/ FetchStep \/ LoadDeadline \/ SessionLost
  \/ \E r \in Requests : PauseRequest(r) \/ AddRequest(r) \/ ContinueRequest(r)

Next ==
  \/ SessionStep /\ UNCHANGED streamVars
  \/ \E s \in Streams : Receive(s) \/ Handle(s) \/ ProxyCloses(s) \/ RecvCancelled(s)
                        \/ RecvDeadline(s)
  \/ \E r \in Requests : Answer(r)
  \/ Ended

\* Goroutines run; clocks run; services answer.  A command to the browser returns for certain
\* only when the context of the session is over.  Nothing is assumed of the page (that it is
\* answered, or stops loading) or of the proxies.
Fairness ==
  /\ WF_vars(FetchRuns /\ UNCHANGED streamVars)
  /\ WF_vars(ctx # "live" /\ BrowserCall /\ UNCHANGED streamVars)
  /\ WF_vars(LoadDeadline /\ UNCHANGED streamVars)
  /\ \A s \in Streams : /\ WF_vars((pc[s] = "stop" => ctx # "live") /\ Handle(s))
                       /\ WF_vars(RecvCancelled(s)) /\ WF_vars(RecvDeadline(s))

Spec     == Init /\ [][Next]_vars
FairSpec == Spec /\ Fairness

-----------------------------------------------------------------------------
(* Properties.                                                             *)

\* The crawl log of a Completed that was answered without an error is among the logs Fetch
\* writes, if Fetch gets that far, unless a later message for the same request (a preflight
\* has the URL of the request it precedes) has taken its place.  Only when the browser could
\* not be closed may a message be answered too late for that.
AckedLogsHarvested ==
  Harvested => \A l \in acked \cap warcLogs :
                 \/ l \in crawlLogs
                 \/ \A r \in Requests : crawlLog[r] # l
                 \/ closeErr /\ l \in lateAcks

\* A request the browser was told to continue is known when the proxy asks about it: none
\* of the session's own requests is answered as "No request found"; and requests[0], which
\* decides on abort, on FromCache and on the page log, is the navigation.
RequestsInOrder ==
  /\ \A s \in Streams : pc[s] \in {"lookup", "denied"} /\ kind[s] = "id" => asked[s] \in Registered
  /\ registry # <<>> => registry[1] = Nav

\* A fetch that is aborted because the page is in the cache is never reported as a page
\* load that took too long.
AbortNotTimeout == aborted /\ result = "exceeded" => loadCtx = "deadline"

\* AbortFetch is not called a second time while it would panic on frameWg.cancel.
NoDoubleCancel == \A s \in Streams : pc[s] = "cancelFrames" => ~framesCancelled

\* Page and proxies do not keep Fetch: it returns and the session is released, unless the
\* browser for ever leaves one of the commands unanswered that have no deadline.
FetchEnds ==
  fetch = "config" ~> \/ fetch = "released"
                      \/ [](fetch \in BrowserCalls /\ ctx = "live")

\* When the browser context of the session is gone every stream that was bound to it ends,
\* also one in the middle of a handler (the graceful stop of the server waits for them).
BoundStreamsEnd ==
  \A s \in Streams : s \in bound /\ ctx = "cancelled" ~> pc[s] \in {"ended", "panicked"}
=============================================================================
