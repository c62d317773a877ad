------------------------------- MODULE Harvest -------------------------------
(***************************************************************************)
(* The end of Fetch (session/session.go 356-455) with the content of the   *)
(* crawl logs: FinalizeResponses gives each its discovery path, the        *)
(* screenshot goes to the content writer, Walk collects the logs, and the  *)
(* page log and the report to the frontier are made from them, while the   *)
(* API streams and the listener still add crawl logs, requests and         *)
(* initiators.  A page is the sequence of the requests it makes; in the    *)
(* model a request is its index, and 0 is nil.                             *)
(***************************************************************************)
EXTENDS Integers, Sequences

CONSTANTS
  Pages,      \* pages: sequences of records of net (NetworkId), url and ref (referrer) of a
              \* request, and whether what the proxy gets for it has a WarcId (warc)
  Seed,       \* DiscoveryPath of the requested URL
  LinkCounts  \* numbers of outlinks

ASSUME HarvestAssumption ==
  LinkCounts \subseteq Nat /\ \A p \in Pages : Len(p) \in Nat \ {0} /\ DOMAIN p = 1..Len(p)

VARIABLES
  page,       \* the page that is fetched
  added,      \* how many of its requests are in the registry
  path,       \* DiscoveryPath of their crawl logs
  arrived,    \* when those came
  parent,     \* RedirectParent
  root,       \* rootRequest
  pc,         \* where Fetch, and then PageCompleted, is
  at,         \* the request a loop is at
  last,       \* where the loop of FinalizeResponses ends
  shot,       \* what the content writer has got of the screenshot
  links,      \* number of outlinks
  crawlLogs,  \* requests whose crawl logs Walk has collected
  resources,  \* requests Walk has made resources
  pageLog,    \* the page log was handed to the log writer
  result,     \* of Fetch
  linkPath,   \* discovery path of the outlinks
  told        \* what the frontier has received

registryVars == <<page, added, path, arrived>>
finalVars    == <<parent, root, last>>
walkVars     == <<crawlLogs, resources, pageLog>>
resultVars   == <<result, linkPath, told>>
vars == <<registryVars, finalVars, pc, at, shot, links, walkVars, resultVars>>

Reqs       == DOMAIN page
HasLog(i)  == arrived[i] # "never"            \* CrawlLog # nil
HasWarc(i) == HasLog(i) /\ page[i].warc       \* CrawlLog.GetWarcId() # ""

\* The latest request up to i for which F holds.
Latest(i, F(_)) == LET S == {j \in 1..i : F(j)}
                   IN  IF S = {} THEN 0 ELSE CHOOSE j \in S : \A k \in S : k <= j
\* ids[rr.NetworkId] before it is set, urls[rr.Referrer] after urls[rr.Url] is set
SameId(i)   == LET F(j) == page[j].net = page[i].net IN Latest(i - 1, F)
Referrer(i) == LET F(j) == page[j].url = page[i].ref IN Latest(i, F)

TypeOK ==
  /\ page \in Pages /\ added \in 0..Len(page)
  /\ path \in [Reqs -> Seq({Seed, "X", "R", "E"})]
  /\ arrived \in [Reqs -> {"never", "early", "meanwhile", "late"}]
  /\ \A i \in Reqs : HasLog(i) => i <= added
  /\ parent \in [Reqs -> 0..Len(page)] /\ \A i \in Reqs : parent[i] < i
  /\ root \in 0..added /\ last \in 0..added
  /\ pc \in {"finalize", "screenshot", "outlinks", "close", "walk", "resource", "pageLog",
             "result", "report", "done"}
  /\ at \in 1..(Len(page) + 1)
  /\ shot \in {"nothing", "parts", "all"} /\ links \in LinkCounts \cup {0}
  /\ crawlLogs \subseteq 1..added /\ resources \subseteq 1..added /\ pageLog \in BOOLEAN
  /\ result \in {"none", "rendered", "error"}
  /\ linkPath \in Seq({Seed, "X", "R", "E", "L"})
  /\ told \in Seq({"error", "metrics", "outlink", "end"})

\* timer.WaitForCompletion has returned, in time or not, and some crawl logs are there.
\* Without any request FinalizeResponses panics, and Fetch recovers.
Init ==
  /\ page \in Pages /\ added \in 0..Len(page)
  /\ path = [i \in Reqs |-> <<>>]
  /\ arrived \in [Reqs -> {"never", "early"}] /\ \A i \in Reqs : HasLog(i) => i <= added
  /\ parent = [i \in Reqs |-> 0]
  /\ root = (IF added = 0 THEN 0 ELSE 1) /\ last = added /\ at = 1
  /\ shot = "nothing" /\ links = 0
  /\ crawlLogs = {} /\ resources = {} /\ pageLog = FALSE
  /\ linkPath = <<>> /\ told = <<>>
  /\ IF added = 0 THEN pc = "report" /\ result = "error" ELSE pc = "finalize" /\ result = "none"

Goto(where) == pc' = where
BrowserOpen == pc \in {"finalize", "screenshot", "outlinks", "close"}
GoOn == UNCHANGED <<registryVars, finalVars>>

-----------------------------------------------------------------------------
(* What the others do meanwhile.                                           *)

\* A Completed of the proxy; each request has one.  After chromedp.Cancel only a stream that is
\* already past NotifyOK can deliver it, or any if Cancel has failed.
Complete(i) ==
  /\ i <= added /\ ~HasLog(i) /\ pc \notin {"report", "done"}
  /\ arrived' = [arrived EXCEPT ![i] = IF BrowserOpen THEN "meanwhile" ELSE "late"]
  /\ UNCHANGED <<page, added, path, finalVars, pc, at, shot, links, walkVars, resultVars>>

\* EventRequestPaused; Walk holds the mutex, and later only the first request matters, also if
\* chromedp.Cancel has failed and the page goes on.
Add ==
  /\ added < Len(page) /\ added' = added + 1
  /\ BrowserOpen
  /\ UNCHANGED <<page, path, arrived, finalVars, pc, at, shot, links, walkVars, resultVars>>

-----------------------------------------------------------------------------
(* FinalizeResponses, one request at a time.                               *)

\* EventRequestWillBeSent sets the Initiator of the first request with its id: not that of a
\* redirect, and of no request if that has not been added yet.
Initiators(i) == IF SameId(i) = 0 THEN {"script", "other", ""} ELSE {""}

DiscoveryType(i, initiator, p) ==
  IF i = 1 THEN Seed
  ELSE IF initiator = "script" THEN "X"
  ELSE IF p # 0 THEN "R" ELSE "E"

Inherited(i, p) ==
  LET r == Referrer(i)
  IN  IF p # 0 /\ HasLog(p) THEN path[p] ELSE IF r # 0 /\ HasLog(r) THEN path[r] ELSE <<>>

\* ids is only set once for each id.
FirstWithId(i) == LET F(j) == page[j].net = page[i].net
                  IN  IF SameId(i) = 0 THEN 0 ELSE CHOOSE j \in 1..i : F(j) /\ SameId(j) = 0

\* ids is set before it is read.
OwnId(i) == LET F(j) == page[j].net = page[i].net IN Latest(i, F)

RedirectParent(i) == SameId(i)

FinalizeRequest ==
  /\ pc = "finalize" /\ at <= last
  /\ LET p == RedirectParent(at)
     IN  /\ parent' = [parent EXCEPT ![at] = p]
         /\ root' = IF p # 0 /\ p = root THEN at ELSE root
         /\ IF HasLog(at)
            THEN \E initiator \in Initiators(at) :
                   path' = [path EXCEPT ![at] =
                              Append(Inherited(at, p), DiscoveryType(at, initiator, p))]
            ELSE path' = path
  /\ at' = at + 1
  /\ UNCHANGED <<page, added, arrived, last, pc, shot, links, walkVars, resultVars>>

Finalized ==
  /\ pc = "finalize" /\ at > last /\ Goto("screenshot")
  /\ GoOn /\ UNCHANGED <<at, shot, links, walkVars, resultVars>>

-----------------------------------------------------------------------------
(* Screenshot, outlinks, cookies.                                          *)

\* Not asked for, from cache, not renderable, no crawl log, no WarcId, or not taken.
SkipScreenshot ==
  /\ pc = "screenshot" /\ Goto("outlinks")
  /\ GoOn /\ UNCHANGED <<at, shot, links, walkVars, resultVars>>

HasRecord(i) == HasWarc(i)

\* Write: image, metadata, headers, and the end; an error at any of them ends it.
WriteScreenshot ==
  /\ pc = "screenshot" /\ HasRecord(root) /\ Goto("outlinks")
  /\ shot' \in {"parts", "all"}
  /\ GoOn /\ UNCHANGED <<at, links, walkVars, resultVars>>

ExtractOutlinks ==
  /\ pc = "outlinks" /\ Goto("close")
  /\ links' \in LinkCounts
  /\ GoOn /\ UNCHANGED <<at, shot, walkVars, resultVars>>

\* chromedp.Cancel, whose error is only logged, then Walk takes the mutex.
CloseBrowser ==
  /\ pc = "close" /\ Goto("walk") /\ at' = 1
  /\ GoOn /\ UNCHANGED <<shot, links, walkVars, resultVars>>

-----------------------------------------------------------------------------
(* Walk, and the two logs.                                                 *)

\* The walk ends where FinalizeResponses has.
WalkEndStale == last

WalkEnd == added

\* r.CrawlLog is read to see whether it is to be written ...
WalkLog ==
  /\ pc = "walk" /\ at <= WalkEnd /\ Goto("resource")
  /\ crawlLogs' = crawlLogs \cup (IF HasWarc(at) THEN {at} ELSE {})
  /\ GoOn /\ UNCHANGED <<at, shot, links, resources, pageLog, resultVars>>

\* ... and again to see whether it makes a resource.
WalkResource ==
  /\ pc = "resource" /\ Goto("walk") /\ at' = at + 1
  /\ resources' = resources \cup (IF HasLog(at) THEN {at} ELSE {})
  /\ GoOn /\ UNCHANGED <<shot, links, crawlLogs, pageLog, resultVars>>

\* WriteCrawlLogs: an error is only logged.
WriteCrawlLogs ==
  /\ pc = "walk" /\ at > WalkEnd /\ Goto("pageLog")
  /\ GoOn /\ UNCHANGED <<at, shot, links, walkVars, resultVars>>

\* The missing crawl log of the initial request does not end Fetch.
WriteNoPageLog ==
  /\ pc = "pageLog"
  /\ pageLog' = HasLog(1) /\ Goto("result") /\ UNCHANGED result
  /\ GoOn /\ UNCHANGED <<at, shot, links, crawlLogs, resources, linkPath, told>>

\* WritePageLog likewise.  Without a crawl log of the initial request Fetch fails instead.
WritePageLog ==
  /\ pc = "pageLog"
  /\ \/ HasLog(1) /\ pageLog' = TRUE /\ Goto("result") /\ UNCHANGED result
     \/ ~HasLog(1) /\ result' = "error" /\ Goto("report") /\ UNCHANGED pageLog
  /\ GoOn /\ UNCHANGED <<at, shot, links, crawlLogs, resources, linkPath, told>>

\* Outlinks have the path of the root request; without its crawl log they make Fetch panic.
MakeResult ==
  /\ pc = "result" /\ Goto("report")
  /\ \/ /\ links = 0 \/ HasLog(root)
        /\ result' = "rendered"
        /\ linkPath' = IF links = 0 THEN <<>> ELSE Append(path[root], "L")
     \/ /\ links > 0 /\ ~HasLog(root)
        /\ result' = "error" /\ UNCHANGED linkPath
  /\ GoOn /\ UNCHANGED <<at, shot, links, walkVars, told>>

-----------------------------------------------------------------------------
(* PageCompleted (frontier/frontier.go 82-161).                            *)

Report ==
  IF result = "error" THEN <<"error", "end">>
  ELSE <<"metrics">> \o [i \in 1..links |-> "outlink"] \o <<"end">>

\* A message the frontier has taken.
SendReport ==
  /\ pc = "report" /\ told' = Append(told, Report[Len(told) + 1])
  /\ Goto(IF Len(told') = Len(Report) THEN "done" ELSE "report")
  /\ GoOn /\ UNCHANGED <<at, shot, links, walkVars, result, linkPath>>

\* The call cannot be made, a message not be sent, or the stream was ended by the frontier.
ReportFails ==
  /\ pc = "report" /\ Goto("done")
  /\ GoOn /\ UNCHANGED <<at, shot, links, walkVars, resultVars>>

-----------------------------------------------------------------------------
Next ==
  \/ \E i \in Reqs : Complete(i)
  \/ Add
  \/ FinalizeRequest \/ Finalized \/ SkipScreenshot \/ WriteScreenshot
  \/ ExtractOutlinks \/ CloseBrowser \/ WalkLog \/ WalkResource \/ WriteCrawlLogs
  \/ WritePageLog \/ MakeResult \/ SendReport \/ ReportFails

Spec == Init /\ [][Next]_vars

-----------------------------------------------------------------------------
(* Properties.                                                             *)

\* Where a request comes from: from where it was redirected, else from the referrer.
From == [i \in Reqs |-> IF SameId(i) # 0 THEN SameId(i) ELSE Referrer(i)]

\* The requests on the way from the first one to each; empty if the way does not lead there.
Ways(from) ==
  LET way[i \in DOMAIN from] ==
        IF i = 1 THEN <<1>>
        ELSE IF from[i] \in {0, i} \/ way[from[i]] = <<>> THEN <<>>
        ELSE Append(way[from[i]], i)
  IN  way

Way(i) == Ways(From)[i]

\* The crawl logs on that way were there in time.
InTime(way) == way # <<>> /\ \A k \in DOMAIN way : way[k] <= last /\ arrived[way[k]] = "early"

Leads(discovery, way) ==
  /\ Len(discovery) = Len(way) /\ discovery[1] = Seed
  /\ \A k \in 2..Len(way) : discovery[k] = "R" <=> SameId(way[k]) # 0

LastRedirect == LET F(j) == page[j].net = page[1].net IN Latest(last, F)

\* A crawl log that is written has a discovery path that starts with that of the requested URL
\* and has one letter for each step from there, R for the redirects; an outlink has that of the
\* document the redirects led to, and L: provided that the crawl logs on the way were there
\* when FinalizeResponses began, and whatever arrives, in whatever order, from then on.
PathsFromSeed ==
  /\ \A i \in crawlLogs : InTime(Way(i)) => Leads(path[i], Way(i))
  /\ linkPath # <<>> /\ InTime(Way(LastRedirect)) =>
       /\ linkPath[Len(linkPath)] = "L"
       /\ Leads(SubSeq(linkPath, 1, Len(linkPath) - 1), Way(LastRedirect))

\* What the session records agrees, though Walk reads each crawl log twice and requests and
\* crawl logs keep arriving: all logs from before the walk began are written and named as
\* resources, and a screenshot belongs to a crawl log that is written.
RecordsAgree ==
  pageLog =>
    /\ crawlLogs \subseteq resources
    /\ \A i \in 1..added : HasWarc(i) /\ arrived[i] # "late" => i \in crawlLogs
    /\ shot # "nothing" => root \in crawlLogs

\* The frontier that sees the end of a report has got an error alone, or the metrics and each
\* of the outlinks; it is an error only if the page has no page log, or if there are outlinks
\* and the crawl log of the root request was missing when the walk began.
ReportIsRight ==
  told # <<>> /\ told[Len(told)] = "end" =>
    \/ told = <<"error", "end">> /\ (~pageLog \/ (links > 0 /\ arrived[root] \in {"never", "late"}))
    \/ /\ pageLog /\ told[1] = "metrics" /\ Len(told) = links + 2
       /\ \A k \in 2..(links + 1) : told[k] = "outlink"
=============================================================================
