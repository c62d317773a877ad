---------------------------- MODULE HarvestProofs ----------------------------
(***************************************************************************)
(* What Fetch writes and reports agrees, and the discovery paths lead from  *)
(* the requested URL, for every page, every number of outlinks and every   *)
(* order in which crawl logs and requests arrive.                          *)
(***************************************************************************)
EXTENDS Harvest, SequenceTheorems, WellFoundedInduction, TLAPS

Positions == {"finalize", "screenshot", "outlinks", "close", "walk", "resource", "pageLog",
              "result", "report", "done"}

\* The types that the walk depends on; the discovery paths are not among them.
WalkTypes ==
  /\ page \in Pages /\ added \in 0..Len(page)
  /\ arrived \in [Reqs -> {"never", "early", "meanwhile", "late"}]
  /\ \A i \in Reqs : HasLog(i) => i <= added
  /\ last \in 0..added /\ at \in Nat \ {0} /\ pc \in Positions /\ links \in LinkCounts \cup {0}
  /\ shot \in {"nothing", "parts", "all"} /\ pageLog \in BOOLEAN
  /\ pc \notin {"report", "done"} => root \in 1..added

\* Up to where the walk has come what was there when it began is collected, and what is
\* collected is a resource, but for the one request it is at.
Walked ==
  LET seen  == IF pc = "walk" THEN at - 1 ELSE IF pc = "resource" THEN at ELSE added
      named == IF pc \in {"walk", "resource"} THEN at - 1 ELSE added
  IN  /\ crawlLogs \subseteq 1..seen /\ resources \subseteq 1..named
      /\ \A i \in crawlLogs : HasWarc(i)
      /\ \A i \in 1..seen : HasWarc(i) /\ arrived[i] # "late" => i \in crawlLogs
      /\ \A i \in 1..named : i \in crawlLogs => i \in resources

Afterwards == pc \in {"walk", "resource", "pageLog", "result"}

WalkInv ==
  /\ BrowserOpen => /\ crawlLogs = {} /\ resources = {} /\ ~pageLog
                    /\ \A i \in Reqs : arrived[i] # "late"
  /\ pc \in {"walk", "resource"} => ~pageLog /\ at <= added + 1 /\ (pc = "resource" => at <= added)
  /\ pc = "pageLog" => ~pageLog
  /\ Afterwards \/ pageLog => Walked
  /\ pc = "finalize" => shot = "nothing"
  /\ pc = "screenshot" => shot = "nothing"
  /\ shot # "nothing" => root \in 1..added /\ HasWarc(root) /\ arrived[root] # "late"

IInv == WalkTypes /\ WalkInv

\* A page has requests, and they are numbered.
LEMMA PageOps == WalkTypes => Len(page) \in Nat \ {0} /\ Reqs = 1..Len(page) /\ added \in Nat
  BY HarvestAssumption DEF WalkTypes, Reqs

\* timer.WaitForCompletion has returned.
LEMMA InitIInv == Init => IInv
  <1> SUFFICES ASSUME Init PROVE IInv
    OBVIOUS
  <1>1. Len(page) \in Nat \ {0} /\ Reqs = 1..Len(page) /\ added \in Nat
    BY HarvestAssumption DEF Init, Reqs
  <1>2. WalkTypes
    <2>1. pageLog \in BOOLEAN /\ arrived \in [Reqs -> {"never", "early", "meanwhile", "late"}]
      <3>1. pageLog \in BOOLEAN
        BY Zenon DEF Init
      <3> QED BY <3>1 DEF Init
    <2>2. /\ page \in Pages /\ added \in 0..Len(page) /\ last = added /\ at = 1 /\ links = 0
          /\ shot = "nothing" /\ pc \in Positions /\ \A i \in Reqs : HasLog(i) => i <= added
      BY DEF Init, Positions
    <2>3. pc \notin {"report", "done"} => root \in 1..added
      BY <1>1 DEF Init
    <2> QED BY <1>1, <2>1, <2>2, <2>3 DEF WalkTypes
  <1>3. pc \in {"finalize", "report"} /\ crawlLogs = {} /\ resources = {} /\ shot = "nothing"
        /\ \A i \in Reqs : arrived[i] # "late"
    BY DEF Init
  <1>4. ~pageLog
    BY Zenon DEF Init
  <1>5. WalkInv
    BY <1>3, <1>4 DEF WalkInv, BrowserOpen, Afterwards
  <1> QED BY <1>2, <1>5 DEF IInv

\* A crawl log that arrives after the browser has closed is a late one, wherever Walk is.
LEMMA CompleteIInv == ASSUME IInv, NEW i \in Reqs, Complete(i) PROVE IInv'
  <1> USE PageOps DEF IInv, Complete, finalVars, walkVars, resultVars
  <1>1. WalkTypes'
    BY DEF WalkTypes, HasLog, Reqs, BrowserOpen
  <1>2. WalkInv'
    BY DEF WalkTypes, WalkInv, Walked, HasLog, HasWarc, Reqs, BrowserOpen, Afterwards
  <1> QED BY <1>1, <1>2

\* A request that is added while the browser is open will be walked.
LEMMA AddIInv == ASSUME IInv, Add PROVE IInv'
  <1> USE PageOps DEF IInv, Add, finalVars, walkVars, resultVars
  <1>1. WalkTypes'
    BY DEF WalkTypes, HasLog, Reqs, BrowserOpen
  <1>2. WalkInv'
    BY DEF WalkTypes, WalkInv, HasLog, HasWarc, Reqs, BrowserOpen, Afterwards
  <1> QED BY <1>1, <1>2

\* FinalizeResponses only moves the root among the requests that are there.
LEMMA FinalizeIInv == ASSUME IInv, FinalizeRequest \/ Finalized PROVE IInv'
  <1> USE PageOps DEF IInv, registryVars, finalVars, walkVars, resultVars, GoOn, Goto
  <1>1. CASE FinalizeRequest
    <2>1. root' = at \/ root' = root
      BY <1>1 DEF FinalizeRequest
    <2>2. /\ pc = "finalize" /\ at <= last /\ at' = at + 1
          /\ UNCHANGED <<page, added, arrived, last, pc, shot, links, crawlLogs, resources, pageLog>>
      BY <1>1 DEF FinalizeRequest
    <2>3. WalkTypes'
      BY <2>1, <2>2 DEF WalkTypes, HasLog, Reqs
    <2> QED BY <2>1, <2>2, <2>3 DEF WalkInv, BrowserOpen, Afterwards, HasLog, HasWarc, Reqs
  <1>2. CASE Finalized
    BY <1>2 DEF Finalized, WalkTypes, WalkInv, BrowserOpen, Afterwards, HasLog, HasWarc, Reqs,
         Positions
  <1> QED BY <1>1, <1>2

\* Screenshot, outlinks and the end of the browser.
LEMMA BrowserIInv ==
  ASSUME IInv, SkipScreenshot \/ WriteScreenshot \/ ExtractOutlinks \/ CloseBrowser
  PROVE  IInv'
  <1> USE PageOps
          DEF IInv, registryVars, finalVars, walkVars, resultVars, GoOn, Goto, Positions, WalkTypes,
              WalkInv, BrowserOpen, Afterwards, HasLog, HasWarc, Reqs
  <1>1. CASE SkipScreenshot
    BY <1>1 DEF SkipScreenshot
  <1>2. CASE WriteScreenshot
    BY <1>2 DEF WriteScreenshot, HasRecord
  <1>3. CASE ExtractOutlinks
    BY <1>3 DEF ExtractOutlinks
  <1>4. CASE CloseBrowser
    BY <1>4 DEF CloseBrowser, Walked
  <1> QED BY <1>1, <1>2, <1>3, <1>4

\* The walk and what follows.
LEMMA WalkIInv ==
  ASSUME IInv,
         \/ WalkLog \/ WalkResource \/ WriteCrawlLogs \/ WritePageLog \/ MakeResult
         \/ SendReport \/ ReportFails
  PROVE  IInv'
  <1> USE PageOps
          DEF IInv, registryVars, finalVars, walkVars, resultVars, GoOn, Goto, Positions, WalkTypes,
              WalkInv, BrowserOpen, Afterwards, HasLog, HasWarc, Reqs, Walked
  <1>1. CASE WalkLog
    BY <1>1 DEF WalkLog, WalkEnd
  <1>2. CASE WalkResource
    <2>1. at \in 1..added /\ at' = at + 1 /\ pc = "resource" /\ pc' = "walk"
      BY <1>2 DEF WalkResource
    <2>2. UNCHANGED <<page, added, arrived, root, last, links, shot, pageLog, crawlLogs>>
      BY <1>2 DEF WalkResource
    <2>3. resources' = resources \cup (IF HasLog(at) THEN {at} ELSE {})
      BY <1>2 DEF WalkResource
    <2>4. WalkTypes'
      BY <2>1, <2>2
    <2>5. Walked'
      <3>1. crawlLogs' \subseteq 1..at /\ resources' \subseteq 1..at
        BY <2>1, <2>2, <2>3
      <3>2. \A i \in 1..at : HasWarc(i)' /\ arrived'[i] # "late" => i \in crawlLogs'
        BY <1>2, <2>1, <2>2 DEF WalkResource
      <3>3. \A i \in 1..at : i \in crawlLogs' => i \in resources'
        BY <1>2, <2>1, <2>2, <2>3 DEF WalkResource
      <3>4. \A i \in crawlLogs' : HasWarc(i)'
        BY <2>1, <2>2
      <3> QED BY <2>1, <2>2, <3>1, <3>2, <3>3, <3>4
    <2>6. WalkInv'
      BY <2>1, <2>2, <2>5
    <2> QED BY <2>4, <2>6
  <1>3. CASE WriteCrawlLogs
    BY <1>3 DEF WriteCrawlLogs, WalkEnd
  <1>4. CASE WritePageLog
    BY <1>4 DEF WritePageLog
  <1>5. CASE MakeResult
    BY <1>5 DEF MakeResult
  <1>6. CASE SendReport
    BY <1>6 DEF SendReport
  <1>7. CASE ReportFails
    BY <1>7 DEF ReportFails
  <1> QED BY <1>1, <1>2, <1>3, <1>4, <1>5, <1>6, <1>7

\* Every step keeps the invariant.
LEMMA NextIInv == IInv /\ [Next]_vars => IInv'
  <1> SUFFICES ASSUME IInv, [Next]_vars PROVE IInv'
    OBVIOUS
  <1>1. CASE UNCHANGED vars
    BY <1>1 DEF vars, registryVars, finalVars, walkVars, resultVars, IInv, WalkTypes, WalkInv,
         BrowserOpen, Afterwards, HasLog, HasWarc, Reqs, Walked
  <1> QED BY <1>1, CompleteIInv, AddIInv, FinalizeIInv, BrowserIInv, WalkIInv DEF Next

\* The invariant of the end of Fetch.
THEOREM SpecIInv == Spec => []IInv
  BY InitIInv, NextIInv, PTL DEF Spec

\* Crawl logs, resources and screenshot of a page that is logged agree (session.go 356-432).
THEOREM RecordsAlwaysAgree == Spec => []RecordsAgree
  <1>1. IInv => RecordsAgree
    BY PageOps DEF IInv, WalkTypes, WalkInv, Walked, RecordsAgree, BrowserOpen
  <1> QED BY <1>1, SpecIInv, PTL

-----------------------------------------------------------------------------
(* The report.                                                             *)

Messages == {"error", "metrics", "outlink", "end"}

\* What PageCompleted sends: the end comes last, and only there.
LEMMA ReportOps ==
  ASSUME links \in Nat
  PROVE  /\ result = "error" => Report = <<"error", "end">>
         /\ result # "error" => /\ Len(Report) = links + 2 /\ Report[1] = "metrics"
                                /\ \A k \in 2..(links + 1) : Report[k] = "outlink"
                                /\ Report[links + 2] = "end"
         /\ Report \in Seq(Messages)
  <1>1. result = "error" => Report = <<"error", "end">> /\ Report \in Seq(Messages)
    BY DEF Report, Messages
  <1>2. ASSUME result # "error"
        PROVE  /\ Len(Report) = links + 2 /\ Report[1] = "metrics" /\ Report \in Seq(Messages)
               /\ \A k \in 2..(links + 1) : Report[k] = "outlink"
               /\ Report[links + 2] = "end"
    <2> DEFINE first  == <<"metrics">>
               middle == [i \in 1..links |-> "outlink"]
               end    == <<"end">>
    <2>1. first \in Seq(Messages) /\ end \in Seq(Messages) /\ Len(first) = 1 /\ Len(end) = 1
          /\ first[1] = "metrics" /\ end[1] = "end"
      BY DEF Messages
    <2>2. middle \in Seq(Messages) /\ Len(middle) = links /\ \A i \in 1..links : middle[i] = "outlink"
      <3>1. middle \in [1..links -> Messages]
        BY DEF Messages
      <3>2. middle \in Seq(Messages)
        BY <3>1, SeqDef
      <3>3. Len(middle) \in Nat /\ DOMAIN middle = 1..Len(middle)
        BY <3>2, LenProperties
      <3>4. Len(middle) = links
        BY <3>3
      <3> QED BY <3>2, <3>4
    <2> HIDE DEF first, middle, end
    <2>3. /\ first \o middle \in Seq(Messages) /\ Len(first \o middle) = links + 1
          /\ (first \o middle)[1] = "metrics"
          /\ \A k \in 2..(links + 1) : (first \o middle)[k] = "outlink"
      <3>1. /\ first \o middle \in Seq(Messages) /\ Len(first \o middle) = Len(first) + Len(middle)
            /\ \A i \in 1..(Len(first) + Len(middle)) :
                 (first \o middle)[i] = IF i <= Len(first) THEN first[i] ELSE middle[i - Len(first)]
        BY <2>1, <2>2, ConcatProperties, Zenon
      <3> QED BY <2>1, <2>2, <3>1
    <2>4. Report = (first \o middle) \o end
      BY <1>2 DEF Report, first, middle, end
    <2> DEFINE start == first \o middle
    <2>5. start \in Seq(Messages) /\ Len(start) = links + 1 /\ start[1] = "metrics"
          /\ (\A k \in 2..(links + 1) : start[k] = "outlink") /\ Report = start \o end
      BY <2>3, <2>4
    <2> HIDE DEF start
    <2>6. /\ Len(Report) = Len(start) + 1 /\ Report \in Seq(Messages)
          /\ \A k \in 1..(links + 2) : Report[k] = IF k <= links + 1 THEN start[k] ELSE end[k - (links + 1)]
      <3>1. /\ start \o end \in Seq(Messages) /\ Len(start \o end) = Len(start) + Len(end)
            /\ \A i \in 1..(Len(start) + Len(end)) :
                 (start \o end)[i] = IF i <= Len(start) THEN start[i] ELSE end[i - Len(start)]
        BY <2>1, <2>5, ConcatProperties, Zenon
      <3> QED BY <2>1, <2>5, <3>1
    <2> QED BY <2>1, <2>5, <2>6
  <1> QED BY <1>1, <1>2

\* What has been told is what there is to tell so far, and that is an error only if something
\* is missing.
Telling ==
  /\ pc \notin {"report", "done"} => told = <<>> /\ result = "none"
  /\ pc = "result" => pageLog
  /\ pc \in {"report", "done"} =>
       /\ \/ result = "rendered" /\ pageLog
          \/ result = "error" /\ ~pageLog
          \/ result = "error" /\ links > 0 /\ arrived[root] \in {"never", "late"}
       /\ told \in Seq(Messages) /\ Len(told) <= Len(Report)
       /\ pc = "report" => Len(told) < Len(Report)
       /\ \A k \in 1..Len(told) : told[k] = Report[k]

\* Every step of Fetch and of PageCompleted keeps to it.
LEMMA NextTelling == IInv /\ Telling /\ [Next]_vars => Telling'
  <1> SUFFICES ASSUME IInv, Telling, [Next]_vars PROVE Telling'
    OBVIOUS
  <1>0. links \in Nat
    BY HarvestAssumption DEF IInv, WalkTypes
  <1> USE DEF registryVars, finalVars, walkVars, resultVars, GoOn, Goto
  <1>1. ASSUME NEW i \in Reqs, Complete(i) PROVE Telling'
    BY <1>1 DEF Complete, Telling
  <1>2. CASE Add \/ FinalizeRequest \/ Finalized \/ SkipScreenshot \/ WriteScreenshot
             \/ ExtractOutlinks \/ CloseBrowser \/ WalkLog \/ WalkResource \/ WriteCrawlLogs
    BY <1>2 DEF Add, FinalizeRequest, Finalized, SkipScreenshot, WriteScreenshot, ExtractOutlinks,
         CloseBrowser, WalkLog, WalkResource, WriteCrawlLogs, Telling, BrowserOpen
  <1>3. CASE WritePageLog
    <2>1. told = <<>> /\ told' = <<>> /\ links' = links
      BY <1>3 DEF WritePageLog, Telling
    <2>2. CASE pc' = "result"
      BY <1>3, <2>1, <2>2 DEF WritePageLog, Telling
    <2>3. CASE pc' = "report"
      <3>1. result' = "error" /\ ~pageLog'
        BY <1>3, <2>3 DEF WritePageLog, IInv, WalkInv
      <3>2. Report' = <<"error", "end">>
        BY <3>1 DEF Report
      <3> QED BY <2>1, <2>3, <3>1, <3>2 DEF Telling, Messages
    <2> QED BY <1>3, <2>2, <2>3 DEF WritePageLog
  <1>4. CASE MakeResult
    <2>1. told' = <<>> /\ links' = links /\ pageLog' = pageLog /\ pageLog /\ pc' = "report"
      BY <1>4 DEF MakeResult, Telling
    <2>2. Len(Report') >= 2
      <3>1. CASE result' = "error"
        BY <3>1 DEF Report
      <3>2. CASE result' # "error"
        <4>1. Report' = <<"metrics">> \o [i \in 1..links |-> "outlink"] \o <<"end">>
          BY <2>1, <3>2 DEF Report
        <4>2. result # "error"
          BY <1>4 DEF MakeResult, Telling
        <4>3. Report' = Report
          BY <4>1, <4>2 DEF Report
        <4> QED BY <1>0, <4>2, <4>3, ReportOps
      <3> QED BY <3>1, <3>2
    <2>3. \/ result' = "rendered"
          \/ result' = "error" /\ links > 0 /\ arrived'[root'] = "never"
      BY <1>4 DEF MakeResult, HasLog
    <2> QED BY <2>1, <2>2, <2>3 DEF Telling, Messages
  <1>5. CASE SendReport
    <2>1. Report' = Report /\ pc = "report" /\ UNCHANGED <<links, result, pageLog, arrived, root>>
      BY <1>5 DEF SendReport, Report
    <2>2. Report \in Seq(Messages) /\ told \in Seq(Messages) /\ Len(told) < Len(Report)
      BY <1>0, <2>1, ReportOps DEF Telling
    <2>3. Report[Len(told) + 1] \in Messages /\ told' = Append(told, Report[Len(told) + 1])
      BY <1>5, <2>2 DEF SendReport
    <2>4. /\ told' \in Seq(Messages) /\ Len(told') = Len(told) + 1
          /\ (\A k \in 1..Len(told) : told'[k] = told[k]) /\ told'[Len(told) + 1] = Report[Len(told) + 1]
      BY <2>2, <2>3
    <2>5. Len(told') <= Len(Report') /\ (pc' = "report" => Len(told') < Len(Report'))
      BY <1>5, <2>1, <2>2, <2>4 DEF SendReport
    <2>6. \A k \in 1..Len(told') : told'[k] = Report'[k]
      BY <2>1, <2>2, <2>4 DEF Telling
    <2>7. pc' \in {"report", "done"}
      BY <1>5 DEF SendReport
    <2> QED BY <2>1, <2>4, <2>5, <2>6, <2>7 DEF Telling
  <1>6. CASE ReportFails
    BY <1>6 DEF ReportFails, Telling, Report
  <1>7. CASE UNCHANGED vars
    BY <1>7 DEF vars, Telling, Report
  <1> QED BY <1>1, <1>2, <1>3, <1>4, <1>5, <1>6, <1>7 DEF Next

\* Nothing has been told when the end of Fetch begins, or Fetch has failed with no request.
LEMMA InitTelling == Init => Telling
  <1> SUFFICES ASSUME Init PROVE Telling
    OBVIOUS
  <1>1. told = <<>> /\ pc # "result" /\ pc # "done"
    BY DEF Init
  <1>2. CASE added = 0
    <2>1. ~pageLog
      BY Zenon DEF Init
    <2>2. pc = "report" /\ result = "error"
      BY <1>2 DEF Init
    <2>3. Report = <<"error", "end">>
      BY <2>2 DEF Report
    <2> QED BY <1>1, <2>1, <2>2, <2>3 DEF Telling, Messages
  <1>3. CASE added # 0
    BY <1>1, <1>3 DEF Init, Telling
  <1> QED BY <1>2, <1>3

\* The frontier that sees the end has an error alone, or the metrics and every outlink
\* (frontier.go 82-161, session.go 409-455).
THEOREM ReportsAreRight == Spec => []ReportIsRight
  <1>1. IInv /\ Telling => ReportIsRight
    <2> SUFFICES ASSUME IInv, Telling, told # <<>>, told[Len(told)] = "end"
                 PROVE  \/ /\ told = <<"error", "end">>
                           /\ ~pageLog \/ (links > 0 /\ arrived[root] \in {"never", "late"})
                        \/ /\ pageLog /\ told[1] = "metrics" /\ Len(told) = links + 2
                           /\ \A k \in 2..(links + 1) : told[k] = "outlink"
      BY DEF ReportIsRight
    <2>1. links \in Nat
      BY HarvestAssumption DEF IInv, WalkTypes
    <2>2. /\ told \in Seq(Messages) /\ Len(told) \in 1..Len(Report)
          /\ \A k \in 1..Len(told) : told[k] = Report[k]
      BY DEF Telling
    <2>3. CASE result = "error"
      <3>1. Report = <<"error", "end">>
        BY <2>3 DEF Report
      <3>2. Len(told) = 2 /\ told[1] = "error" /\ told[2] = "end"
        BY <2>2, <3>1
      <3>3. told = <<"error", "end">>
        BY <2>2, <3>2
      <3> QED BY <2>3, <3>3 DEF Telling
    <2>4. CASE result # "error"
      <3>1. Len(told) = links + 2
        BY <2>1, <2>2, <2>4, ReportOps
      <3> QED BY <2>1, <2>2, <2>4, <3>1, ReportOps DEF Telling
    <2> QED BY <2>3, <2>4
  <1> QED BY <1>1, SpecIInv, InitTelling, NextTelling, PTL DEF Spec

-----------------------------------------------------------------------------
(* Ways, and greatest elements.                                            *)

\* One step of the recursion.
WayStep(way, from, i) ==
  IF i = 1 THEN <<1>>
  ELSE IF from[i] \in {0, i} \/ way[from[i]] = <<>> THEN <<>>
  ELSE Append(way[from[i]], i)

\* The order that Nat is well-founded by.
Below == {pair \in Nat \X Nat : pair[1] < pair[2]}

\* Every set of numbers that is not empty has a least one: this stands in for induction.
LEMMA Least == ASSUME NEW S \in SUBSET Nat, S # {} PROVE \E x \in S : \A y \in S : x <= y
  <1>1. IsWellFoundedOn(Below, Nat)
    BY NatLessThanWellFounded DEF OpToRel, Below
  <1>2. \E x \in S : \A y \in S : ~(<<y, x>> \in Below)
    <2>1. S \subseteq Nat
      OBVIOUS
    <2> QED BY <1>1, <2>1, WFMin, Zenon
  <1>3. \A x, y \in Nat : <<y, x>> \notin Below => x <= y
    <2> SUFFICES ASSUME NEW x \in Nat, NEW y \in Nat, y < x PROVE <<y, x>> \in Below
      OBVIOUS
    <2> QED BY DEF Below
  <1>4. \A x \in S : x \in Nat
    OBVIOUS
  <1> QED BY <1>2, <1>3, <1>4, Zenon

\* The recursion has a solution, since a request never comes from a later one ...
LEMMA WaysExist ==
  ASSUME NEW n \in Nat, NEW from \in [1..n -> Nat], \A i \in 1..n : from[i] <= i
  PROVE  \E way : way = [i \in 1..n |-> WayStep(way, from, i)]
  <1> DEFINE Good(m) == \E way : way = [i \in 1..m |-> WayStep(way, from, i)]
             Bad == {m \in 0..n : ~Good(m)}
  <1> SUFFICES ASSUME Bad # {} PROVE FALSE
    <2>1. n \notin Bad => Good(n)
      OBVIOUS
    <2> QED BY <2>1, Zenon
  <1>1. PICK m \in Bad : \A k \in Bad : m <= k
    <2>1. Bad \in SUBSET Nat
      OBVIOUS
    <2> HIDE DEF Bad
    <2> QED BY <2>1, Least
  <1>2. Good(0)
    <2> DEFINE g == [i \in 1..0 |-> <<>>]
    <2>1. g = [i \in 1..0 |-> WayStep(g, from, i)]
      OBVIOUS
    <2> QED BY <2>1
  <1>3. m \in 1..n
    <2>1. m \in 0..n /\ ~Good(m)
      OBVIOUS
    <2>2. m # 0
      BY <1>2, <2>1
    <2> HIDE DEF Good
    <2> QED BY <2>1, <2>2
  <1>4. Good(m - 1)
    <2>1. m - 1 \in 0..n /\ ~(m <= m - 1)
      BY <1>3
    <2> QED BY <1>1, <2>1, Zenon
  <1>5. PICK g : g = [i \in 1..(m - 1) |-> WayStep(g, from, i)]
    BY <1>4
  <1> DEFINE h == [i \in 1..m |-> IF i < m THEN g[i] ELSE WayStep(g, from, i)]
  <1>6. \A i \in 1..m : h[i] = WayStep(h, from, i)
    <2> TAKE i \in 1..m
    <2>1. h[i] = WayStep(g, from, i)
      BY <1>3, <1>5
    <2>2. from[i] \in 1..(m - 1) \/ from[i] \in {0, i}
      BY <1>3
    <2>3. from[i] \in 1..(m - 1) => h[from[i]] = g[from[i]]
      BY <1>3
    <2> HIDE DEF h
    <2> QED BY <2>1, <2>2, <2>3 DEF WayStep
  <1>7. h = [i \in 1..m |-> WayStep(h, from, i)]
    <2>1. h = [i \in 1..m |-> h[i]]
      OBVIOUS
    <2> HIDE DEF h
    <2> QED BY <2>1, <1>6
  <1> HIDE DEF h
  <1>8. Good(m)
    BY <1>7
  <1> QED BY <1>1, <1>8

\* ... and Ways is one.
LEMMA WaysStep ==
  ASSUME NEW n \in Nat, NEW from \in [1..n -> Nat], \A i \in 1..n : from[i] <= i
  PROVE  Ways(from) = [i \in 1..n |-> WayStep(Ways(from), from, i)]
  <1>1. DOMAIN from = 1..n
    OBVIOUS
  <1>2. \E way : way = [i \in DOMAIN from |-> WayStep(way, from, i)]
    BY WaysExist
  <1>3. Ways(from) = CHOOSE way : way = [i \in DOMAIN from |-> WayStep(way, from, i)]
    BY Zenon DEF Ways, WayStep
  <1> QED BY <1>1, <1>2, <1>3, Zenon

\* Each way ends at its request and has gone up to there.
LEMMA WaysLead ==
  ASSUME NEW n \in Nat, NEW from \in [1..n -> Nat], \A i \in 1..n : from[i] <= i
  PROVE  \A i \in 1..n : /\ Ways(from)[i] \in Seq(1..n)
                         /\ Ways(from)[i] # <<>> => Ways(from)[i][Len(Ways(from)[i])] = i
  <1> DEFINE W == Ways(from)
             Right(i) == W[i] \in Seq(1..n) /\ (W[i] # <<>> => W[i][Len(W[i])] = i)
             Bad == {i \in 1..n : ~Right(i)}
  <1>1. \A i \in 1..n : W[i] = WayStep(W, from, i)
    <2>1. W = [i \in 1..n |-> WayStep(W, from, i)]
      BY WaysStep
    <2> HIDE DEF W
    <2> QED BY <2>1, Zenon
  <1> SUFFICES ASSUME Bad # {} PROVE FALSE
    OBVIOUS
  <1> HIDE DEF W
  <1>2. PICK i \in Bad : \A k \in Bad : i <= k
    <2>1. Bad \in SUBSET Nat
      OBVIOUS
    <2> HIDE DEF Bad
    <2> QED BY <2>1, Least
  <1>3. i \in 1..n /\ ~Right(i)
    BY <1>2
  <1>4. \A k \in 1..(i - 1) : Right(k)
    <2> TAKE k \in 1..(i - 1)
    <2>1. k \in 1..n /\ ~(i <= k)
      BY <1>3
    <2> HIDE DEF Right
    <2> QED BY <1>2, <2>1
  <1> HIDE DEF Bad
  <1>5. CASE i = 1
    BY <1>1, <1>3, <1>5 DEF WayStep
  <1>6. CASE i # 1 /\ (from[i] \in {0, i} \/ W[from[i]] = <<>>)
    <2>1. W[i] = <<>>
      BY <1>1, <1>3, <1>6, Zenon DEF WayStep
    <2> QED BY <1>3, <2>1
  <1>7. CASE i # 1 /\ ~(from[i] \in {0, i} \/ W[from[i]] = <<>>)
    <2>1. from[i] \in 1..(i - 1) /\ W[i] = Append(W[from[i]], i)
      <3>1. from[i] \in Nat /\ from[i] <= i /\ from[i] # 0 /\ from[i] # i
        BY <1>3, <1>7
      <3>2. W[i] = Append(W[from[i]], i)
        BY <1>1, <1>3, <1>7, Zenon DEF WayStep
      <3> QED BY <1>3, <3>1, <3>2
    <2>2. W[from[i]] \in Seq(1..n)
      BY <1>4, <2>1
    <2> QED BY <1>3, <2>1, <2>2
  <1> QED BY <1>5, <1>6, <1>7

\* What Latest is made of, without an operator as parameter.
Greatest(S) == IF S = {} THEN 0 ELSE CHOOSE j \in S : \A k \in S : k <= j

\* A bounded set of numbers has a greatest one.
LEMMA GreatestIs ==
  ASSUME NEW n \in Nat, NEW S \in SUBSET (1..n)
  PROVE  /\ Greatest(S) \in 0..n /\ (Greatest(S) = 0 <=> S = {})
         /\ S # {} => Greatest(S) \in S
         /\ \A k \in S : k <= Greatest(S)
  <1>1. CASE S = {}
    BY <1>1 DEF Greatest
  <1>2. CASE S # {}
    <2> DEFINE T == {t \in 0..n : n - t \in S}
    <2>0. \A k \in S : k \in 1..n
      OBVIOUS
    <2>1. T \in SUBSET Nat /\ T # {}
      <3>1. PICK k \in S : TRUE
        BY <1>2
      <3>2. n - k \in 0..n /\ n - (n - k) = k
        BY <2>0
      <3>3. n - k \in T
        BY <3>1, <3>2
      <3>4. T \in SUBSET Nat
        OBVIOUS
      <3> QED BY <3>3, <3>4, Zenon
    <2>2. PICK t \in T : \A u \in T : t <= u
      <3> HIDE DEF T
      <3> QED BY <2>1, Least
    <2>3. n - t \in S
      OBVIOUS
    <2>4. \A k \in S : k <= n - t
      <3> TAKE k \in S
      <3>1. n - k \in 0..n /\ n - (n - k) = k
        BY <2>0
      <3>2. t <= n - k
        BY <2>2, <3>1
      <3> QED BY <2>0, <3>2
    <2>5. Greatest(S) \in S /\ \A k \in S : k <= Greatest(S)
      BY <1>2, <2>3, <2>4, Zenon DEF Greatest
    <2>6. Greatest(S) \in 1..n
      BY <2>0, <2>5
    <2>7. Greatest(S) \in 0..n /\ Greatest(S) # 0
      BY <2>6
    <2> QED BY <1>2, <2>5, <2>7
  <1> QED BY <1>1, <1>2

\* The requests SameId and Referrer choose from.
SameIds(i)   == {j \in 1..(i - 1) : page[j].net = page[i].net}
Referrers(i) == {j \in 1..i : page[j].url = page[i].ref}

\* The latest is the greatest.
LEMMA Parents ==
  ASSUME NEW i \in Nat
  PROVE  SameId(i) = Greatest(SameIds(i)) /\ Referrer(i) = Greatest(Referrers(i))
  BY DEF SameId, Referrer, Latest, Greatest, SameIds, Referrers

\* The ways depend on the page alone, which stays.
LEMMA SameParents ==
  ASSUME page' = page
  PROVE  /\ \A i : SameId(i)' = SameId(i) /\ Referrer(i)' = Referrer(i) /\ Way(i)' = Way(i)
         /\ Reqs' = Reqs
  <1>1. \A i : SameId(i)' = SameId(i) /\ Referrer(i)' = Referrer(i)
    BY DEF SameId, Referrer, Latest
  <1>2. From' = From
    BY <1>1, Zenon DEF From, Reqs
  <1> QED BY <1>1, <1>2, Zenon DEF Way, Reqs

-----------------------------------------------------------------------------
(* The discovery paths.                                                    *)

\* The letters of the path of a crawl log.
Letters == {Seed, "X", "R", "E"}

\* Where requests come from, and the way to them.
LEMMA WayOps ==
  ASSUME page \in Pages
  PROVE  /\ \A i \in Reqs : SameId(i) \in 0..(i - 1) /\ Referrer(i) \in 0..i
         /\ \A i \in Reqs : Way(i) \in Seq(Reqs) /\ (Way(i) # <<>> => Way(i)[Len(Way(i))] = i)
         /\ \A i \in Reqs : i = 1 => Way(i) = <<1>>
         /\ \A i \in Reqs : i # 1 /\ Way(i) # <<>> =>
              /\ From[i] \in 1..(i - 1) /\ Way(From[i]) # <<>> /\ Way(i) = Append(Way(From[i]), i)
              /\ From[i] = IF SameId(i) # 0 THEN SameId(i) ELSE Referrer(i)
  <1>1. Len(page) \in Nat \ {0} /\ Reqs = 1..Len(page)
    BY HarvestAssumption DEF Reqs
  <1>2. \A i \in Reqs : SameId(i) \in 0..(i - 1) /\ Referrer(i) \in 0..i
    <2> TAKE i \in Reqs
    <2>1. i \in Nat /\ i - 1 \in Nat
      BY <1>1
    <2>2. SameIds(i) \in SUBSET (1..(i - 1)) /\ Referrers(i) \in SUBSET (1..i)
      BY DEF SameIds, Referrers
    <2>3. Greatest(SameIds(i)) \in 0..(i - 1)
      BY <2>1, <2>2, GreatestIs
    <2>4. Greatest(Referrers(i)) \in 0..i
      BY <2>1, <2>2, GreatestIs
    <2> QED BY <2>1, <2>3, <2>4, Parents
  <1>3. \A i \in Reqs : From[i] = IF SameId(i) # 0 THEN SameId(i) ELSE Referrer(i)
    BY DEF From
  <1>4. From = [i \in Reqs |-> From[i]]
    BY DEF From
  <1>5. \A i \in Reqs : From[i] \in Nat /\ From[i] <= i
    BY <1>1, <1>2, <1>3
  <1>6. From \in [1..Len(page) -> Nat]
    BY <1>1, <1>4, <1>5
  <1>7. \A i \in Reqs : Way(i) \in Seq(Reqs) /\ (Way(i) # <<>> => Way(i)[Len(Way(i))] = i)
    <2>1. \A i \in 1..Len(page) : From[i] <= i
      BY <1>1, <1>5
    <2> QED BY <1>1, <1>6, <2>1, WaysLead DEF Way
  <1>8. \A i \in Reqs : Way(i) = WayStep(Ways(From), From, i)
    <2>1. \A i \in 1..Len(page) : From[i] <= i
      BY <1>1, <1>5
    <2>2. Ways(From) = [i \in 1..Len(page) |-> WayStep(Ways(From), From, i)]
      BY <1>1, <1>6, <2>1, WaysStep
    <2>3. \A i \in 1..Len(page) : Ways(From)[i] = WayStep(Ways(From), From, i)
      BY <2>2, Zenon
    <2> QED BY <1>1, <2>3, Zenon DEF Way
  <1>9. ASSUME NEW i \in Reqs, i # 1, Way(i) # <<>>
        PROVE  From[i] \in 1..(i - 1) /\ Way(From[i]) # <<>> /\ Way(i) = Append(Way(From[i]), i)
    <2>1. /\ ~(From[i] \in {0, i} \/ Ways(From)[From[i]] = <<>>)
          /\ Way(i) = Append(Ways(From)[From[i]], i)
      BY <1>8, <1>9, Zenon DEF WayStep
    <2>2. From[i] \in 1..(i - 1)
      <3>1. From[i] # 0 /\ From[i] # i
        BY <2>1
      <3> QED BY <1>1, <1>5, <1>9, <3>1
    <2> QED BY <2>1, <2>2, Zenon DEF Way
  <1>10. \A i \in Reqs : i = 1 => Way(i) = <<1>>
    BY <1>8, Zenon DEF WayStep
  <1> QED BY <1>2, <1>3, <1>7, <1>9, <1>10

\* The request the redirects of the first one lead to.
LEMMA LastRedirectIs ==
  ASSUME page \in Pages, NEW r \in 1..last, last \in Nat, page[r].net = page[1].net,
         \A j \in 1..last : page[j].net = page[1].net => j <= r
  PROVE  LastRedirect = r
  <1> DEFINE S == {j \in 1..last : page[j].net = page[1].net}
  <1>1. LastRedirect = Greatest(S)
    BY DEF LastRedirect, Latest, Greatest
  <1>2. r \in S /\ S \in SUBSET (1..last) /\ \A j \in S : j <= r
    OBVIOUS
  <1> HIDE DEF S
  <1>3. Greatest(S) \in S /\ r <= Greatest(S) /\ Greatest(S) <= r
    BY <1>2, GreatestIs
  <1>4. r \in Nat /\ Greatest(S) \in Nat
    <2>1. Greatest(S) \in 0..last
      BY <1>2, GreatestIs
    <2> QED BY <2>1
  <1>5. Greatest(S) = r
    BY <1>3, <1>4
  <1> QED BY <1>1, <1>5, Zenon

\* The path of a crawl log that is on time follows the way to its request ...
FromSeed(i) == InTime(Way(i)) => Leads(path[i], Way(i))

\* ... as soon as FinalizeResponses has come by, and not before.
Paths ==
  /\ path \in [Reqs -> Seq(Letters)]
  /\ \A i \in Reqs : pc # "finalize" \/ i < at => FromSeed(i)
  /\ \A i \in Reqs : pc = "finalize" /\ i >= at => path[i] = <<>>

\* What is in time was there before.
LEMMA StaysFromSeed ==
  ASSUME WalkTypes, NEW i \in Reqs, FromSeed(i), page' = page, last' = last, path'[i] = path[i],
         \A j \in Reqs : arrived'[j] = "early" => arrived[j] = "early"
  PROVE  FromSeed(i)'
  <1>1. Way(i)' = Way(i) /\ \A j : SameId(j)' = SameId(j)
    BY SameParents
  <1>2. Way(i) \in Seq(Reqs)
    BY WayOps DEF WalkTypes
  <1>3. InTime(Way(i))' => InTime(Way(i))
    BY <1>1, <1>2 DEF InTime
  <1>4. Leads(path[i], Way(i)) => Leads(path[i], Way(i))'
    BY <1>1 DEF Leads
  <1> QED BY <1>1, <1>3, <1>4 DEF FromSeed

\* A request is given the path of where it comes from and one letter.
LEMMA GetsPath ==
  ASSUME IInv, Paths, FinalizeRequest, NEW i \in Reqs, i = at
  PROVE  FromSeed(i)'
  <1>1. page \in Pages /\ i \in Nat \ {0} /\ pc = "finalize"
    BY PageOps DEF IInv, WalkTypes, FinalizeRequest
  <1>2. page' = page /\ arrived' = arrived /\ last' = last
    BY DEF FinalizeRequest
  <1>3. Way(i)' = Way(i) /\ \A j : SameId(j)' = SameId(j)
    BY <1>2, SameParents
  <1>4. InTime(Way(i))' = InTime(Way(i))
    BY <1>2, <1>3 DEF InTime
  <1> SUFFICES ASSUME InTime(Way(i)) PROVE Leads(path'[i], Way(i))
    <2>1. Leads(path'[i], Way(i)) => Leads(path[i], Way(i))'
      BY <1>3 DEF Leads
    <2> QED BY <1>4, <2>1, Zenon DEF FromSeed
  <1>5. Way(i) \in Seq(Reqs) /\ Way(i) # <<>> /\ Way(i)[Len(Way(i))] = i
    BY <1>1, WayOps DEF InTime
  <1>6. HasLog(i)
    <2>1. Len(Way(i)) \in DOMAIN Way(i)
      BY <1>5
    <2> QED BY <1>5, <2>1 DEF InTime, HasLog
  <1>7. PICK initiator \in Initiators(i) :
          path'[i] = Append(Inherited(i, SameId(i)), DiscoveryType(i, initiator, SameId(i)))
    <2>1. PICK initiator \in Initiators(i) :
            path' = [path EXCEPT ![i] =
                       Append(Inherited(i, SameId(i)), DiscoveryType(i, initiator, SameId(i)))]
      BY <1>6, Zenon DEF FinalizeRequest, RedirectParent
    <2> QED BY <2>1 DEF Paths
  <1>8. CASE i = 1
    <2>1. SameId(i) = 0 /\ Referrer(i) \in {0, i}
      BY <1>1, <1>8, WayOps
    <2>2. path[i] = <<>>
      BY <1>1 DEF Paths
    <2>3. Inherited(i, SameId(i)) = <<>>
      BY <2>1, <2>2 DEF Inherited
    <2>4. path'[i] = <<Seed>> /\ Way(i) = <<1>>
      <3>1. DiscoveryType(i, initiator, SameId(i)) = Seed
        BY <1>8 DEF DiscoveryType
      <3>2. path'[i] = Append(<<>>, Seed)
        BY <1>7, <2>3, <3>1, Zenon
      <3>3. Append(<<>>, Seed) = <<Seed>>
        OBVIOUS
      <3> QED BY <1>1, <1>8, <3>2, <3>3, WayOps
    <2> QED BY <2>4 DEF Leads
  <1>9. CASE i # 1
    <2> DEFINE from   == From[i]
               letter == DiscoveryType(i, initiator, SameId(i))
    <2>1. /\ from \in 1..(i - 1) /\ Way(from) # <<>> /\ Way(i) = Append(Way(from), i)
          /\ from = IF SameId(i) # 0 THEN SameId(i) ELSE Referrer(i)
      BY <1>1, <1>5, <1>9, WayOps
    <2>2. from \in Reqs /\ from < at
      BY <1>1, <2>1, PageOps DEF IInv
    <2> HIDE DEF from
    <2>3. Way(from) \in Seq(Reqs) /\ Way(from)[Len(Way(from))] = from
      BY <1>1, <2>1, <2>2, WayOps
    <2>4. /\ Len(Way(i)) = Len(Way(from)) + 1 /\ Len(Way(from)) \in Nat \ {0}
          /\ \A k \in 1..Len(Way(from)) : Way(i)[k] = Way(from)[k]
          /\ Way(i)[Len(Way(from)) + 1] = i
      BY <1>1, <2>1, <2>3
    <2>5. InTime(Way(from))
      BY <1>5, <2>1, <2>3, <2>4 DEF InTime
    <2>6. Leads(path[from], Way(from)) /\ path[from] \in Seq(Letters)
      BY <2>2, <2>5 DEF Paths, FromSeed
    <2>7. HasLog(from)
      BY <2>3, <2>4, <2>5 DEF InTime, HasLog
    <2>8. Inherited(i, SameId(i)) = path[from]
      BY <2>1, <2>2, <2>7, PageOps DEF Inherited, IInv
    <2>9. letter = "R" <=> SameId(i) # 0
      BY <1>9, Zenon DEF DiscoveryType, Initiators
    <2> HIDE DEF letter
    <2>10. path'[i] = Append(path[from], letter)
      BY <1>7, <2>8 DEF letter
    <2>11. /\ Len(path'[i]) = Len(path[from]) + 1 /\ path'[i][Len(path[from]) + 1] = letter
           /\ \A k \in 1..Len(path[from]) : path'[i][k] = path[from][k]
      BY <2>6, <2>10
    <2>12. Len(path[from]) = Len(Way(from)) /\ path[from][1] = Seed
           /\ \A k \in 2..Len(Way(from)) : path[from][k] = "R" <=> SameId(Way(from)[k]) # 0
      BY <2>6 DEF Leads
    <2>13. Len(path'[i]) = Len(Way(i)) /\ path'[i][1] = Seed
      BY <2>4, <2>11, <2>12
    <2>14. \A k \in 2..Len(Way(i)) : path'[i][k] = "R" <=> SameId(Way(i)[k]) # 0
      <3> TAKE k \in 2..Len(Way(i))
      <3>1. CASE k = Len(Way(from)) + 1
        BY <2>4, <2>9, <2>11, <2>12, <3>1
      <3>2. CASE k # Len(Way(from)) + 1
        <4>1. k \in 2..Len(Way(from)) /\ k \in 1..Len(Way(from))
          BY <2>4, <3>2
        <4> QED BY <2>4, <2>11, <2>12, <4>1
      <3> QED BY <3>1, <3>2
    <2> QED BY <2>13, <2>14 DEF Leads
  <1> QED BY <1>8, <1>9

\* What FinalizeResponses appends.
LEMMA PathsKeepType == ASSUME IInv, Paths, FinalizeRequest PROVE path' \in [Reqs -> Seq(Letters)]
  <1>1. CASE ~HasLog(at)
    BY <1>1 DEF Paths, FinalizeRequest
  <1>2. CASE HasLog(at)
    <2>1. PICK initiator \in Initiators(at) :
            path' = [path EXCEPT ![at] =
              Append(Inherited(at, SameId(at)), DiscoveryType(at, initiator, SameId(at)))]
      BY <1>2, Zenon DEF FinalizeRequest, RedirectParent
    <2>2. DiscoveryType(at, initiator, SameId(at)) \in Letters
      BY DEF DiscoveryType, Letters
    <2>3. Inherited(at, SameId(at)) \in Seq(Letters)
      <3>1. at \in Reqs /\ page \in Pages /\ at \in Nat
        BY PageOps DEF IInv, WalkTypes, FinalizeRequest
      <3>2. SameId(at) \in 0..(at - 1) /\ Referrer(at) \in 0..at
        BY <3>1, WayOps
      <3>3. SameId(at) # 0 => SameId(at) \in Reqs
        BY <3>1, <3>2, PageOps DEF IInv
      <3>4. Referrer(at) # 0 => Referrer(at) \in Reqs
        BY <3>1, <3>2, PageOps DEF IInv
      <3> QED BY <3>3, <3>4 DEF Inherited, Paths
    <2> DEFINE new == Append(Inherited(at, SameId(at)), DiscoveryType(at, initiator, SameId(at)))
    <2>4. new \in Seq(Letters)
      BY <2>2, <2>3
    <2>5. path' = [path EXCEPT ![at] = new]
      BY <2>1
    <2> HIDE DEF new
    <2> QED BY <2>4, <2>5 DEF Paths
  <1> QED BY <1>1, <1>2

\* The paths, step by step.
LEMMA NextPaths == IInv /\ Paths /\ [Next]_vars => Paths'
  <1> SUFFICES ASSUME IInv, Paths, [Next]_vars PROVE Paths'
    OBVIOUS
  <1> USE DEF registryVars, finalVars, walkVars, resultVars, GoOn, Goto
  <1>1. CASE FinalizeRequest
    <2>1. /\ at \in Reqs /\ at \in Nat /\ at' = at + 1 /\ pc' = "finalize" /\ pc = "finalize"
          /\ UNCHANGED <<page, last, arrived>> /\ Reqs' = Reqs /\ \A i \in Reqs : i \in Nat
      BY <1>1, PageOps DEF IInv, WalkTypes, FinalizeRequest, Reqs
    <2>2. path' \in [Reqs -> Seq(Letters)]
      BY <1>1, PathsKeepType
    <2>3. \A i \in Reqs : i # at => path'[i] = path[i]
      BY <1>1, <2>1 DEF FinalizeRequest, Paths
    <2>4. \A i \in Reqs : i < at' => FromSeed(i)'
      <3> TAKE i \in Reqs
      <3> SUFFICES ASSUME i < at' PROVE FromSeed(i)'
        OBVIOUS
      <3>1. CASE i = at
        BY <1>1, <3>1, GetsPath
      <3>2. CASE i # at
        <4>1. i < at
          BY <2>1, <3>2
        <4>2. FromSeed(i)
          BY <4>1 DEF Paths
        <4> QED BY <2>1, <2>3, <3>2, <4>2, StaysFromSeed DEF IInv
      <3> QED BY <3>1, <3>2
    <2>5. \A i \in Reqs : i >= at' => path'[i] = <<>>
      <3> TAKE i \in Reqs
      <3> SUFFICES ASSUME i >= at' PROVE path'[i] = <<>>
        OBVIOUS
      <3>1. i # at /\ i >= at
        BY <2>1
      <3> QED BY <2>1, <2>3, <3>1 DEF Paths
    <2> QED BY <2>1, <2>2, <2>4, <2>5 DEF Paths
  <1>2. CASE Finalized
    <2>1. /\ pc = "finalize" /\ pc' = "screenshot" /\ at > last /\ Reqs' = Reqs
          /\ UNCHANGED <<page, last, arrived, path>>
      BY <1>2 DEF Finalized, Reqs
    <2>2. ASSUME NEW i \in Reqs PROVE FromSeed(i)'
      <3>1. page \in Pages /\ i \in Nat /\ last \in Nat /\ at \in Nat
        BY PageOps DEF IInv, WalkTypes
      <3>2. CASE i < at
        <4>1. FromSeed(i)
          BY <3>2 DEF Paths
        <4> QED BY <2>1, <4>1, StaysFromSeed DEF IInv
      <3>3. CASE ~(i < at)
        <4>1. Way(i) \in Seq(Reqs) /\ (Way(i) # <<>> => Way(i)[Len(Way(i))] = i)
          BY <3>1, WayOps
        <4>2. ~(i <= last)
          BY <2>1, <3>1, <3>3
        <4>3. Way(i) # <<>> => Len(Way(i)) \in DOMAIN Way(i)
          BY <4>1
        <4>4. ~InTime(Way(i))
          BY <4>1, <4>2, <4>3 DEF InTime
        <4>5. Way(i)' = Way(i)
          BY <2>1, SameParents
        <4> QED BY <2>1, <4>4, <4>5 DEF FromSeed, InTime
      <3> QED BY <3>2, <3>3
    <2> QED BY <2>1, <2>2 DEF Paths
  <1>3. ASSUME UNCHANGED <<page, last, path>>, Reqs' = Reqs, pc' = "finalize" <=> pc = "finalize",
               pc = "finalize" => at' = at,
               \A i \in Reqs : arrived'[i] = "early" => arrived[i] = "early"
        PROVE  Paths'
    <2>1. ASSUME NEW i \in Reqs, pc' # "finalize" \/ i < at' PROVE FromSeed(i)'
      <3>1. FromSeed(i)
        BY <1>3, <2>1 DEF Paths
      <3> QED BY <1>3, <3>1, StaysFromSeed DEF IInv
    <2> QED BY <1>3, <2>1 DEF Paths
  <1>4. ASSUME NEW i \in Reqs, Complete(i) PROVE Paths'
    <2>1. \A j \in Reqs : arrived'[j] = "early" => arrived[j] = "early"
      BY <1>4 DEF Complete, IInv, WalkTypes
    <2> QED BY <1>3, <1>4, <2>1 DEF Complete, Reqs
  <1>5. CASE Add
    BY <1>3, <1>5 DEF Add, Reqs
  <1>6. CASE SkipScreenshot \/ WriteScreenshot \/ ExtractOutlinks \/ CloseBrowser
    BY <1>3, <1>6 DEF SkipScreenshot, WriteScreenshot, ExtractOutlinks, CloseBrowser, Reqs
  <1>7. CASE WalkLog \/ WalkResource \/ WriteCrawlLogs \/ WritePageLog
    BY <1>3, <1>7 DEF WalkLog, WalkResource, WriteCrawlLogs, WritePageLog, Reqs
  <1>8. CASE MakeResult \/ SendReport \/ ReportFails
    BY <1>3, <1>8 DEF MakeResult, SendReport, ReportFails, Reqs
  <1>9. CASE UNCHANGED vars
    BY <1>3, <1>9 DEF vars, Reqs
  <1> QED BY <1>1, <1>2, <1>4, <1>5, <1>6, <1>7, <1>8, <1>9 DEF Next

\* Which request redirects have led to, as far as FinalizeResponses has come.
Roots ==
  /\ last = 0 => root = 0 /\ pc \in {"report", "done"} /\ linkPath = <<>>
  /\ last # 0 => root \in 1..last /\ page[root].net = page[1].net
  /\ pc = "finalize" => at <= last + 1 /\ (root = 1 \/ root < at)
  /\ \A j \in 1..last : (pc = "finalize" => j < at) /\ page[j].net = page[1].net => j <= root
  /\ linkPath # <<>> => pc \in {"report", "done"} /\ linkPath = Append(path[root], "L")

\* A redirect of the root request becomes the root; no other request does.
LEMMA NextRoots == IInv /\ Roots /\ [Next]_vars => Roots'
  <1> SUFFICES ASSUME IInv, Roots, [Next]_vars PROVE Roots'
    OBVIOUS
  <1> USE DEF registryVars, finalVars, walkVars, resultVars, GoOn, Goto
  <1>0. page \in Pages /\ last \in Nat /\ at \in Nat \ {0} /\ Reqs = 1..Len(page)
        /\ Len(page) \in Nat /\ last <= Len(page)
    BY PageOps DEF IInv, WalkTypes
  <1>1. CASE FinalizeRequest
    <2> DEFINE p == SameId(at)
    <2>1. /\ pc = "finalize" /\ pc' = "finalize" /\ at <= last /\ at' = at + 1
          /\ root' = IF p # 0 /\ p = root THEN at ELSE root
          /\ UNCHANGED <<page, last, linkPath>> /\ linkPath = <<>>
      BY <1>1 DEF FinalizeRequest, RedirectParent, Roots
    <2>2. root \in 1..last /\ page[root].net = page[1].net /\ (root = 1 \/ root < at)
          /\ \A j \in 1..last : j < at /\ page[j].net = page[1].net => j <= root
      BY <1>0, <2>1 DEF Roots
    <2>3. p \in 0..(at - 1) /\ (p # 0 => page[p].net = page[at].net)
          /\ \A j \in 1..(at - 1) : page[j].net = page[at].net => j <= p
      <3>1. SameIds(at) \in SUBSET (1..(at - 1)) /\ at - 1 \in Nat /\ at \in Nat
        BY <1>0 DEF SameIds
      <3>2. p = Greatest(SameIds(at))
        BY <3>1, Parents
      <3>3. /\ p \in 0..(at - 1) /\ (p = 0 <=> SameIds(at) = {})
            /\ (SameIds(at) # {} => p \in SameIds(at))
            /\ \A k \in SameIds(at) : k <= p
        BY <3>1, <3>2, GreatestIs
      <3> QED BY <3>3 DEF SameIds
    <2> HIDE DEF p
    <2>4. CASE page[at].net = page[1].net
      <3>1. CASE at = 1
        <4>1. p = 0 /\ root = 1
          BY <2>2, <2>3, <3>1
        <4>2. root' = 1 /\ at' = 2
          BY <2>1, <3>1, <4>1
        <4> QED BY <1>0, <2>1, <2>2, <3>1, <4>2 DEF Roots
      <3>2. CASE at # 1
        <4>1. root \in 1..(at - 1)
          BY <1>0, <2>2, <3>2
        <4>2. root <= p /\ p \in 1..(at - 1)
          BY <2>2, <2>3, <2>4, <4>1
        <4>3. p <= root
          BY <1>0, <2>1, <2>2, <2>3, <2>4, <4>2
        <4>4. root' = at
          BY <2>1, <4>1, <4>2, <4>3
        <4>5. \A j \in 1..last : j < at' => j <= root'
          BY <1>0, <2>1, <4>4
        <4> QED BY <1>0, <2>1, <2>2, <2>4, <4>4, <4>5 DEF Roots
      <3> QED BY <3>1, <3>2
    <2>5. CASE page[at].net # page[1].net
      <3>1. root' = root
        BY <2>1, <2>2, <2>3, <2>5
      <3>2. \A j \in 1..last : j < at' /\ page[j].net = page[1].net => j <= root
        BY <1>0, <2>1, <2>2, <2>5
      <3> QED BY <1>0, <2>1, <2>2, <3>1, <3>2 DEF Roots
    <2> QED BY <2>4, <2>5
  <1>2. CASE Finalized
    <2>1. /\ pc = "finalize" /\ pc' = "screenshot" /\ at > last
          /\ UNCHANGED <<page, last, at, root, path, linkPath>>
      BY <1>2 DEF Finalized
    <2> QED BY <1>0, <2>1 DEF Roots
  <1>3. ASSUME NEW i \in Reqs, Complete(i) PROVE Roots'
    BY <1>3 DEF Complete, Roots
  <1>4. CASE Add
    BY <1>4 DEF Add, Roots
  <1>5. CASE SkipScreenshot \/ WriteScreenshot \/ ExtractOutlinks \/ CloseBrowser
    BY <1>5 DEF SkipScreenshot, WriteScreenshot, ExtractOutlinks, CloseBrowser, Roots
  <1>6. CASE WalkLog \/ WalkResource \/ WriteCrawlLogs \/ WritePageLog
    BY <1>6 DEF WalkLog, WalkResource, WriteCrawlLogs, WritePageLog, Roots
  <1>7. CASE MakeResult
    <2>1. /\ pc = "result" /\ pc' = "report" /\ UNCHANGED <<page, last, root, path>>
          /\ linkPath' \in {<<>>, linkPath, Append(path[root], "L")}
      BY <1>7 DEF MakeResult
    <2> QED BY <1>0, <2>1 DEF Roots
  <1>8. CASE SendReport \/ ReportFails
    BY <1>8 DEF SendReport, ReportFails, Roots
  <1>9. CASE UNCHANGED vars
    BY <1>9 DEF vars, Roots
  <1> QED BY <1>1, <1>2, <1>3, <1>4, <1>5, <1>6, <1>7, <1>8, <1>9 DEF Next

\* What Walk has collected are requests that are there, and no loop runs beyond them.
Shape ==
  /\ crawlLogs \subseteq 1..added /\ resources \subseteq 1..added /\ at <= added + 1
  /\ parent \in [Reqs -> 0..Len(page)] /\ \A i \in Reqs : parent[i] < i

\* Each loop keeps to its bound.
LEMMA NextShape == IInv /\ Shape /\ [Next]_vars => Shape'
  <1> SUFFICES ASSUME IInv, Shape, [Next]_vars PROVE Shape'
    OBVIOUS
  <1> USE DEF registryVars, finalVars, walkVars, resultVars, GoOn, Goto, Reqs
  <1>0. page \in Pages /\ last \in 0..added /\ at \in Nat \ {0} /\ Reqs = 1..Len(page)
        /\ Len(page) \in Nat /\ added \in 0..Len(page) /\ added \in Nat
    BY PageOps DEF IInv, WalkTypes
  <1>1. CASE FinalizeRequest
    <2>0. at \in 1..Len(page) /\ at <= added
      BY <1>0, <1>1 DEF FinalizeRequest
    <2>1. SameId(at) \in 0..(at - 1) /\ at \in Reqs /\ at <= added
      <3> HIDE DEF Reqs
      <3> QED BY <1>0, <2>0, WayOps
    <2>2. /\ parent' = [parent EXCEPT ![at] = SameId(at)] /\ at' = at + 1
          /\ UNCHANGED <<page, added, crawlLogs, resources>>
      BY <1>1 DEF FinalizeRequest, RedirectParent
    <2> HIDE DEF Reqs
    <2>3. Reqs' = Reqs
      BY <2>2 DEF Reqs
    <2>4. parent' \in [Reqs -> 0..Len(page)]
      BY <1>0, <2>1, <2>2 DEF Shape
    <2>5. \A i \in Reqs : parent'[i] < i
      BY <1>0, <2>1, <2>2 DEF Shape
    <2> QED BY <1>0, <2>1, <2>2, <2>3, <2>4, <2>5 DEF Shape
  <1>2. ASSUME NEW i \in Reqs, Complete(i) PROVE Shape'
    BY <1>2 DEF Complete, Shape
  <1>3. CASE Add
    BY <1>0, <1>3 DEF Add, Shape
  <1>4. CASE Finalized \/ SkipScreenshot \/ WriteScreenshot \/ ExtractOutlinks \/ CloseBrowser
    <2>1. at' \in {at, 1} /\ UNCHANGED <<page, added, parent, crawlLogs, resources>>
      BY <1>4 DEF Finalized, SkipScreenshot, WriteScreenshot, ExtractOutlinks, CloseBrowser
    <2> QED BY <1>0, <2>1 DEF Shape
  <1>5. CASE WalkLog
    <2>1. /\ at <= added /\ UNCHANGED <<page, added, at, parent, resources>>
          /\ crawlLogs' \in {crawlLogs, crawlLogs \cup {at}}
      BY <1>5 DEF WalkLog, WalkEnd
    <2> QED BY <1>0, <2>1 DEF Shape
  <1>6. CASE WalkResource
    <2>1. at <= added
      BY <1>6 DEF WalkResource, IInv, WalkInv
    <2>2. /\ at' = at + 1 /\ UNCHANGED <<page, added, parent, crawlLogs>>
          /\ resources' \in {resources, resources \cup {at}}
      BY <1>6 DEF WalkResource
    <2> QED BY <1>0, <2>1, <2>2 DEF Shape
  <1>7. CASE WriteCrawlLogs \/ WritePageLog \/ MakeResult \/ SendReport \/ ReportFails
    BY <1>7 DEF WriteCrawlLogs, WritePageLog, MakeResult, SendReport, ReportFails, Shape
  <1>8. CASE UNCHANGED vars
    BY <1>8 DEF vars, Shape
  <1> QED BY <1>1, <1>2, <1>3, <1>4, <1>5, <1>6, <1>7, <1>8 DEF Next

\* No loop has begun.
LEMMA InitShape == Init => Shape
  <1> SUFFICES ASSUME Init PROVE Shape
    OBVIOUS
  <1>1. /\ page \in Pages /\ at = 1 /\ added \in 0..Len(page) /\ parent = [i \in Reqs |-> 0]
        /\ crawlLogs = {} /\ resources = {}
    BY DEF Init
  <1>2. Reqs = 1..Len(page) /\ Len(page) \in Nat
    BY <1>1, HarvestAssumption DEF Reqs
  <1> QED BY <1>1, <1>2 DEF Shape

\* Nothing has a path yet; without a request there is none to be found.
LEMMA InitPaths == Init => Paths /\ Roots
  <1> SUFFICES ASSUME Init PROVE Paths /\ Roots
    OBVIOUS
  <1>1. /\ page \in Pages /\ at = 1 /\ last = added /\ linkPath = <<>> /\ path = [i \in Reqs |-> <<>>]
        /\ added \in 0..Len(page)
        /\ root = (IF added = 0 THEN 0 ELSE 1) /\ pc = (IF added = 0 THEN "report" ELSE "finalize")
    BY DEF Init
  <1>2. Reqs = 1..Len(page) /\ Len(page) \in Nat
    BY <1>1, HarvestAssumption DEF Reqs
  <1>3. ASSUME NEW i \in Reqs, pc # "finalize" PROVE FromSeed(i)
    <2>1. Way(i) \in Seq(Reqs) /\ last = 0
      BY <1>1, <1>3, WayOps
    <2>2. ~InTime(Way(i))
      BY <1>2, <2>1 DEF InTime
    <2> QED BY <2>2 DEF FromSeed
  <1>4. Paths
    BY <1>1, <1>2, <1>3 DEF Paths
  <1>5. Roots
    BY <1>1, <1>2 DEF Roots
  <1> QED BY <1>4, <1>5

\* Crawl logs that are written and outlinks have a discovery path from the requested URL, letter
\* by letter (requests/requests.go 142-176, session.go 356-455).
THEOREM PathsAlwaysFromSeed == Spec => []PathsFromSeed
  <1>1. IInv /\ Paths /\ Roots /\ Shape => PathsFromSeed
    <2> SUFFICES ASSUME IInv, Paths, Roots, Shape PROVE PathsFromSeed
      OBVIOUS
    <2>0. page \in Pages /\ last \in Nat /\ at \in Nat \ {0} /\ Reqs = 1..Len(page)
          /\ Len(page) \in Nat /\ last <= Len(page)
      BY PageOps DEF IInv, WalkTypes
    <2>1. ASSUME NEW i \in crawlLogs, InTime(Way(i)) PROVE Leads(path[i], Way(i))
      <3>1. i \in Reqs
        BY <2>1, PageOps DEF Shape, IInv, WalkTypes
      <3>2. pc # "finalize"
        BY DEF IInv, WalkInv, BrowserOpen
      <3> QED BY <2>1, <3>1, <3>2 DEF Paths, FromSeed
    <2>2. ASSUME linkPath # <<>>, InTime(Way(LastRedirect))
          PROVE  /\ linkPath[Len(linkPath)] = "L"
                 /\ Leads(SubSeq(linkPath, 1, Len(linkPath) - 1), Way(LastRedirect))
      <3>1. /\ last # 0 /\ root \in 1..last /\ page[root].net = page[1].net
            /\ pc \in {"report", "done"} /\ linkPath = Append(path[root], "L")
            /\ \A j \in 1..last : page[j].net = page[1].net => j <= root
        BY <2>2 DEF Roots
      <3>2. LastRedirect = root
        BY <2>0, <3>1, LastRedirectIs
      <3>3. root \in Reqs /\ path[root] \in Seq(Letters)
        BY <2>0, <3>1 DEF Paths
      <3>4. Leads(path[root], Way(root))
        BY <2>2, <3>1, <3>2, <3>3 DEF Paths, FromSeed
      <3> DEFINE found == path[root]
      <3> HIDE DEF found
      <3>5. linkPath[Len(linkPath)] = "L" /\ SubSeq(linkPath, 1, Len(linkPath) - 1) = found
        <4>1. found \in Seq(Letters) /\ linkPath = Append(found, "L")
          BY <3>1, <3>3 DEF found
        <4>2. /\ Len(Append(found, "L")) = Len(found) + 1
              /\ Append(found, "L")[Len(found) + 1] = "L"
          BY <4>1
        <4>3. SubSeq(Append(found, "L"), 1, Len(found)) = found
          BY <4>1
        <4> QED BY <4>1, <4>2, <4>3
      <3> QED BY <3>2, <3>4, <3>5 DEF found
    <2> QED BY <2>1, <2>2 DEF PathsFromSeed
  <1> QED BY <1>1, SpecIInv, InitPaths, NextPaths, NextRoots, InitShape, NextShape, PTL DEF Spec

\* The variables keep their types, the discovery paths and the loops' bounds among them.
THEOREM TypeCorrect == Spec => []TypeOK
  <1>1. IInv /\ Telling /\ Paths /\ Roots /\ Shape => TypeOK
    <2> SUFFICES ASSUME IInv, Telling, Paths, Roots, Shape PROVE TypeOK
      OBVIOUS
    <2>1. page \in Pages /\ last \in 0..added /\ at \in Nat \ {0} /\ Reqs = 1..Len(page)
          /\ Len(page) \in Nat /\ added \in 0..Len(page) /\ added \in Nat
      BY PageOps DEF IInv, WalkTypes
    <2>2. root \in 0..added /\ at \in 1..(Len(page) + 1)
      BY <2>1 DEF Roots, Shape
    <2>3. result \in {"none", "rendered", "error"} /\ told \in Seq({"error", "metrics", "outlink", "end"})
      <3>1. CASE pc \in {"report", "done"}
        BY <3>1 DEF Telling, Messages
      <3>2. CASE pc \notin {"report", "done"}
        BY <3>2 DEF Telling
      <3> QED BY <3>1, <3>2
    <2>4. linkPath \in Seq({Seed, "X", "R", "E", "L"})
      <3>1. CASE linkPath = <<>>
        BY <3>1
      <3>2. CASE linkPath # <<>>
        <4>1. root \in Reqs /\ linkPath = Append(path[root], "L")
          BY <2>1, <3>2 DEF Roots
        <4>2. path[root] \in Seq({Seed, "X", "R", "E"})
          BY <4>1 DEF Paths, Letters
        <4>3. path[root] \in Seq({Seed, "X", "R", "E", "L"})
          BY <4>2
        <4> QED BY <4>1, <4>3
      <3> QED BY <3>1, <3>2
    <2>5. path \in [Reqs -> Seq({Seed, "X", "R", "E"})]
      BY DEF Paths, Letters
    <2>6. pageLog \in BOOLEAN
      BY Zenon DEF IInv, WalkTypes
    <2>7. /\ arrived \in [Reqs -> {"never", "early", "meanwhile", "late"}]
          /\ \A i \in Reqs : HasLog(i) => i <= added
          /\ pc \in Positions /\ links \in LinkCounts \cup {0} /\ shot \in {"nothing", "parts", "all"}
      BY DEF IInv, WalkTypes
    <2> QED BY <2>1, <2>2, <2>3, <2>4, <2>5, <2>6, <2>7, Zenon DEF TypeOK, Shape, Positions
  <1> QED BY <1>1, SpecIInv, InitTelling, NextTelling, InitPaths, NextPaths, NextRoots, InitShape,
             NextShape, PTL DEF Spec
=============================================================================
