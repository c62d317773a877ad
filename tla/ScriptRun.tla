------------------------------ MODULE ScriptRun ------------------------------
(***************************************************************************)
(* The scripts of a page: which are loaded, and how Fetch runs them in its *)
(* two phases as chains, each script naming the next and passing data.     *)
(* A script is JavaScript of the archive's own, so its result is any value *)
(* that has the form of a ReturnValue, or none that has.                   *)
(***************************************************************************)
EXTENDS Naturals

CONSTANTS
  Configured, \* what configCache.GetScripts returns, in its order; may have duplicates
  TypeOf,     \* the BrowserScriptType of each script
  AnnotationOf, \* Meta.Annotation of each script
  Conditional,\* the scripts that have UrlRegexp
  Keys, Values,
  NoScript    \* the empty string as an id

Scripts == {Configured[i] : i \in DOMAIN Configured}
Phases  == {"onNewDocument", "onLoad"}
Types   == Phases \cup {"undefined", "scopeCheck", "replacement"}

\* JSON objects and annotations, and objects with the fields of another on top
Objects == UNION {[K -> Values] : K \in SUBSET Keys}
Empty   == [k \in {} |-> NoScript]
Over(g, f) == [k \in DOMAIN f \cup DOMAIN g |-> IF k \in DOMAIN g THEN g[k] ELSE f[k]]
Pairs(f) == {<<k, f[k]>> : k \in DOMAIN f}

ASSUME ScriptsAssumption ==
  /\ TypeOf \in [Scripts -> Types] /\ AnnotationOf \in [Scripts -> Objects]
  /\ NoScript \notin Scripts /\ Conditional \subseteq Scripts

VARIABLES
  matching, \* scripts that match the page's URL, as those without UrlRegexp do
  seed,     \* RequestedUrl.Annotation
  expired,  \* loadCtx is over: timed out, or cancelled by AbortFetch
  phase, pc,
  todo,     \* where in Configured the scripts are that executeScripts has not come to yet
  runnable, \* the map scripts of executeScripts
  next, data, args, \* of script.Run
  world,    \* scripts that have run in the isolated world in use
  called,   \* scripts called in this phase
  last,     \* data of the ReturnValue before
  returned  \* every key and value returned in this chain

pageVars  == <<matching, seed>>
chainVars == <<last, returned>>
vars == <<pageVars, expired, phase, pc, todo, runnable, next, data, args, world, called, chainVars>>

TypeOK ==
  /\ matching \subseteq Scripts /\ seed \in Objects /\ expired \in BOOLEAN
  /\ phase \in Phases
  /\ pc \in {"load", "phase", "next", "run", "call", "running", "wait", "failed", "done"}
  /\ todo \subseteq DOMAIN Configured /\ runnable \subseteq Scripts
  /\ next \in Scripts \cup {NoScript, "unknown"}
  /\ data \in Objects /\ args \in Objects
  /\ world \subseteq Scripts /\ called \subseteq Scripts
  /\ last \in Objects /\ returned \subseteq Keys \X Values

\* match: a script without UrlRegexp matches every page; the others match some.
Matches == {(Scripts \ Conditional) \cup m : m \in SUBSET Conditional}

Init ==
  /\ matching \in Matches
  /\ seed \in Objects /\ expired = FALSE
  /\ phase = "onNewDocument" /\ pc = "load"
  /\ todo = {} /\ runnable = {} /\ next = NoScript /\ data = Empty /\ args = Empty
  /\ world = {} /\ called = {} /\ last = Empty /\ returned = {}

-----------------------------------------------------------------------------
(* Which scripts there are, and the two phases.                            *)

\* loadScripts keeps the order; the blacklist has SCOPE_CHECK.
Loaded(type) ==
  {i \in DOMAIN Configured : /\ TypeOf[Configured[i]] = type /\ type # "scopeCheck"
                             /\ Configured[i] \in matching}

LoadedSet(type) == {Configured[i] : i \in Loaded(type)}

\* An error of the cache fails the page.
LoadScripts ==
  /\ pc = "load" /\ pc' \in {"phase", "failed"}
  /\ UNCHANGED <<pageVars, expired, phase, todo, runnable, next, data, args, world, called,
                 chainVars>>

\* Fetch fails when the first phase does; an error of the second is only logged.
FailPhase == pc' = IF phase = "onNewDocument" THEN "failed" ELSE "done"

EnterKeeping(map) ==
  /\ pc = "phase" /\ pc' = "next"
  /\ phase = "onLoad" => ~expired
  /\ todo' = Loaded(phase) /\ runnable' = map
  /\ world' = {} /\ called' = {}
  /\ UNCHANGED <<pageVars, expired, phase, next, data, args, chainVars>>

EnterPhaseKeepsMap == EnterKeeping(runnable \cup LoadedSet("undefined"))

\* ON_LOAD makes its one isolated world here.
EnterPhase == EnterKeeping(LoadedSet("undefined"))

WorldFails ==
  /\ pc = "phase" /\ phase = "onLoad" /\ FailPhase
  /\ UNCHANGED <<pageVars, expired, phase, todo, runnable, next, data, args, world, called,
                 chainVars>>

\* data is a variable of Run, which is called for each script of the phase.
StartChainWith(d) ==
  /\ pc = "next" /\ pc' = "run"
  /\ \E i \in todo :
       /\ \A j \in todo : i <= j
       /\ todo' = todo \ {i}
       /\ next' = Configured[i] /\ runnable' = runnable \cup {Configured[i]}
  /\ data' = d
  /\ last' = Empty /\ returned' = {}
  /\ UNCHANGED <<pageVars, expired, phase, args, world, called>>

StartChainKeepsData == StartChainWith(data)

StartChain == StartChainWith(Empty)

EndPhase ==
  /\ pc = "next" /\ todo = {}
  /\ IF phase = "onNewDocument" THEN phase' = "onLoad" /\ pc' = "phase"
                                ELSE phase' = phase /\ pc' = "done"
  /\ UNCHANGED <<pageVars, expired, todo, runnable, next, data, args, world, called, chainVars>>

-----------------------------------------------------------------------------
(* script.Run.                                                             *)

ChainEnds ==
  /\ pc = "run" /\ next = NoScript /\ pc' = "next"
  /\ UNCHANGED <<pageVars, expired, phase, todo, runnable, next, data, args, world, called,
                 chainVars>>

ScriptMissing ==
  /\ pc = "run" /\ next \notin runnable \cup {NoScript} /\ FailPhase
  /\ UNCHANGED <<pageVars, expired, phase, todo, runnable, next, data, args, world, called,
                 chainVars>>

\* Of the script's own annotations only the keys are used, as a blueprint for those of the seed.
Annotations(s) == [k \in DOMAIN AnnotationOf[s] \cap DOMAIN seed |-> seed[k]]

\* data goes over the annotations
BuildArguments ==
  /\ pc = "run" /\ next \in runnable /\ pc' = "call"
  /\ args' = Over(data, Annotations(next))
  /\ UNCHANGED <<pageVars, expired, phase, todo, runnable, next, data, world, called, chainVars>>

\* resolveExecutionContextId: ON_NEW_DOCUMENT makes a new isolated world for every script.
Call ==
  /\ pc = "call" /\ ~expired /\ pc' = "running"
  /\ world' = (IF phase = "onNewDocument" THEN {} ELSE world) \cup {next}
  /\ called' = called \cup {next}
  /\ UNCHANGED <<pageVars, expired, phase, todo, runnable, next, data, args, chainVars>>

FailsAt(places) ==
  /\ pc \in places /\ FailPhase
  /\ args' = Empty
  /\ UNCHANGED <<pageVars, expired, phase, todo, runnable, next, data, world, called, chainVars>>

CallFailsBeforehand == FailsAt({"call"})

\* No world, an exception, a context that is gone with its document, or loadCtx is over
CallFails == FailsAt({"call", "running"})

\* res == nil: undefined was returned.
ReturnNothing ==
  /\ pc = "running" /\ ~expired /\ pc' = "next"
  /\ args' = Empty
  /\ UNCHANGED <<pageVars, expired, phase, todo, runnable, next, data, world, called, chainVars>>

\* What the result or its data are not: a ReturnValue, an object
ReturnNonsense ==
  /\ pc = "running" /\ ~expired /\ FailPhase
  /\ args' = Empty
  /\ UNCHANGED <<pageVars, expired, phase, todo, runnable, next, data, world, called, chainVars>>

ContinueWith(n, wait) ==
  /\ pc = "running" /\ ~expired
  /\ next' = n /\ pc' = IF wait THEN "wait" ELSE "run"
  /\ args' = Empty
  /\ UNCHANGED <<pageVars, expired, phase, todo, runnable, world, called>>

FollowLiterally(n, wait) == ContinueWith(n, wait)

\* The id "self" stands for the script itself.
Follow(n, wait) == ContinueWith(IF n = "self" THEN next ELSE n, wait)

\* len(rv.Data) = 0, and null, which makes the map nil
ReturnWithoutData(n, wait) ==
  /\ Follow(n, wait)
  /\ data' = Empty /\ last' = Empty /\ UNCHANGED returned

\* Unmarshal puts the object into the map that is there.
ReturnData(n, d, wait) ==
  /\ Follow(n, wait)
  /\ data' = Over(d, data) /\ last' = d /\ returned' = returned \cup Pairs(d)

\* netActivityTimer.WaitForCompletion and Reset
WaitReturns ==
  /\ pc = "wait" /\ pc' = "run"
  /\ UNCHANGED <<pageVars, expired, phase, todo, runnable, next, data, args, world, called,
                 chainVars>>

Expire ==
  /\ ~expired /\ pc # "load" /\ expired' = TRUE
  /\ UNCHANGED <<pageVars, phase, pc, todo, runnable, next, data, args, world, called, chainVars>>

\* JavaScript that does not end
Busy  == pc = "running" /\ UNCHANGED vars
Ended == pc \in {"failed", "done"} /\ UNCHANGED vars

-----------------------------------------------------------------------------
Returns ==
  \E n \in Scripts \cup {NoScript, "self", "unknown"}, wait \in BOOLEAN :
    ReturnWithoutData(n, wait) \/ \E d \in Objects : ReturnData(n, d, wait)

FetchStep ==
  \/ LoadScripts \/ EnterPhase \/ StartChain \/ EndPhase
  \/ ChainEnds \/ ScriptMissing \/ BuildArguments \/ Call \/ WaitReturns

Next ==
  \/ FetchStep \/ WorldFails \/ CallFails
  \/ ReturnNothing \/ ReturnNonsense \/ Returns
  \/ Expire \/ Busy \/ Ended

\* Fetch goes on, loadCtx ends, and what is done with loadCtx fails then; a script need not
\* ever return.
Fairness ==
  /\ WF_vars(FetchStep) /\ WF_vars(Expire)
  /\ WF_vars(expired /\ (WorldFails \/ CallFails))

Spec     == Init /\ [][Next]_vars
FairSpec == Spec /\ Fairness

-----------------------------------------------------------------------------
(* Properties.                                                             *)

InScript == pc = "running"

\* A script is called on pages it matches, in the phase of its type, or, without one, in any;
\* never one that is for scope checks or replacement, whatever ids other scripts return.  A
\* script of a new document finds no trace of another script in its world; those of the loaded
\* page all find each other's.
OwnPlace ==
  InScript => /\ next \in matching /\ TypeOf[next] \in {"undefined", phase}
              /\ world = IF phase = "onNewDocument" THEN {next} ELSE called

\* Nothing leaks from one chain or page phase into another: an argument is a seed annotation
\* whose key the script declares, or was returned by a script of the same chain; and, as
\* script.go:38-39 says, the data returned last has the highest precedence.
ArgumentsFromChain ==
  InScript =>
    /\ \A k \in DOMAIN args :
          \/ k \in DOMAIN AnnotationOf[next] \cap DOMAIN seed /\ args[k] = seed[k]
          \/ <<k, args[k]>> \in returned
    /\ \A k \in DOMAIN last : k \in DOMAIN args /\ args[k] = last[k]

\* Scripts that call themselves for ever or never return do not keep Fetch from getting through
\* these two phases, which run with loadCtx (those that extract outlinks do not).
ScriptsEnd == <>(pc \in {"failed", "done"})

\* script.go:36-38: the arguments are annotations and "the contents of the data object
\* returned by the previously executed script".
DataOfPreviousOnly ==
  InScript => DOMAIN args \subseteq DOMAIN AnnotationOf[next] \cup DOMAIN last

\* script.go:36-39 and script_test.go:152, "ReturnValue.Data > seed annotations > script
\* annotations": each annotation of the script is an argument, with the value of the data, or
\* else of the seed's annotation of that key, or else its own.
DocumentedPrecedence ==
  InScript =>
    \A k \in DOMAIN AnnotationOf[next] :
      k \in DOMAIN args /\ args[k] = Over(data, Over(seed, AnnotationOf[next]))[k]
=============================================================================
