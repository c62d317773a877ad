--------------------------- MODULE ScriptRunProofs ---------------------------
(***************************************************************************)
(* Proofs about ScriptRun, for any scripts, annotations and values: a      *)
(* script runs in its place, and its arguments are from its own chain,     *)
(* whatever the scripts return.                                            *)
(***************************************************************************)
EXTENDS ScriptRun, TLAPS

Working == pc \in {"next", "run", "call", "running", "wait"}
Calling == pc \in {"call", "running"}
InChain == pc \in {"run", "call", "running", "wait"}

\* The map and the list of a phase hold scripts of that phase that match the page, and what is
\* called is in the map.
Placed ==
  Working => /\ \A s \in runnable : s \in matching /\ TypeOf[s] \in {"undefined", phase}
             /\ \A i \in todo : Configured[i] \in matching /\ TypeOf[Configured[i]] = phase
             /\ Calling => next \in runnable

\* A script of the loaded page runs in the world of all that were called, one of a new
\* document in a world that was made for it.
Worlds ==
  /\ Working /\ phase = "onLoad" => world = called
  /\ pc = "running" /\ phase = "onNewDocument" => world = {next}

\* data is what the chain has returned, with the last object on top, and arguments are built
\* from it.
Chained ==
  /\ InChain => /\ Pairs(data) \subseteq returned
                /\ \A k \in DOMAIN last : k \in DOMAIN data /\ data[k] = last[k]
  /\ Calling => args = Over(data, Annotations(next))

-----------------------------------------------------------------------------
(* Objects.                                                                *)

\* An object over another has the fields of both, its own first.
LEMMA Overlaid ==
  ASSUME NEW f \in Objects, NEW g \in Objects
  PROVE  /\ Over(g, f) \in Objects
         /\ DOMAIN Over(g, f) = DOMAIN f \cup DOMAIN g
         /\ \A k \in DOMAIN g : Over(g, f)[k] = g[k]
         /\ \A k \in DOMAIN f \ DOMAIN g : Over(g, f)[k] = f[k]
         /\ Pairs(Over(g, f)) \subseteq Pairs(f) \cup Pairs(g)
         /\ Pairs(g) \subseteq Keys \X Values
  <1>1. /\ DOMAIN f \subseteq Keys /\ DOMAIN g \subseteq Keys
        /\ \A k \in DOMAIN f : f[k] \in Values
        /\ \A k \in DOMAIN g : g[k] \in Values
    BY DEF Objects
  <1>2. Over(g, f) \in [DOMAIN f \cup DOMAIN g -> Values]
    BY <1>1 DEF Over
  <1>3. Over(g, f) \in Objects
    BY <1>1, <1>2 DEF Objects
  <1>4. Pairs(Over(g, f)) \subseteq Pairs(f) \cup Pairs(g)
    BY DEF Pairs, Over
  <1> QED BY <1>1, <1>3, <1>4 DEF Over, Pairs

\* An object without fields
LEMMA EmptyObject == Empty \in Objects /\ DOMAIN Empty = {} /\ Pairs(Empty) = {}
  <1>1. DOMAIN Empty = {}
    BY DEF Empty
  <1>2. Empty \in [{} -> Values]
    BY DEF Empty
  <1> QED BY <1>1, <1>2 DEF Objects, Pairs

\* The annotations of a script are those of the seed that it declares.
LEMMA AnnotationsTyped ==
  ASSUME TypeOK, NEW s \in Scripts
  PROVE  /\ Annotations(s) \in Objects
         /\ DOMAIN Annotations(s) = DOMAIN AnnotationOf[s] \cap DOMAIN seed
         /\ \A k \in DOMAIN Annotations(s) : Annotations(s)[k] = seed[k]
  <1>1. DOMAIN seed \subseteq Keys /\ \A k \in DOMAIN seed : seed[k] \in Values
    BY DEF TypeOK, Objects
  <1>2. Annotations(s) \in [DOMAIN AnnotationOf[s] \cap DOMAIN seed -> Values]
    BY <1>1 DEF Annotations
  <1>3. Annotations(s) \in Objects
    BY <1>1, <1>2 DEF Objects
  <1> QED BY <1>3 DEF Annotations

\* What is in a list of loadScripts is of its type, and matches the page.
LEMMA LoadedTyped ==
  ASSUME NEW type
  PROVE  /\ Loaded(type) \subseteq DOMAIN Configured
         /\ \A i \in Loaded(type) : Configured[i] \in matching /\ TypeOf[Configured[i]] = type
         /\ LoadedSet(type) \subseteq Scripts
         /\ \A s \in LoadedSet(type) : s \in matching /\ TypeOf[s] = type
  BY DEF Loaded, LoadedSet, Scripts

-----------------------------------------------------------------------------
(* Types.                                                                  *)

\* Fetch has not begun with scripts.
LEMMA InitTypes == Init => TypeOK
  <1> SUFFICES ASSUME Init PROVE TypeOK
    OBVIOUS
  <1>1. expired \in BOOLEAN
    BY Zenon DEF Init
  <1>2. matching \subseteq Scripts
    BY ScriptsAssumption DEF Init, Matches
  <1> QED BY <1>1, <1>2, EmptyObject DEF Init, TypeOK, Phases

\* Every step keeps the types; that an id names a script is known when it is found in the map.
LEMMA NextTypes == TypeOK /\ Placed /\ [Next]_vars => TypeOK'
  <1> SUFFICES ASSUME TypeOK, Placed, [Next]_vars PROVE TypeOK'
    OBVIOUS
  <1> USE DEF TypeOK, pageVars, chainVars
  <1>1. CASE LoadScripts
    BY <1>1 DEF LoadScripts
  <1>2. CASE EnterPhase
    BY <1>2, LoadedTyped DEF EnterPhase, EnterKeeping
  <1>3. CASE StartChain
    BY <1>3, EmptyObject DEF StartChain, StartChainWith, Scripts
  <1>4. CASE EndPhase
    BY <1>4 DEF EndPhase, Phases
  <1>5. CASE ChainEnds
    BY <1>5 DEF ChainEnds
  <1>6. CASE ScriptMissing
    BY <1>6 DEF ScriptMissing, FailPhase
  <1>7. CASE BuildArguments
    <2>1. next \in Scripts
      BY <1>7 DEF BuildArguments
    <2>2. args' \in Objects
      BY <1>7, <2>1, AnnotationsTyped, Overlaid DEF BuildArguments
    <2> QED BY <1>7, <2>2 DEF BuildArguments
  <1>8. CASE Call
    BY <1>8 DEF Call, Placed, Working, Calling
  <1>9. CASE WaitReturns
    BY <1>9 DEF WaitReturns
  <1>10. CASE WorldFails
    BY <1>10 DEF WorldFails, FailPhase
  <1>11. CASE CallFails
    BY <1>11, EmptyObject DEF CallFails, FailsAt, FailPhase
  <1>12. CASE ReturnNothing
    BY <1>12, EmptyObject DEF ReturnNothing
  <1>13. CASE ReturnNonsense
    BY <1>13, EmptyObject DEF ReturnNonsense, FailPhase
  <1>14. ASSUME NEW n \in Scripts \cup {NoScript, "self", "unknown"}, NEW wait \in BOOLEAN,
               ReturnWithoutData(n, wait)
        PROVE  TypeOK'
    BY <1>14, EmptyObject DEF ReturnWithoutData, Follow, ContinueWith
  <1>15. ASSUME NEW n \in Scripts \cup {NoScript, "self", "unknown"}, NEW wait \in BOOLEAN,
               NEW d \in Objects, ReturnData(n, d, wait)
        PROVE  TypeOK'
    BY <1>15, Overlaid, EmptyObject DEF ReturnData, Follow, ContinueWith
  <1>16. CASE Expire
    BY <1>16 DEF Expire
  <1>17. CASE UNCHANGED vars
    BY <1>17 DEF vars, pageVars, chainVars
  <1> QED
    BY <1>1, <1>2, <1>3, <1>4, <1>5, <1>6, <1>7, <1>8, <1>9, <1>10, <1>11, <1>12, <1>13,
       <1>14, <1>15, <1>16, <1>17
       DEF Next, FetchStep, Returns, Busy, Ended

-----------------------------------------------------------------------------
(* Places.                                                                 *)

\* Every step keeps the lists of the phase, and its worlds.
LEMMA NextPlaced == TypeOK /\ Placed /\ Worlds /\ [Next]_vars => Placed' /\ Worlds'
  <1> DEFINE Inv == Placed /\ Worlds
  <1> SUFFICES ASSUME TypeOK, Placed, Worlds, [Next]_vars PROVE Inv'
    OBVIOUS
  <1> USE DEF Placed, Worlds, Working, Calling, pageVars, chainVars
  <1>1. CASE LoadScripts
    BY <1>1 DEF LoadScripts
  <1>2. CASE EnterPhase
    BY <1>2, LoadedTyped DEF EnterPhase, EnterKeeping
  <1>3. CASE StartChain
    BY <1>3 DEF StartChain, StartChainWith
  <1>4. CASE EndPhase
    BY <1>4 DEF EndPhase
  <1>5. CASE ChainEnds
    BY <1>5 DEF ChainEnds
  <1>6. CASE ScriptMissing
    BY <1>6 DEF ScriptMissing, FailPhase
  <1>7. CASE BuildArguments
    BY <1>7 DEF BuildArguments
  <1>8. CASE Call
    BY <1>8 DEF Call, TypeOK, Phases
  <1>9. CASE WaitReturns
    BY <1>9 DEF WaitReturns
  <1>10. CASE WorldFails
    BY <1>10 DEF WorldFails, FailPhase
  <1>11. CASE CallFails
    BY <1>11 DEF CallFails, FailsAt, FailPhase
  <1>12. CASE ReturnNothing
    BY <1>12 DEF ReturnNothing
  <1>13. CASE ReturnNonsense
    BY <1>13 DEF ReturnNonsense, FailPhase
  <1>14. ASSUME NEW n \in Scripts \cup {NoScript, "self", "unknown"}, NEW wait \in BOOLEAN,
               ReturnWithoutData(n, wait)
        PROVE  Inv'
    BY <1>14 DEF ReturnWithoutData, Follow, ContinueWith
  <1>15. ASSUME NEW n \in Scripts \cup {NoScript, "self", "unknown"}, NEW wait \in BOOLEAN,
               NEW d \in Objects, ReturnData(n, d, wait)
        PROVE  Inv'
    BY <1>15 DEF ReturnData, Follow, ContinueWith
  <1>16. CASE Expire
    BY <1>16 DEF Expire
  <1>17. CASE UNCHANGED vars
    BY <1>17 DEF vars, pageVars, chainVars
  <1> QED
    BY <1>1, <1>2, <1>3, <1>4, <1>5, <1>6, <1>7, <1>8, <1>9, <1>10, <1>11, <1>12, <1>13,
       <1>14, <1>15, <1>16, <1>17
       DEF Next, FetchStep, Returns, Busy, Ended

\* No list or map holds anything yet.
LEMMA InitPlaced == Init => Placed /\ Worlds
  BY DEF Init, Placed, Worlds, Working

\* Types, for any scripts and values they return.
THEOREM TypeCorrect == Spec => []TypeOK
  BY InitTypes, InitPlaced, NextTypes, NextPlaced, PTL DEF Spec

\* A script is called in its phase and in its world (script.go:129-146, 178-190), whatever ids
\* the scripts return.
THEOREM AlwaysOwnPlace == Spec => []OwnPlace
  <1>1. TypeOK /\ Placed /\ Worlds => OwnPlace
    BY DEF TypeOK, Phases, Placed, Worlds, Working, Calling, OwnPlace, InScript
  <1> QED BY <1>1, InitPlaced, NextPlaced, TypeCorrect, PTL DEF Spec

-----------------------------------------------------------------------------
(* Chains.                                                                 *)

\* Every step keeps the data of the chain apart from that of others.
LEMMA NextChained == TypeOK /\ Placed /\ Chained /\ [Next]_vars => Chained'
  <1> SUFFICES ASSUME TypeOK, Placed, Chained, [Next]_vars PROVE Chained'
    OBVIOUS
  <1> USE DEF Chained, InChain, Calling, pageVars, chainVars
  <1>1. CASE LoadScripts
    BY <1>1 DEF LoadScripts
  <1>2. CASE EnterPhase
    BY <1>2 DEF EnterPhase, EnterKeeping
  <1>3. CASE StartChain
    BY <1>3, EmptyObject DEF StartChain, StartChainWith
  <1>4. CASE EndPhase
    BY <1>4 DEF EndPhase
  <1>5. CASE ChainEnds
    BY <1>5 DEF ChainEnds
  <1>6. CASE ScriptMissing
    BY <1>6 DEF ScriptMissing, FailPhase
  <1>7. CASE BuildArguments
    BY <1>7 DEF BuildArguments, Annotations
  <1>8. CASE Call
    BY <1>8 DEF Call, Annotations
  <1>9. CASE WaitReturns
    BY <1>9 DEF WaitReturns
  <1>10. CASE WorldFails
    BY <1>10 DEF WorldFails, FailPhase
  <1>11. CASE CallFails
    BY <1>11 DEF CallFails, FailsAt, FailPhase
  <1>12. CASE ReturnNothing
    BY <1>12 DEF ReturnNothing
  <1>13. CASE ReturnNonsense
    BY <1>13 DEF ReturnNonsense, FailPhase
  <1>14. ASSUME NEW n \in Scripts \cup {NoScript, "self", "unknown"}, NEW wait \in BOOLEAN,
               ReturnWithoutData(n, wait)
        PROVE  Chained'
    <2>1. data' = Empty /\ last' = Empty /\ pc' \in {"run", "wait"}
      BY <1>14 DEF ReturnWithoutData, Follow, ContinueWith
    <2> QED BY <2>1, EmptyObject
  <1>15. ASSUME NEW n \in Scripts \cup {NoScript, "self", "unknown"}, NEW wait \in BOOLEAN,
               NEW d \in Objects, ReturnData(n, d, wait)
        PROVE  Chained'
    <2>1. /\ pc = "running" /\ pc' \in {"run", "wait"} /\ data \in Objects
          /\ data' = Over(d, data) /\ last' = d /\ returned' = returned \cup Pairs(d)
      BY <1>15 DEF ReturnData, Follow, ContinueWith, TypeOK
    <2>2. /\ DOMAIN Over(d, data) = DOMAIN data \cup DOMAIN d
          /\ \A k \in DOMAIN d : Over(d, data)[k] = d[k]
          /\ Pairs(Over(d, data)) \subseteq Pairs(data) \cup Pairs(d)
      BY <2>1, Overlaid
    <2> QED BY <2>1, <2>2
  <1>16. CASE Expire
    BY <1>16 DEF Expire, Annotations
  <1>17. CASE UNCHANGED vars
    BY <1>17 DEF vars, pageVars, chainVars, Annotations
  <1> QED
    BY <1>1, <1>2, <1>3, <1>4, <1>5, <1>6, <1>7, <1>8, <1>9, <1>10, <1>11, <1>12, <1>13,
       <1>14, <1>15, <1>16, <1>17
       DEF Next, FetchStep, Returns, Busy, Ended

\* Arguments are the seed's annotations and what the same chain has returned, the latest first
\* (script/script.go:40-101).
THEOREM AlwaysFromChain == Spec => []ArgumentsFromChain
  <1>1. Init => Chained
    BY DEF Init, Chained, InChain, Calling
  <1>2. TypeOK /\ Placed /\ Chained => ArgumentsFromChain
    <2> SUFFICES ASSUME TypeOK, Placed, Chained, pc = "running" PROVE ArgumentsFromChain
      BY DEF ArgumentsFromChain, InScript
    <2>1. next \in Scripts /\ data \in Objects
      BY DEF Placed, Working, Calling, TypeOK
    <2>2. /\ Annotations(next) \in Objects
          /\ DOMAIN Annotations(next) = DOMAIN AnnotationOf[next] \cap DOMAIN seed
          /\ \A k \in DOMAIN Annotations(next) : Annotations(next)[k] = seed[k]
      BY <2>1, AnnotationsTyped
    <2>3. /\ DOMAIN args = DOMAIN Annotations(next) \cup DOMAIN data
          /\ \A k \in DOMAIN data : args[k] = data[k]
          /\ \A k \in DOMAIN Annotations(next) \ DOMAIN data : args[k] = Annotations(next)[k]
      <3>1. args = Over(data, Annotations(next))
        BY DEF Chained, Calling
      <3> DEFINE a == Annotations(next)  o == Over(data, a)
      <3>2. a \in Objects
        BY <2>2
      <3> HIDE DEF a
      <3>3. /\ DOMAIN o = DOMAIN a \cup DOMAIN data
            /\ \A k \in DOMAIN data : o[k] = data[k]
            /\ \A k \in DOMAIN a \ DOMAIN data : o[k] = a[k]
        BY <2>1, <3>2, Overlaid
      <3> QED BY <3>1, <3>3 DEF a
    <2>4. ASSUME NEW k \in DOMAIN data PROVE <<k, data[k]>> \in returned
      BY DEF Chained, InChain, Pairs
    <2> QED BY <2>2, <2>3, <2>4 DEF ArgumentsFromChain, Chained, InChain
  <1>3. Spec => [](TypeOK /\ Placed)
    BY InitPlaced, NextPlaced, TypeCorrect, PTL DEF Spec
  <1> QED BY <1>1, <1>2, <1>3, NextChained, PTL DEF Spec
=============================================================================
