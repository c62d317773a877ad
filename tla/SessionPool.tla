----------------------------- MODULE SessionPool -----------------------------
(***************************************************************************)
(* What the controller loop and the session registry promise together:     *)
(* sessions are a pool that one dispatcher lends from, one session for one *)
(* page, and a session returns to the pool only when the report of its     *)
(* page has been made or tried.                                            *)
(***************************************************************************)
EXTENDS Naturals

CONSTANTS Ids, Pages, NoSession

VARIABLES
  free,      \* sessions that may be lent
  reserved,  \* the session the dispatcher holds, if any
  progress,  \* what has happened to each page
  lentTo     \* the session each page has

poolVars == <<free, reserved, progress, lentTo>>

Init ==
  /\ free = Ids /\ reserved = {}
  /\ progress = [p \in Pages |-> "waiting"]
  /\ lentTo = [p \in Pages |-> NoSession]

Reserve(i) ==
  /\ reserved = {} /\ i \in free
  /\ reserved' = {i} /\ free' = free \ {i}
  /\ UNCHANGED <<progress, lentTo>>

\* No page: the session returns.
Return(i) ==
  /\ i \in reserved
  /\ reserved' = {} /\ free' = free \cup {i}
  /\ UNCHANGED <<progress, lentTo>>

\* No browser to be had: the session is lost, and the dispatcher is about to stop.
Lose(i) ==
  /\ i \in reserved
  /\ reserved' = {}
  /\ UNCHANGED <<free, progress, lentTo>>

Lend(p, i) ==
  /\ progress[p] = "waiting" /\ i \in reserved
  /\ reserved' = {}
  /\ progress' = [progress EXCEPT ![p] = "running"]
  /\ lentTo' = [lentTo EXCEPT ![p] = i]
  /\ UNCHANGED free

Report(p) ==
  /\ progress[p] = "running"
  /\ progress' = [progress EXCEPT ![p] = "reported"]
  /\ UNCHANGED <<free, reserved, lentTo>>

Finish(p) ==
  /\ progress[p] = "reported"
  /\ progress' = [progress EXCEPT ![p] = "finished"]
  /\ free' = free \cup {lentTo[p]}
  /\ lentTo' = [lentTo EXCEPT ![p] = NoSession]
  /\ UNCHANGED reserved

Next ==
  \/ \E i \in Ids : Reserve(i) \/ Return(i) \/ Lose(i)
  \/ \E p \in Pages : Report(p) \/ Finish(p) \/ \E i \in Ids : Lend(p, i)

Spec == Init /\ [][Next]_poolVars
=============================================================================
