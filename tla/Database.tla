------------------------------ MODULE Database ------------------------------
(***************************************************************************)
(* The connection to RethinkDB (database/database.go): queries of several  *)
(* Fetch goroutines share the field session, and each of them reconnects   *)
(* and retries on its own when it finds that session closed.               *)
(***************************************************************************)
EXTENDS Integers, FiniteSets

CONSTANTS
  Clients,    \* goroutines of Fetch
  MaxRetries  \* RethinkDbConnection.maxRetries

ASSUME DatabaseAssumption == MaxRetries \in Nat /\ IsFiniteSet(Clients) /\ Clients # {}

VARIABLES
  up,        \* the database is there
  session,   \* RethinkDbConnection.session is connected
  open,      \* sessions connected to the database, those no field refers to included
  query,     \* where each client is inside execWithRetry, or what it has returned
  attempts,  \* its variable attempts
  link,      \* the session its attempt, or its call of Connect, has is connected
  trouble    \* the database was gone, or timed out, since its query began

vars == <<up, session, open, query, attempts, link, trouble>>

Returned == {"ok", "error", "exhausted"}

TypeOK ==
  /\ up \in BOOLEAN /\ session \in BOOLEAN /\ open \in Nat
  /\ query \in [Clients -> {"none", "exec", "running", "read", "wait", "dial", "assign"}
                           \cup Returned]
  /\ attempts \in [Clients -> 0..(MaxRetries + 1)]
  /\ link \in [Clients -> BOOLEAN] /\ trouble \in [Clients -> BOOLEAN]
  /\ session => up /\ open > 0
  /\ \A c \in Clients : link[c] => up /\ open > 0 /\ query[c] \in {"running", "read", "assign"}

\* main has called Connect, and panics if it fails.
Init ==
  /\ up = TRUE /\ session = TRUE /\ open = 1
  /\ query = [c \in Clients |-> "none"] /\ attempts = [c \in Clients |-> 0]
  /\ link = [c \in Clients |-> FALSE] /\ trouble = [c \in Clients |-> FALSE]

To(c, where) == query' = [query EXCEPT ![c] = where]
Unlink(c)    == link' = [link EXCEPT ![c] = FALSE]

-----------------------------------------------------------------------------
(* One query.                                                              *)

\* execRead calls execWithRetry.
Begin(c) ==
  /\ query[c] = "none" /\ To(c, "exec")
  /\ trouble' = [trouble EXCEPT ![c] = ~up]
  /\ UNCHANGED <<up, session, open, attempts, link>>

\* exec: a context with a timeout, and the term is run on whatever session is now.
Exec(c) ==
  /\ query[c] = "exec" /\ To(c, "running")
  /\ attempts' = [attempts EXCEPT ![c] = @ + 1]
  /\ link' = [link EXCEPT ![c] = session]
  /\ UNCHANGED <<up, session, open, trouble>>

\* The database reads what was asked for ...
DbRead(c) ==
  /\ query[c] = "running" /\ link[c] /\ To(c, "read")
  /\ UNCHANGED <<up, session, open, attempts, link, trouble>>

\* ... and the cursor arrives.
Answered(c) ==
  /\ query[c] = "read" /\ link[c] /\ To(c, "ok") /\ Unlink(c)
  /\ UNCHANGED <<up, session, open, attempts, trouble>>

\* An error that is neither of the two below ends the query.  Likewise when nothing was found,
\* or what was cannot be decoded.
Refused(c) ==
  /\ query[c] \in {"running", "read"} /\ link[c] /\ To(c, "error") /\ Unlink(c)
  /\ UNCHANGED <<up, session, open, attempts, trouble>>

\* The answer is taken for one though it is an error.
TimedOutOk(c) ==
  /\ query[c] \in {"running", "read"} /\ link[c] /\ To(c, "ok") /\ Unlink(c)
  /\ trouble' = [trouble EXCEPT ![c] = TRUE]
  /\ UNCHANGED <<up, session, open, attempts>>

\* ErrQueryTimeout, for whatever reason the driver returns it.
TimedOut(c) ==
  /\ query[c] \in {"running", "read"} /\ link[c] /\ To(c, "wait") /\ Unlink(c)
  /\ trouble' = [trouble EXCEPT ![c] = TRUE]
  /\ UNCHANGED <<up, session, open, attempts>>

\* ErrConnectionClosed
ConnectionClosed(c) ==
  /\ query[c] \in {"running", "read"} /\ ~link[c] /\ To(c, "dial")
  /\ UNCHANGED <<up, session, open, attempts, link, trouble>>

\* The loop is left after the first attempt.
NoRetry(c) == To(c, "exhausted") /\ UNCHANGED <<up, open, attempts, trouble>>

\* attempts is declared in the loop.
RetryForEver(c) ==
  /\ To(c, "exec") /\ attempts' = [attempts EXCEPT ![c] = 0]
  /\ UNCHANGED <<up, open, trouble>>

\* The end of the loop: attempts > maxRetries.
Retry(c) ==
  /\ To(c, IF attempts[c] > MaxRetries THEN "exhausted" ELSE "exec")
  /\ UNCHANGED <<up, open, attempts, trouble>>

\* wait returns: the database is ready, its time is over, or it fails; all the same.
Waited(c) ==
  /\ query[c] = "wait" /\ Retry(c)
  /\ UNCHANGED <<session, link>>

\* Connect: the driver makes a new session, connected or not, ...
Dial(c) ==
  /\ query[c] = "dial" /\ To(c, "assign")
  /\ link' = [link EXCEPT ![c] = up]
  /\ open' = IF up THEN open + 1 ELSE open
  /\ UNCHANGED <<up, session, attempts, trouble>>

\* Connect declares a session of its own.
AssignNothing(c) == query[c] = "assign" /\ UNCHANGED session /\ Unlink(c) /\ Retry(c)

\* ... which takes the place of the one in the field, whatever that is by now.
Assign(c) == query[c] = "assign" /\ session' = link[c] /\ Unlink(c) /\ Retry(c)

\* The caller goes on; what the query leaves behind is forgotten.
Return(c) ==
  /\ query[c] \in Returned /\ To(c, "none")
  /\ attempts' = [attempts EXCEPT ![c] = 0]
  /\ trouble' = [trouble EXCEPT ![c] = FALSE]
  /\ UNCHANGED <<up, session, open, link>>

QueryStep(c) ==
  \/ Exec(c) \/ DbRead(c) \/ Answered(c) \/ Refused(c) \/ TimedOut(c) \/ ConnectionClosed(c)
  \/ Waited(c) \/ Dial(c) \/ Assign(c) \/ Return(c)

-----------------------------------------------------------------------------
(* The database: when it goes away all sessions are closed.                *)

GoesDown ==
  /\ up /\ up' = FALSE
  /\ session' = FALSE /\ open' = 0
  /\ link' = [c \in Clients |-> FALSE]
  /\ trouble' = [c \in Clients |-> query[c] # "none"]
  /\ UNCHANGED <<query, attempts>>

ComesUp ==
  /\ ~up /\ up' = TRUE
  /\ UNCHANGED <<session, open, query, attempts, link, trouble>>

-----------------------------------------------------------------------------
Next ==
  \/ \E c \in Clients : Begin(c) \/ QueryStep(c)
  \/ GoesDown \/ ComesUp

\* Goroutines run, an attempt ends with its context, and a wait and a call of Connect have time
\* limits of their own.  The database need not come back.
Fairness == \A c \in Clients : WF_vars(QueryStep(c))

Spec     == Init /\ [][Next]_vars
FairSpec == Spec /\ Fairness

-----------------------------------------------------------------------------
(* Properties.                                                             *)

\* A query fails for want of a connection only if the database was away, or slow, while it was
\* made, provided that there is a retry for each client: every one of them may still be
\* putting an unconnected session from before in the place of a connected one.
FailsOnlyInTrouble ==
  MaxRetries >= Cardinality(Clients) =>
    \A c \in Clients : query[c] = "exhausted" => trouble[c]

\* Clients that reconnect at the same time leave connected sessions behind that nobody closes,
\* but not without limit: after an outage each failed Connect that is still to be assigned
\* makes those that have got over it reconnect once more, 1 + 2 + ... + N times in all.
ConnectionsBounded == 2 * open <= Cardinality(Clients) * (Cardinality(Clients) + 1)

\* Every query ends, with or without an answer, also if the database never comes back.
QueriesEnd == \A c \in Clients : query[c] = "exec" ~> query[c] \in Returned

\* Whatever the retries do, the caller sees what Query promises.
Stage(q) ==
  CASE q \in {"exec", "running", "wait", "dial", "assign"} -> "asked"
    [] q = "ok" -> "answered"
    [] q \in {"error", "exhausted"} -> "failed"
    [] OTHER -> q

Promise == INSTANCE Query WITH stage <- [c \in Clients |-> Stage(query[c])]

ImplementsQuery == Promise!QuerySpec
=============================================================================
