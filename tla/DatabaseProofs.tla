--------------------------- MODULE DatabaseProofs ---------------------------
(***************************************************************************)
(* Proofs about Database, for any number of clients and retries: retries   *)
(* are enough if there is one for each client, the connections left behind *)
(* are bounded, and whatever the reconnecting and retrying does, the       *)
(* caller sees a query that is answered by the attempt that has read the   *)
(* answer, or fails.                                                       *)
(***************************************************************************)
EXTENDS Database, FiniteSetTheorems, TLAPS

StageMap == [c \in Clients |-> Stage(query[c])]

\* What an attempt is counted as when it begins: Begin and Retry leave room for it.
Counted ==
  \A c \in Clients : /\ query[c] = "none" => attempts[c] = 0
                     /\ query[c] = "exec" => attempts[c] <= MaxRetries

Steps == {"none", "exec", "running", "read", "wait", "dial", "assign"} \cup Returned

-----------------------------------------------------------------------------
(* Types.                                                                  *)

\* main has connected, and no query has begun.
LEMMA InitTypes == Init => TypeOK /\ Counted
  BY DatabaseAssumption DEF Init, TypeOK, Counted

\* Every step keeps the types: a session is connected only while the database is there, and
\* there is at least that one; attempts end at maxRetries + 1.
LEMMA NextTypes == TypeOK /\ Counted /\ [Next]_vars => TypeOK' /\ Counted'
  <1> SUFFICES ASSUME TypeOK, Counted, [Next]_vars PROVE TypeOK' /\ Counted'
    OBVIOUS
  <1> USE DatabaseAssumption DEF TypeOK, Counted, To, Unlink, Returned
  <1>1. ASSUME NEW c \in Clients, Begin(c) PROVE TypeOK' /\ Counted'
    <2>1. CASE up
      <3>1. (~up) = FALSE
        BY <2>1
      <3>2. trouble' = [trouble EXCEPT ![c] = FALSE]
        BY <1>1, <3>1, Zenon DEF Begin
      <3> QED BY <1>1, <3>2 DEF Begin
    <2>2. CASE ~up
      <3>1. (~up) = TRUE
        BY <2>2
      <3>2. trouble' = [trouble EXCEPT ![c] = TRUE]
        BY <1>1, <3>1, Zenon DEF Begin
      <3> QED BY <1>1, <3>2 DEF Begin
    <2> QED BY <2>1, <2>2
  <1>2. ASSUME NEW c \in Clients, Exec(c) PROVE TypeOK' /\ Counted'
    BY <1>2 DEF Exec
  <1>3. ASSUME NEW c \in Clients, DbRead(c) PROVE TypeOK' /\ Counted'
    BY <1>3 DEF DbRead
  <1>4. ASSUME NEW c \in Clients, Answered(c) PROVE TypeOK' /\ Counted'
    BY <1>4 DEF Answered
  <1>5. ASSUME NEW c \in Clients, Refused(c) PROVE TypeOK' /\ Counted'
    BY <1>5 DEF Refused
  <1>6. ASSUME NEW c \in Clients, TimedOut(c) PROVE TypeOK' /\ Counted'
    BY <1>6 DEF TimedOut
  <1>7. ASSUME NEW c \in Clients, ConnectionClosed(c) PROVE TypeOK' /\ Counted'
    BY <1>7 DEF ConnectionClosed
  <1>8. ASSUME NEW c \in Clients, Waited(c) PROVE TypeOK' /\ Counted'
    BY <1>8 DEF Waited, Retry
  <1>9. ASSUME NEW c \in Clients, Dial(c) PROVE TypeOK' /\ Counted'
    BY <1>9 DEF Dial
  <1>10. ASSUME NEW c \in Clients, Assign(c) PROVE TypeOK' /\ Counted'
    BY <1>10 DEF Assign, Retry
  <1>11. ASSUME NEW c \in Clients, Return(c) PROVE TypeOK' /\ Counted'
    BY <1>11 DEF Return
  <1>12. CASE GoesDown
    <2>1. trouble' \in [Clients -> BOOLEAN]
      BY <1>12, Zenon DEF GoesDown
    <2> QED BY <1>12, <2>1 DEF GoesDown
  <1>13. CASE ComesUp
    BY <1>13 DEF ComesUp
  <1>14. CASE UNCHANGED vars
    BY <1>14 DEF vars
  <1> QED
    BY <1>1, <1>2, <1>3, <1>4, <1>5, <1>6, <1>7, <1>8, <1>9, <1>10, <1>11, <1>12, <1>13, <1>14
       DEF Next, QueryStep

\* Types of the connection, for any number of clients and retries.
THEOREM TypeCorrect == Spec => []TypeOK
  BY InitTypes, NextTypes, PTL DEF Spec

-----------------------------------------------------------------------------
(* Retries.  An attempt of a client without trouble is used up by a        *)
(* session that was not connected: the one it found, or one that another   *)
(* client has dialled in vain and not yet assigned.  There are never more  *)
(* of these than the client has attempts left.                             *)

\* Clients that have dialled in vain, and are about to assign an unconnected session.
Unconnected == {c \in Clients : query[c] = "assign" /\ ~link[c]}

Failed == Cardinality(Unconnected)
N      == Cardinality(Clients)

Retrying(c) == (query[c] = "running" /\ ~link[c]) \/ query[c] \in {"dial", "assign"}

\* What holds of a client whose query has seen no trouble
Room(c) ==
  /\ up
  /\ query[c] = "exec" => attempts[c] + Failed + (IF session THEN 0 ELSE 1) <= N
  /\ Retrying(c) => attempts[c] + Failed <= N
  /\ query[c] \in {"read", "assign"} => link[c]
  /\ query[c] # "wait"
  /\ query[c] = "exhausted" => MaxRetries < N

Unharmed(c) == query[c] # "none" /\ ~trouble[c]

RetriesLeft == \A c \in Clients : Unharmed(c) => Room(c)

\* The clients can be counted, and those with an unconnected session among them.
LEMMA Counts == N \in Nat /\ Failed \in Nat /\ Failed <= N
  <1>1. Unconnected \subseteq Clients
    BY DEF Unconnected
  <1> QED BY <1>1, DatabaseAssumption, FS_Subset, FS_CardinalityType DEF Failed, N

\* A client that does not hold an unconnected session leaves room for itself.
LEMMA OneElse == ASSUME NEW c \in Clients, c \notin Unconnected PROVE Failed + 1 <= N
  <1>1. Unconnected \subseteq Clients \ {c}
    BY DEF Unconnected
  <1>2. IsFiniteSet(Clients \ {c}) /\ Cardinality(Clients \ {c}) = N - 1
    BY DatabaseAssumption, FS_RemoveElement DEF N
  <1>3. Failed <= N - 1
    BY <1>1, <1>2, FS_Subset DEF Failed
  <1> QED BY <1>3, Counts

\* A step of a client that keeps the session, and neither gains nor loses an unconnected one,
\* is about its own room only.
LEMMA OwnRoom ==
  ASSUME TypeOK, RetriesLeft, NEW c \in Clients, Unconnected' = Unconnected,
         up' = up, session' = session,
         \A d \in Clients \ {c} : /\ query'[d] = query[d] /\ attempts'[d] = attempts[d]
                                  /\ link'[d] = link[d] /\ trouble'[d] = trouble[d],
         Unharmed(c)' => Room(c)'
  PROVE  RetriesLeft'
  <1>1. Failed' = Failed
    BY DEF Failed
  <1> QED BY <1>1 DEF RetriesLeft, Unharmed, Room, Retrying, N

\* The retry loop keeps the room: an attempt that has failed for want of a connection has used
\* up a session that is no longer there for another.
LEMMA NextRoom == TypeOK /\ Counted /\ RetriesLeft /\ [Next]_vars => RetriesLeft'
  <1> SUFFICES ASSUME TypeOK, Counted, RetriesLeft, [Next]_vars PROVE RetriesLeft'
    OBVIOUS
  <1> USE DEF To, Unlink
  <1>1. ASSUME NEW c \in Clients, Begin(c) PROVE RetriesLeft'
    <2>1. Unconnected' = Unconnected /\ c \notin Unconnected
      BY <1>1 DEF Begin, Unconnected, TypeOK
    <2>2. Failed' = Failed
      BY <2>1 DEF Failed
    <2>3. Unharmed(c)' => up
      BY <1>1 DEF Begin, Unharmed, TypeOK
    <2>4. attempts[c] = 0
      BY <1>1 DEF Begin, Counted
    <2>5. Unharmed(c)' => Room(c)'
      BY <1>1, <2>1, <2>2, <2>3, <2>4, OneElse, Counts DEF Begin, Room, Retrying, TypeOK, N
    <2> QED BY <1>1, <2>1, <2>5, OwnRoom DEF Begin, TypeOK
  <1>2. ASSUME NEW c \in Clients, Exec(c) PROVE RetriesLeft'
    <2>1. Unconnected' = Unconnected
      BY <1>2 DEF Exec, Unconnected, TypeOK, Returned
    <2>2. Failed' = Failed
      BY <2>1 DEF Failed
    <2>3. Unharmed(c)' => Room(c)'
      BY <1>2, <2>2, Counts
         DEF Exec, RetriesLeft, Unharmed, Room, Retrying, TypeOK, N, Returned
    <2> QED BY <1>2, <2>1, <2>3, OwnRoom DEF Exec, TypeOK
  <1>3. ASSUME NEW c \in Clients, DbRead(c) PROVE RetriesLeft'
    <2>1. Unconnected' = Unconnected
      BY <1>3 DEF DbRead, Unconnected, TypeOK, Returned
    <2>2. Failed' = Failed
      BY <2>1 DEF Failed
    <2>3. Unharmed(c)' => Room(c)'
      BY <1>3, <2>2, Counts
         DEF DbRead, RetriesLeft, Unharmed, Room, Retrying, TypeOK, N, Returned
    <2> QED BY <1>3, <2>1, <2>3, OwnRoom DEF DbRead, TypeOK
  <1>4. ASSUME NEW c \in Clients, Answered(c) PROVE RetriesLeft'
    <2>1. Unconnected' = Unconnected
      BY <1>4 DEF Answered, Unconnected, TypeOK, Returned
    <2>2. Failed' = Failed
      BY <2>1 DEF Failed
    <2>3. Unharmed(c)' => Room(c)'
      BY <1>4, <2>2, Counts
         DEF Answered, RetriesLeft, Unharmed, Room, Retrying, TypeOK, N, Returned
    <2> QED BY <1>4, <2>1, <2>3, OwnRoom DEF Answered, TypeOK
  <1>5. ASSUME NEW c \in Clients, Refused(c) PROVE RetriesLeft'
    <2>1. Unconnected' = Unconnected
      BY <1>5 DEF Refused, Unconnected, TypeOK, Returned
    <2>2. Failed' = Failed
      BY <2>1 DEF Failed
    <2>3. Unharmed(c)' => Room(c)'
      BY <1>5, <2>2, Counts
         DEF Refused, RetriesLeft, Unharmed, Room, Retrying, TypeOK, N, Returned
    <2> QED BY <1>5, <2>1, <2>3, OwnRoom DEF Refused, TypeOK
  <1>6. ASSUME NEW c \in Clients, TimedOut(c) PROVE RetriesLeft'
    <2>1. Unconnected' = Unconnected
      BY <1>6 DEF TimedOut, Unconnected, TypeOK, Returned
    <2>2. Failed' = Failed
      BY <2>1 DEF Failed
    <2>3. Unharmed(c)' => Room(c)'
      BY <1>6, <2>2, Counts
         DEF TimedOut, RetriesLeft, Unharmed, Room, Retrying, TypeOK, N, Returned
    <2> QED BY <1>6, <2>1, <2>3, OwnRoom DEF TimedOut, TypeOK
  <1>7. ASSUME NEW c \in Clients, ConnectionClosed(c) PROVE RetriesLeft'
    <2>1. Unconnected' = Unconnected
      BY <1>7 DEF ConnectionClosed, Unconnected, TypeOK, Returned
    <2>2. Failed' = Failed
      BY <2>1 DEF Failed
    <2>3. Unharmed(c)' => Room(c)'
      BY <1>7, <2>2, Counts
         DEF ConnectionClosed, RetriesLeft, Unharmed, Room, Retrying, TypeOK, N, Returned
    <2> QED BY <1>7, <2>1, <2>3, OwnRoom DEF ConnectionClosed, TypeOK
  <1>8. ASSUME NEW c \in Clients, Waited(c) PROVE RetriesLeft'
    <2>1. Unconnected' = Unconnected
      BY <1>8 DEF Waited, Retry, Unconnected, TypeOK, Returned
    <2>2. Failed' = Failed
      BY <2>1 DEF Failed
    <2>3. Unharmed(c)' => Room(c)'
      BY <1>8, <2>2, Counts
         DEF Waited, Retry, RetriesLeft, Unharmed, Room, Retrying, TypeOK, N, Returned
    <2> QED BY <1>8, <2>1, <2>3, OwnRoom DEF Waited, Retry, TypeOK
  <1>9. ASSUME NEW c \in Clients, Dial(c) PROVE RetriesLeft'
    <2>1. CASE up
      <3>1. Unconnected' = Unconnected
        BY <1>9, <2>1 DEF Dial, Unconnected, TypeOK
      <3>2. Failed' = Failed
        BY <3>1 DEF Failed
      <3>3. Unharmed(c)' => Room(c)'
        BY <1>9, <2>1, <3>2 DEF Dial, RetriesLeft, Unharmed, Room, Retrying, TypeOK, N
      <3> QED BY <1>9, <3>1, <3>3, OwnRoom DEF Dial, TypeOK
    <2>2. CASE ~up
      BY <1>9, <2>2 DEF Dial, RetriesLeft, Unharmed, Room, TypeOK
    <2> QED BY <2>1, <2>2
  <1>10. ASSUME NEW c \in Clients, Return(c) PROVE RetriesLeft'
    <2>1. Unconnected' = Unconnected
      BY <1>10 DEF Return, Unconnected, TypeOK, Returned
    <2>2. Failed' = Failed
      BY <2>1 DEF Failed
    <2>3. Unharmed(c)' => Room(c)'
      BY <1>10, <2>2, Counts
         DEF Return, RetriesLeft, Unharmed, Room, Retrying, TypeOK, N, Returned
    <2> QED BY <1>10, <2>1, <2>3, OwnRoom DEF Return, TypeOK
  <1>11. ASSUME NEW c \in Clients, Assign(c), link[c] PROVE RetriesLeft'
    <2>1. Unconnected' = Unconnected
      BY <1>11 DEF Assign, Retry, Unconnected, TypeOK
    <2>2. Failed' = Failed
      BY <2>1 DEF Failed
    <2>3. session' = TRUE
      BY <1>11 DEF Assign
    <2>4. Unharmed(c)' => Room(c)'
      BY <1>11, <2>2, <2>3, Counts, DatabaseAssumption
         DEF Assign, Retry, RetriesLeft, Unharmed, Room, Retrying, TypeOK, N
    <2>5. ASSUME NEW d \in Clients \ {c}, Unharmed(d)' PROVE Room(d)'
      BY <1>11, <2>2, <2>3, <2>5, Counts
         DEF Assign, Retry, RetriesLeft, Unharmed, Room, Retrying, TypeOK, N
    <2> QED BY <2>4, <2>5 DEF RetriesLeft
  <1>12. ASSUME NEW c \in Clients, Assign(c), ~link[c] PROVE RetriesLeft'
    <2>1. c \in Unconnected /\ Unconnected' = Unconnected \ {c}
      BY <1>12 DEF Assign, Retry, Unconnected, TypeOK
    <2>2. IsFiniteSet(Unconnected)
      BY DatabaseAssumption, FS_Subset DEF Unconnected
    <2>3. Failed' = Failed - 1
      BY <2>1, <2>2, FS_RemoveElement DEF Failed
    <2>4. ~Unharmed(c)'
      BY <1>12 DEF Assign, Retry, RetriesLeft, Unharmed, Room, TypeOK
    <2>5. ASSUME NEW d \in Clients \ {c}, Unharmed(d)' PROVE Room(d)'
      BY <1>12, <2>3, <2>5, Counts
         DEF Assign, Retry, RetriesLeft, Unharmed, Room, Retrying, TypeOK, N
    <2> QED BY <2>4, <2>5 DEF RetriesLeft
  <1>13. CASE GoesDown
    BY <1>13 DEF GoesDown, RetriesLeft, Unharmed
  <1>14. CASE ComesUp
    BY <1>14 DEF ComesUp, RetriesLeft, Unharmed, Room
  <1>15. CASE UNCHANGED vars
    BY <1>15 DEF vars, RetriesLeft, Unharmed, Room, Retrying, Failed, Unconnected
  <1> QED
    BY <1>1, <1>2, <1>3, <1>4, <1>5, <1>6, <1>7, <1>8, <1>9, <1>10, <1>11, <1>12, <1>13, <1>14, <1>15
       DEF Next, QueryStep

\* With a retry for each client, a query that fails for want of a connection has seen the
\* database away, or slow (database.go:169-199), whatever the others assign to the session.
THEOREM RetriesAreEnough == Spec => []FailsOnlyInTrouble
  <1>1. Init => RetriesLeft
    BY DEF Init, RetriesLeft, Unharmed
  <1>2. RetriesLeft => FailsOnlyInTrouble
    BY Counts, DatabaseAssumption DEF RetriesLeft, Unharmed, Room, FailsOnlyInTrouble, N
  <1> QED
    BY <1>1, <1>2, InitTypes, NextTypes, NextRoom, PTL DEF Spec

-----------------------------------------------------------------------------
(* Connections.  While the database is up a client connects once more for  *)
(* each time that it finds the session unconnected, and it is that only    *)
(* when a client has assigned what it had dialled in vain before.          *)

\* Clients that have met a closed session, and will connect.
Doomed == {c \in Clients : query[c] = "dial" \/ (query[c] \in {"running", "read"} /\ ~link[c])}

\* Clients that have not, and are not about to assign a session: the field decides for them.
Unaware == {c \in Clients \ Doomed : query[c] # "assign"}

Dials == Cardinality(Doomed)
Still == IF session THEN 0 ELSE Cardinality(Unaware)

\* Twice the number of times that k unconnected sessions can make n clients connect: when one
\* is assigned, all but those that hold the others.
ToCome(n, k) == k * (2 * n + 1 - k)

DialsLeft ==
  IF up THEN 2 * (open + Dials + Still) + ToCome(N, Failed) <= N * (N + 1)
        ELSE open = 0

\* Groups of clients that have nobody in common are together no more than the clients.
LEMMA Groups ==
  ASSUME NEW A \in SUBSET Clients, NEW B \in SUBSET Clients, NEW C \in SUBSET Clients,
         A \cap B = {}, A \cap C = {}, B \cap C = {}
  PROVE  /\ Cardinality(A) \in Nat /\ Cardinality(B) \in Nat /\ Cardinality(C) \in Nat
         /\ Cardinality(A) + Cardinality(B) + Cardinality(C) <= N
  <1>1. IsFiniteSet(A) /\ IsFiniteSet(B) /\ IsFiniteSet(C) /\ IsFiniteSet({})
    BY DatabaseAssumption, FS_Subset, FS_EmptySet
  <1>2. IsFiniteSet(A \cup B) /\ Cardinality(A \cup B) = Cardinality(A) + Cardinality(B)
    BY <1>1, FS_Union, FS_EmptySet, FS_CardinalityType
  <1>3. Cardinality((A \cup B) \cup C) = Cardinality(A \cup B) + Cardinality(C)
    <2>1. (A \cup B) \cap C = {}
      OBVIOUS
    <2>2. /\ Cardinality((A \cup B) \cup C)
               = Cardinality(A \cup B) + Cardinality(C) - Cardinality((A \cup B) \cap C)
          /\ Cardinality((A \cup B) \cap C) = 0
      BY <1>1, <1>2, <2>1, FS_Union, FS_EmptySet
    <2>3. Cardinality(A \cup B) \in Nat /\ Cardinality(C) \in Nat
      BY <1>1, <1>2, FS_CardinalityType
    <2> QED BY <2>2, <2>3
  <1>4. Cardinality((A \cup B) \cup C) <= N
    <2>1. (A \cup B) \cup C \in SUBSET Clients
      OBVIOUS
    <2> QED BY <2>1, DatabaseAssumption, FS_Subset DEF N
  <1> QED BY <1>1, <1>2, <1>3, <1>4, FS_CardinalityType

\* One unconnected session less
LEMMA OneAssigned ==
  ASSUME NEW n \in Nat, NEW k \in Nat PROVE ToCome(n, k - 1) = ToCome(n, k) - 2 * (n - k + 1)
  BY DEF ToCome

\* All clients may connect after an outage, and those in the middle of it more than once.
LEMMA AfterOutage ==
  ASSUME NEW n \in Nat, NEW k \in Nat, NEW m \in Nat, k + m <= n
  PROVE  2 * m + ToCome(n, k) <= n * (n + 1)
  <1> DEFINE r == n - k
  <1>1. r \in Nat /\ m <= r /\ n = k + r
    OBVIOUS
  <1> HIDE DEF r
  <1>2. n * (n + 1) - ToCome(n, k) = r * r + r
    BY <1>1 DEF ToCome
  <1>3. r <= r * r
    BY <1>1
  <1>4. ToCome(n, k) \in Int
    BY DEF ToCome
  <1>5. n * (n + 1) \in Int /\ r * r \in Int
    BY <1>1
  <1> QED BY <1>1, <1>2, <1>3, <1>4, <1>5

\* The groups of the connection.
LEMMA GroupsOfClients ==
  /\ Failed \in Nat /\ Dials \in Nat /\ Cardinality(Unaware) \in Nat /\ Still \in Nat
  /\ Failed + Dials + Cardinality(Unaware) <= N
  /\ N \in Nat /\ ToCome(N, Failed) \in Int /\ N * (N + 1) \in Int
  <1>1. /\ Unconnected \in SUBSET Clients /\ Doomed \in SUBSET Clients
        /\ Unaware \in SUBSET Clients
        /\ Unconnected \cap Doomed = {} /\ Unconnected \cap Unaware = {} /\ Doomed \cap Unaware = {}
    BY DEF Unconnected, Doomed, Unaware
  <1>2. N \in Nat
    BY Counts
  <1>3. Failed \in Nat /\ Dials \in Nat /\ Cardinality(Unaware) \in Nat
        /\ Failed + Dials + Cardinality(Unaware) <= N
    BY <1>1, Groups DEF Failed, Dials
  <1> QED BY <1>2, <1>3 DEF Still, ToCome

\* A step that changes neither the field nor the groups of the clients
LEMMA SameGroups ==
  ASSUME DialsLeft, UNCHANGED <<up, session, open>>,
         Unconnected' = Unconnected, Doomed' = Doomed, Unaware' = Unaware
  PROVE  DialsLeft'
  BY DEF DialsLeft, Failed, Dials, Still, N

\* Every step keeps the number of connections still to come within the bound.
LEMMA NextDials == TypeOK /\ DialsLeft /\ [Next]_vars => DialsLeft'
  <1> SUFFICES ASSUME TypeOK, DialsLeft, [Next]_vars PROVE DialsLeft'
    OBVIOUS
  <1> USE DEF To, Unlink, Returned
  <1>1. ASSUME NEW c \in Clients, Begin(c) PROVE DialsLeft'
    <2>1. Unconnected' = Unconnected /\ Doomed' = Doomed /\ Unaware' = Unaware
      BY <1>1 DEF Begin, TypeOK, Unconnected, Doomed, Unaware
    <2> QED BY <1>1, <2>1, SameGroups DEF Begin
  <1>2. ASSUME NEW c \in Clients, DbRead(c) PROVE DialsLeft'
    <2>1. Unconnected' = Unconnected /\ Doomed' = Doomed /\ Unaware' = Unaware
      BY <1>2 DEF DbRead, TypeOK, Unconnected, Doomed, Unaware
    <2> QED BY <1>2, <2>1, SameGroups DEF DbRead
  <1>3. ASSUME NEW c \in Clients, Answered(c) PROVE DialsLeft'
    <2>1. Unconnected' = Unconnected /\ Doomed' = Doomed /\ Unaware' = Unaware
      BY <1>3 DEF Answered, TypeOK, Unconnected, Doomed, Unaware
    <2> QED BY <1>3, <2>1, SameGroups DEF Answered
  <1>4. ASSUME NEW c \in Clients, Refused(c) PROVE DialsLeft'
    <2>1. Unconnected' = Unconnected /\ Doomed' = Doomed /\ Unaware' = Unaware
      BY <1>4 DEF Refused, TypeOK, Unconnected, Doomed, Unaware
    <2> QED BY <1>4, <2>1, SameGroups DEF Refused
  <1>5. ASSUME NEW c \in Clients, TimedOut(c) PROVE DialsLeft'
    <2>1. Unconnected' = Unconnected /\ Doomed' = Doomed /\ Unaware' = Unaware
      BY <1>5 DEF TimedOut, TypeOK, Unconnected, Doomed, Unaware
    <2> QED BY <1>5, <2>1, SameGroups DEF TimedOut
  <1>6. ASSUME NEW c \in Clients, ConnectionClosed(c) PROVE DialsLeft'
    <2>1. Unconnected' = Unconnected /\ Doomed' = Doomed /\ Unaware' = Unaware
      BY <1>6 DEF ConnectionClosed, TypeOK, Unconnected, Doomed, Unaware
    <2> QED BY <1>6, <2>1, SameGroups DEF ConnectionClosed
  <1>7. ASSUME NEW c \in Clients, Waited(c) PROVE DialsLeft'
    <2>1. Unconnected' = Unconnected /\ Doomed' = Doomed /\ Unaware' = Unaware
      BY <1>7 DEF Waited, Retry, TypeOK, Unconnected, Doomed, Unaware
    <2> QED BY <1>7, <2>1, SameGroups DEF Waited, Retry
  <1>8. ASSUME NEW c \in Clients, Return(c) PROVE DialsLeft'
    <2>1. Unconnected' = Unconnected /\ Doomed' = Doomed /\ Unaware' = Unaware
      BY <1>8 DEF Return, TypeOK, Unconnected, Doomed, Unaware
    <2> QED BY <1>8, <2>1, SameGroups DEF Return
  <1>9. ASSUME NEW c \in Clients, Exec(c) PROVE DialsLeft'
    <2>1. CASE session
      <3>1. Unconnected' = Unconnected /\ Doomed' = Doomed /\ Unaware' = Unaware
        BY <1>9, <2>1 DEF TypeOK, Exec, Unconnected, Doomed, Unaware
      <3> QED BY <1>9, <3>1, SameGroups DEF Exec
    <2>2. CASE ~session
      <3>1. /\ Unconnected' = Unconnected
            /\ c \notin Doomed /\ Doomed' = Doomed \cup {c}
            /\ c \in Unaware /\ Unaware' = Unaware \ {c}
        BY <1>9, <2>2 DEF TypeOK, Exec, Unconnected, Doomed, Unaware
      <3>2. IsFiniteSet(Doomed) /\ IsFiniteSet(Unaware)
        BY DatabaseAssumption, FS_Subset DEF Doomed, Unaware
      <3>3. Dials' = Dials + 1 /\ Cardinality(Unaware') = Cardinality(Unaware) - 1
        BY <3>1, <3>2, FS_AddElement, FS_RemoveElement DEF Dials
      <3>4. Failed' = Failed /\ N' = N
        BY <3>1 DEF Failed, N
      <3>5. Still' = Still - 1
        BY <1>9, <2>2, <3>3 DEF Exec, Still
      <3> QED BY <1>9, <3>3, <3>4, <3>5, GroupsOfClients DEF TypeOK, Exec, DialsLeft
    <2> QED BY <2>1, <2>2
  <1>10. ASSUME NEW c \in Clients, Dial(c) PROVE DialsLeft'
    <2>1. CASE up
      <3>1. /\ Unconnected' = Unconnected /\ Unaware' = Unaware
            /\ c \in Doomed /\ Doomed' = Doomed \ {c}
        BY <1>10, <2>1 DEF TypeOK, Dial, Unconnected, Doomed, Unaware
      <3>2. IsFiniteSet(Doomed)
        BY DatabaseAssumption, FS_Subset DEF Doomed
      <3>3. Dials' = Dials - 1
        BY <3>1, <3>2, FS_RemoveElement DEF Dials
      <3>4. Failed' = Failed /\ N' = N /\ Still' = Still
        BY <1>10, <3>1 DEF Dial, Failed, N, Still
      <3>5. open' = open + 1 /\ up'
        BY <1>10, <2>1 DEF Dial
      <3> QED BY <2>1, <3>3, <3>4, <3>5, GroupsOfClients DEF TypeOK, DialsLeft
    <2>2. CASE ~up
      BY <1>10, <2>2 DEF Dial, DialsLeft
    <2> QED BY <2>1, <2>2
  <1>11. ASSUME NEW c \in Clients, Assign(c), link[c] PROVE DialsLeft'
    <2>1. Unconnected' = Unconnected /\ Doomed' = Doomed
      BY <1>11 DEF TypeOK, Assign, Retry, Unconnected, Doomed
    <2>2. Failed' = Failed /\ N' = N /\ Dials' = Dials
      BY <2>1 DEF Failed, N, Dials
    <2>3. Still' = 0
      BY <1>11 DEF TypeOK, Assign, Still
    <2> QED BY <1>11, <2>2, <2>3, GroupsOfClients DEF TypeOK, Assign, Retry, DialsLeft
  <1>12. ASSUME NEW c \in Clients, Assign(c), ~link[c] PROVE DialsLeft'
    <2>1. /\ c \in Unconnected /\ Unconnected' = Unconnected \ {c} /\ Doomed' = Doomed
          /\ Unaware' \in SUBSET Clients
          /\ Unconnected' \cap Doomed' = {} /\ Unconnected' \cap Unaware' = {}
          /\ Doomed' \cap Unaware' = {}
      BY <1>12 DEF TypeOK, Assign, Retry, Unconnected, Doomed, Unaware
    <2>2. IsFiniteSet(Unconnected)
      BY DatabaseAssumption, FS_Subset DEF Unconnected
    <2>3. Failed' = Failed - 1 /\ N' = N /\ Dials' = Dials
      BY <2>1, <2>2, FS_RemoveElement DEF Failed, N, Dials
    <2>4. /\ Still' \in Nat /\ Failed' \in Nat /\ Dials' \in Nat
          /\ Failed' + Dials' + Still' <= N
      <3>1. Unconnected' \in SUBSET Clients /\ Doomed' \in SUBSET Clients
        BY <2>1 DEF Unconnected, Doomed
      <3>2. /\ Cardinality(Unconnected') \in Nat /\ Cardinality(Doomed') \in Nat
            /\ Cardinality(Unaware') \in Nat
            /\ Cardinality(Unconnected') + Cardinality(Doomed') + Cardinality(Unaware') <= N
        BY <2>1, <3>1, Groups
      <3> QED BY <1>12, <3>2 DEF Assign, Still, Failed, Dials
    <2>5. ToCome(N, Failed') = ToCome(N, Failed) - 2 * (N - Failed + 1)
      BY <2>3, GroupsOfClients, OneAssigned
    <2>6. up' = up /\ open' = open /\ open \in Nat
      BY <1>12 DEF TypeOK, Assign, Retry
    <2>7. CASE up
      <3>1. 2 * (open + Dials + Still) + ToCome(N, Failed) <= N * (N + 1)
        BY <2>7 DEF DialsLeft
      <3>2. PICK still \in Nat : Still' = still
        BY <2>4
      <3>3. PICK toCome : ToCome(N, Failed') = toCome
        OBVIOUS
      <3>4. Failed - 1 + Dials + still <= N
        BY <2>3, <2>4, <3>2, Zenon
      <3>5. toCome = ToCome(N, Failed) - 2 * (N - Failed + 1)
        BY <2>5, <3>3, Zenon
      <3>6. open \in Nat
        BY <2>6
      <3>7. 2 * (open + Dials + still) + toCome <= N * (N + 1)
        BY <3>1, <3>4, <3>5, <3>6, GroupsOfClients
      <3>8. DialsLeft'
        BY <2>3, <2>6, <2>7, <3>2, <3>3, <3>7, Zenon DEF DialsLeft
      <3> QED BY <3>8
    <2> QED BY <2>6, <2>7 DEF DialsLeft
  <1>13. CASE GoesDown
    BY <1>13 DEF GoesDown, DialsLeft
  <1>14. CASE ComesUp
    <2>1. Failed' = Failed /\ N' = N /\ Dials' = Dials /\ Still' = Still
      BY <1>14 DEF ComesUp, Failed, N, Dials, Still, Unconnected, Doomed, Unaware
    <2>2. Failed + (Dials + Still) <= N
      BY GroupsOfClients DEF Still
    <2>3. Dials + Still \in Nat /\ Failed \in Nat /\ N \in Nat
      BY GroupsOfClients
    <2>4. 2 * (Dials + Still) + ToCome(N, Failed) <= N * (N + 1)
      BY <2>2, <2>3, AfterOutage
    <2>5. open = 0 /\ open' = open /\ up'
      BY <1>14 DEF ComesUp, DialsLeft
    <2> QED BY <2>1, <2>3, <2>4, <2>5, GroupsOfClients DEF DialsLeft
  <1>15. CASE UNCHANGED vars
    <2>1. Unconnected' = Unconnected /\ Doomed' = Doomed /\ Unaware' = Unaware
      BY <1>15 DEF vars, Unconnected, Doomed, Unaware
    <2> QED BY <1>15, <2>1, SameGroups DEF vars
  <1> QED
    BY <1>1, <1>2, <1>3, <1>4, <1>5, <1>6, <1>7, <1>8, <1>9, <1>10, <1>11, <1>12, <1>13, <1>14, <1>15
       DEF Next, QueryStep

\* At first there is one connection, which main has made, and nobody is without.
LEMMA InitDials == Init => DialsLeft
  <1> SUFFICES ASSUME Init PROVE DialsLeft
    OBVIOUS
  <1>1. Unconnected = {} /\ Doomed = {} /\ session /\ up /\ open = 1
    BY DEF Init, Unconnected, Doomed
  <1>2. Failed = 0 /\ Dials = 0 /\ Still = 0
    BY <1>1, FS_EmptySet DEF Failed, Dials, Still
  <1>3. N \in Nat \ {0}
    BY Counts, DatabaseAssumption, FS_EmptySet DEF N
  <1>4. 2 <= N * (N + 1)
    BY <1>3
  <1> QED BY <1>1, <1>2, <1>3, <1>4 DEF DialsLeft, ToCome

\* Connections that nobody closes are no more than 1 + 2 + ... + N, for any number of clients,
\* however the database comes and goes, and however Connect is interleaved with itself
\* (database.go:73-94).
THEOREM ConnectionsAlwaysBounded == Spec => []ConnectionsBounded
  <1>1. TypeOK /\ DialsLeft => ConnectionsBounded
    <2> SUFFICES ASSUME TypeOK, DialsLeft PROVE ConnectionsBounded
      OBVIOUS
    <2>1. 0 <= ToCome(N, Failed) /\ 0 <= N * (N + 1)
      BY Counts DEF ToCome
    <2> QED BY <2>1, GroupsOfClients DEF TypeOK, DialsLeft, ConnectionsBounded, N
  <1> QED
    BY <1>1, InitDials, NextDials, TypeCorrect, PTL DEF Spec

-----------------------------------------------------------------------------
(* Refinement.                                                             *)

\* How the stage of a query may change, no change included
Turns(from, to) ==
  \/ from = to
  \/ from = "none" /\ to = "asked"
  \/ from = "asked" /\ to \in {"read", "failed"}
  \/ from = "read" /\ to \in {"asked", "answered", "failed"}
  \/ from \in {"answered", "failed"} /\ to = "none"

\* A step of one client that turns its stage is a step of its query.
LEMMA ClientRefines ==
  ASSUME TypeOK, NEW c \in Clients, NEW q \in Steps, To(c, q), Turns(Stage(query[c]), Stage(q))
  PROVE  [Promise!QueryNext]_StageMap
  <1>1. StageMap' = [StageMap EXCEPT ![c] = Stage(q)]
    BY DEF TypeOK, To, StageMap, Steps
  <1>2. StageMap[c] = Stage(query[c]) /\ StageMap \in [Clients -> {Stage(query[d]) : d \in Clients}]
    BY DEF StageMap
  <1>3. CASE Stage(query[c]) = Stage(q)
    <2>1. StageMap' = StageMap
      BY <1>1, <1>2, <1>3
    <2> QED BY <2>1
  <1>4. CASE Stage(query[c]) # Stage(q)
    <2>1. \/ Promise!Ask(c) \/ Promise!Read(c) \/ Promise!Lose(c)
          \/ Promise!Answer(c) \/ Promise!Fail(c) \/ Promise!Done(c)
      BY <1>1, <1>2, <1>4
         DEF Turns, StageMap, Promise!Ask, Promise!Read, Promise!Lose, Promise!Answer,
             Promise!Fail, Promise!Done, Promise!Turn
    <2> QED BY <2>1 DEF Promise!QueryNext
  <1> QED BY <1>3, <1>4

\* execWithRetry as the caller sees it: each step of a client is a step of its query, or
\* none (database.go:137-199), and the database changes no query.
LEMMA StepRefines == TypeOK /\ [Next]_vars => [Promise!QueryNext]_StageMap
  <1> SUFFICES ASSUME TypeOK, [Next]_vars PROVE [Promise!QueryNext]_StageMap
    OBVIOUS
  <1>1. ASSUME NEW c \in Clients, Begin(c) \/ QueryStep(c) PROVE [Promise!QueryNext]_StageMap
    <2>1. \E q \in Steps : To(c, q) /\ Turns(Stage(query[c]), Stage(q))
      BY <1>1 DEF Steps, Returned, Stage, Turns, Begin, QueryStep, Exec, DbRead, Answered, Refused,
           TimedOut, ConnectionClosed, Waited, Dial, Assign, Retry, Return
    <2> QED BY <2>1, ClientRefines
  <1>2. CASE GoesDown \/ ComesUp \/ UNCHANGED vars
    BY <1>2 DEF GoesDown, ComesUp, vars, StageMap
  <1> QED BY <1>1, <1>2 DEF Next

\* The initial states are those of Query.
LEMMA InitRefines == Init => Promise!QueryInit
  BY DEF Init, Promise!QueryInit, Stage

\* The connection implements the query it promises, for any number of clients that share it.
THEOREM DatabaseImplementsQuery == Spec => ImplementsQuery
  <1>1. TypeOK /\ [Next]_vars => [Promise!QueryNext]_StageMap
    BY StepRefines
  <1> QED
    BY <1>1, InitRefines, TypeCorrect, PTL DEF Spec, ImplementsQuery, Promise!QuerySpec, StageMap
=============================================================================
