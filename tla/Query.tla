-------------------------------- MODULE Query --------------------------------
(***************************************************************************)
(* What a database query promises its caller, whatever happens to the      *)
(* connection: it is answered with something read after it was asked, by   *)
(* the attempt that read it, or it fails; an attempt that is lost takes    *)
(* with it what it has read.  Database implements this, and ConfigCache is *)
(* built on it.                                                            *)
(***************************************************************************)
CONSTANT Clients  \* goroutines of Fetch

VARIABLE stage  \* where the query of each client is

QueryTypeOK == stage \in [Clients -> {"none", "asked", "read", "answered", "failed"}]

QueryInit == stage = [c \in Clients |-> "none"]

Turn(c, from, to) == stage[c] \in from /\ stage' = [stage EXCEPT ![c] = to]

Ask(c)    == Turn(c, {"none"}, "asked")
Read(c)   == Turn(c, {"asked"}, "read")
Lose(c)   == Turn(c, {"read"}, "asked")
Answer(c) == Turn(c, {"read"}, "answered")
Fail(c)   == Turn(c, {"asked", "read"}, "failed")
Done(c)   == Turn(c, {"answered", "failed"}, "none")

QueryNext ==
  \E c \in Clients : Ask(c) \/ Read(c) \/ Lose(c) \/ Answer(c) \/ Fail(c) \/ Done(c)

QuerySpec == QueryInit /\ [][QueryNext]_stage
=============================================================================
