-------------------------- MODULE LifecycleOutcome --------------------------
(***************************************************************************)
(* What the local bridge promises of each change an agent proposes to it,  *)
(* whatever expires, reconnects or is sent twice: it is settled at most    *)
(* once, only after the user's browser claimed it, and never once the user *)
(* refused it or let it expire.                                            *)
(***************************************************************************)
EXTENDS Naturals

CONSTANTS
  Connections,   \* the times a browser was paired with the bridge
  Operations,    \* the operation ids of the agents
  Outcomes       \* what a receipt can say

\* A proposal, as one connection received it.
Submissions == Connections \X Operations

VARIABLE status  \* per submission: where it is, or the outcome it settled on

Open   == {"unused", "offered", "claimed", "lapsed"}
Closed == {"refused", "gone"}

TypeOK == status \in [Submissions -> Open \cup Closed \cup Outcomes]

Init == status = [s \in Submissions |-> "unused"]

Move(s, from, to) ==
  /\ status[s] = from
  /\ status' = [status EXCEPT ![s] = to]

\* Time runs out: what was not claimed is over, what was claimed may still be
\* settled by a receipt that is on its way.
Expire(over) ==
  /\ \A s \in over : status[s] \in {"offered", "claimed"}
  /\ status' = [s \in Submissions |->
                  IF s \notin over THEN status[s]
                  ELSE IF status[s] = "offered" THEN "refused" ELSE "lapsed"]

Settle(s, outcome) ==
  /\ status[s] \in {"claimed", "lapsed"}
  /\ status' = [status EXCEPT ![s] = outcome]

\* A connection ends, and with it everything it had been sent.
Drop(c) ==
  status' = [s \in Submissions |-> IF s[1] = c THEN "gone" ELSE status[s]]

Next ==
  \/ \E over \in SUBSET Submissions : Expire(over)
  \/ \E c \in Connections : Drop(c)
  \/ \E s \in Submissions :
       \/ Move(s, "unused", "offered")
       \/ Move(s, "offered", "claimed")
       \/ Move(s, "offered", "refused")
       \/ \E o \in Outcomes : Settle(s, o)

Spec == Init /\ [][Next]_status
=============================================================================
