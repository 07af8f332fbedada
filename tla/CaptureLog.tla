----------------------------- MODULE CaptureLog -----------------------------
(***************************************************************************)
(* What the capture store promises of each capture the user takes,         *)
(* whatever storage errors, worker deaths, clears, removals and retries    *)
(* happen: it is stored at most once and only while it is the newest one   *)
(* begun, and once withdrawn - because its lease was lost before it was    *)
(* stored, or by a removal, a recapture or a clear - it never comes back.  *)
(***************************************************************************)
EXTENDS Naturals

CONSTANT Captures     \* natural numbers, in the order the captures begin

VARIABLE status       \* per capture: "unused", "open", "live" or "dead"

TypeOK == status \in [Captures -> {"unused", "open", "live", "dead"}]

Init == status = [c \in Captures |-> "unused"]

\* A capture begins; it may be stored later.
Issue(c) ==
  /\ status[c] = "unused"
  /\ status' = [status EXCEPT ![c] = "open"]

\* The newest capture is stored, in place of the older ones in `over'.
Land(c, over) ==
  /\ status[c] = "open"
  /\ \A d \in Captures : d > c => status[d] = "unused"
  /\ \A d \in over : status[d] = "live"
  /\ status' = [d \in Captures |-> IF d = c THEN "live"
                                   ELSE IF d \in over THEN "dead"
                                   ELSE status[d]]

\* Captures are withdrawn, stored or not, for good.
Withdraw(gone) ==
  /\ \A d \in gone : status[d] \in {"open", "live"}
  /\ status' = [d \in Captures |-> IF d \in gone THEN "dead" ELSE status[d]]

Next ==
  \/ \E c \in Captures : Issue(c)
  \/ \E c \in Captures, over \in SUBSET Captures : Land(c, over)
  \/ \E gone \in SUBSET Captures : Withdraw(gone)

Spec == Init /\ [][Next]_status
=============================================================================
