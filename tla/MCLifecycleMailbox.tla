------------------------- MODULE MCLifecycleMailbox -------------------------
(***************************************************************************)
(* Two questions asked of small instances of the mailbox, one of them in   *)
(* each behaviour.  "owners": two browsers and two operation ids pair,     *)
(* publish and submit while the clock stands.  "outcomes": one browser and *)
(* one operation while the clock moves both ways and receipts come late.   *)
(***************************************************************************)
EXTENDS LifecycleMailbox

CONSTANTS Browser, Id   \* whom "outcomes" is about
VARIABLE focus
mcVars == <<vars, focus>>

\* The steps each question is about.
Still ==
  /\ now' = 0
  /\ \A i \in Instances : \A s \in link'[i].snapshot : s.sequence = 1 /\ s.updated = 0
  /\ \A i \in Instances, o \in Operations : \A x \in mailbox'[i][o].receipt :
       x.at = 0 /\ x.status = "succeeded"
\* Next, for one browser and one operation.  When a first snapshot, or one
\* without the annotation, was updated is nothing a receipt is compared with.
Alone ==
  \/ Pair(Browser) \/ Disconnect(Browser) \/ Revoke(Browser)
  \/ ClearSharedCapture(Browser) \/ Heartbeat(Browser) \/ ReadNext(Browser)
  \/ \E s \in Snapshot : /\ s.sequence = 1 \/ s.state = "absent" => s.updated = 0
                         /\ Publish(Browser, s)
  \/ Read(Browser, Id) \/ Reject(Browser, Id)
  \/ \E t \in Times : Claim(Browser, Id, t) \/ SetClock(t)
  \/ \E p \in Proposal : p.instance = Browser /\ Submit(Id, p)
  \/ \E c \in claims, status \in Statuses, at \in Times : Finalize(c, status, at)

MCInit == Init /\ focus \in {"owners", "outcomes"}
MCNext ==
  /\ \/ focus = "owners" /\ Next /\ Still
     \/ focus = "outcomes" /\ Alone /\ connections' <= 2
  /\ UNCHANGED focus
MCSpec == MCInit /\ [][MCNext]_mcVars
=============================================================================
