------------------------- MODULE BridgeConnectionProofs -------------------------
(***************************************************************************)
(* Proofs about the connection between the extension and the local bridge: *)
(* what a clear withdrew is not on the bridge again, and a confirmation is *)
(* shown for the snapshot it confirms, for any number of invitations,      *)
(* connections, shares, clears, lost requests and restarts.                *)
(***************************************************************************)
EXTENDS BridgeConnection, TLAPS

USE ConnectionBounds

-----------------------------------------------------------------------------
(* The types.                                                              *)
Client == [session : Nat \ {0}, trust : Nat, pending : ConnRequests \cup {0}, mode : Modes,
           token : Nat, seq : Nat, cap : {"unknown", "whole", "reduced"}, snap : Snapshots,
           clear : BOOLEAN]
Instance == [token : Nat, session : Nat, seq : Nat, of : Contents, whole : BOOLEAN,
             ack : Contents \cup {"late"}]
Request == [status : {None, "pending", "approved"}, mode : Modes, session : Nat, token : Nat,
            trust : Nat, proof : Nat, delivered : BOOLEAN]
Operation == [at : {"idle", "ask", "poll", "refreshed", "put", "beat", "delete", "read"},
              does : {None, "create", "refresh", "tick", "publish", "clear", "disconnect"},
              token : Nat, req : ConnRequests \cup {0}, of : Contents]
Status == [at : {"idle", "get", "answered", "save"}, token : Nat,
           got : Contents \cup {"late", "denied"}, seq : Nat, saves : Client \cup {Fresh(0)}]
Read == [of : Contents, seq : Nat, token : Nat]

BridgeTyped ==
  /\ inst \in Instance /\ reqs \in [ConnRequests -> Request]
  /\ trusts \in [1 .. MaxBrowserSessions -> Nat]
CountsTyped == issued \in 0 .. MaxApprovals /\ faults \in 0 .. MaxConnFaults
Typed ==
  /\ client \in Client /\ op \in Operation /\ status \in Status
  /\ due \in BOOLEAN /\ alarm \in BOOLEAN
  /\ BridgeTyped
  /\ dead \subseteq ConnRequests /\ wanted \subseteq Versions /\ agent \in Read
  /\ CountsTyped

-----------------------------------------------------------------------------
(* The inductive invariant.                                                *)

\* What is left when a connection is over.
Gone(c) == c \in Client /\ c.token = 0 /\ c.pending = 0 /\ c.snap = Nothing

\* No token is younger than the last one issued.
TokensOK ==
  /\ client.token <= issued /\ op.token <= issued /\ status.token <= issued
  /\ agent.token <= issued /\ inst.token <= issued
  /\ \A r \in ConnRequests : reqs[r].token <= issued

SessionsOK ==
  /\ op.at = "ask" => client.session < MaxBrowserSessions
  /\ op.at = "poll" => op.req # 0
  /\ status.at = "save" => Gone(status.saves) /\ status.saves.session <= client.session
  /\ status.at \in {"get", "answered"} => status.token # 0
\* The way to a token.
PendingOK ==
  /\ client.pending # 0 \/ op.at = "ask" => client.token = 0
  /\ inst.token = 0 => inst.of = None
  /\ inst.of = None => inst.seq = 0
  /\ \A r \in ConnRequests :
       client.pending = r /\ reqs[r].status = "approved" =>
         /\ reqs[r].token \notin {0, agent.token, status.token}
         /\ reqs[r].token = inst.token => inst.of = None

Wanted == wanted \cup {None}
SharedOK ==
  /\ client.snap.latest \in Wanted /\ client.snap.panel \in Wanted /\ client.snap.own \in Wanted
  /\ op.at = "put" => op.of \in Wanted \ {None}

\* Of one connection, and while every share was answered.
SequencesOK ==
  faults = 0 /\ client.token # 0 =>
    /\ client.token = inst.token =>
         /\ inst.seq <= client.seq
         /\ client.snap.shared # None => inst.seq = client.seq /\ inst.of = client.snap.shared
    /\ client.token = agent.token => agent.seq <= client.seq
    /\ client.token = status.token /\ status.got # "denied" => status.seq <= client.seq

ReadsOK ==
  faults = 0 =>
    /\ inst.ack \in {None, "late", inst.of}
    /\ agent.of # None /\ agent.token = inst.token /\ agent.seq = inst.seq /\ inst.of # None
         => agent.of = inst.of
    /\ status.at = "answered" /\ status.got \notin {"denied", None, "late"}
       /\ client.token # 0 /\ client.token = status.token /\ client.seq = status.seq /\ client.snap.shared # None
         => client.snap.shared = status.got
    /\ ConfirmationIsCurrent
IInv == Typed /\ TokensOK /\ SessionsOK /\ PendingOK /\ SharedOK /\ SequencesOK /\ ReadsOK /\ ClearHolds

-----------------------------------------------------------------------------
(* What the operations on the two sides return.                            *)

\* A snapshot of nothing shows nothing.
LEMMA NothingIs ==
  /\ Nothing \in Snapshots
  /\ Nothing.latest = None /\ Nothing.panel = None /\ Nothing.own = None /\ Nothing.shared = None
BY DEF Nothing, Snapshots, Contents

\* A session that was just drawn has no connection.
LEMMA FreshIs ==
  ASSUME NEW s \in Nat \ {0}
  PROVE  /\ Fresh(s) \in Client
         /\ Fresh(s).session = s /\ Fresh(s).token = 0 /\ Fresh(s).pending = 0
         /\ Fresh(s).snap = Nothing
BY NothingIs DEF Fresh, Client, Modes

\* A rotated client and one without credentials are gone: no token, no request, nothing shared.
LEMMA RotatedIs ==
  ASSUME NEW c \in Client, NEW k \in BOOLEAN
  PROVE  Gone(Rotated(c, k)) /\ Rotated(c, k).session = c.session + 1
<1>1. c.session + 1 \in Nat \ {0} /\ c.clear \in BOOLEAN
  BY DEF Client
<1> QED  BY <1>1, FreshIs DEF Rotated, Gone, Client

LEMMA WithoutIs ==
  ASSUME NEW c \in Client, NEW k \in BOOLEAN, NEW t \in BOOLEAN
  PROVE  Gone(WithoutCredentials(c, t, k)) /\ WithoutCredentials(c, t, k).session = c.session
<1>1. c.session \in Nat \ {0} /\ c.clear \in BOOLEAN /\ c.trust \in Nat
  BY DEF Client
<1>2. PICK f : f = Fresh(c.session)
  OBVIOUS
<1>3. /\ f \in Client /\ f.session = c.session /\ f.token = 0 /\ f.pending = 0 /\ f.snap = Nothing
  BY <1>1, <1>2, FreshIs
<1>4. PICK u \in Nat : u = IF t THEN c.trust ELSE 0
  BY <1>1
<1>5. PICK l \in BOOLEAN : l = (k /\ c.clear)
  OBVIOUS
<1>6. WithoutCredentials(c, t, k) = [f EXCEPT !.trust = u, !.clear = l]
  BY <1>2, <1>4, <1>5 DEF WithoutCredentials
<1> QED  BY <1>3, <1>6 DEF Gone, Client

\* A tombstone shares nothing over the same connection.
LEMMA TombstoneIs ==
  ASSUME NEW c \in Client
  PROVE  /\ Tombstone(c) \in Client /\ Tombstone(c).snap = Nothing /\ Tombstone(c).clear = TRUE
         /\ Tombstone(c).token = c.token /\ Tombstone(c).pending = c.pending
         /\ Tombstone(c).session = c.session /\ Tombstone(c).seq = c.seq
BY NothingIs DEF Tombstone, Client

LEMMA ClearedIs ==
  ASSUME NEW c \in Client
  PROVE  /\ Cleared(c) \in Client /\ Cleared(c).snap = Nothing /\ Cleared(c).clear = FALSE
         /\ Cleared(c).token = c.token /\ Cleared(c).pending = c.pending
         /\ Cleared(c).session = c.session /\ Cleared(c).seq = c.seq
BY NothingIs DEF Cleared, Client

\* What S shows, with X as what is shared.
SharesInstead(t, s, x) ==
  /\ t \in Snapshots /\ t.shared = x
  /\ t.latest = s.latest /\ t.panel = s.panel /\ t.own = s.own

LEMMA SharedIs ==
  ASSUME NEW s \in Snapshots, NEW x \in Contents, NEW w \in BOOLEAN
  PROVE  SharesInstead([s EXCEPT !.shared = x, !.whole = w], s, x)
BY DEF Snapshots, SharesInstead

\* A client that published shares what it sent, one sequence later.
LEMMA PublishedIs ==
  ASSUME client \in Client, op \in Operation
  PROVE  LET d == Published(client) IN
         /\ d \in Client /\ d.seq = client.seq + 1 /\ d.snap.shared = op.of
         /\ d.snap.latest = client.snap.latest /\ d.snap.panel = client.snap.panel
         /\ d.snap.own = client.snap.own /\ d.clear = client.clear
         /\ d.token = client.token /\ d.pending = client.pending /\ d.session = client.session
<1>1. PICK s \in Snapshots : s = client.snap
  BY DEF Client
<1>2. PICK t \in Snapshots : /\ t = [s EXCEPT !.shared = op.of, !.whole = client.cap = "whole"]
                             /\ t.shared = op.of /\ t.latest = s.latest /\ t.panel = s.panel
                             /\ t.own = s.own
  <2>1. PICK w \in BOOLEAN : w = (client.cap = "whole")
    OBVIOUS
  <2>2. PICK x \in Contents : x = op.of
    BY DEF Operation
  <2>3. PICK u : u = [s EXCEPT !.shared = x, !.whole = w]
    OBVIOUS
  <2>4. SharesInstead(u, s, x)
    BY <2>3, SharedIs
  <2> QED  BY <2>1, <2>2, <2>3, <2>4 DEF SharesInstead
<1>3. Published(client) = [client EXCEPT !.seq = client.seq + 1, !.snap = t]
  BY <1>1, <1>2 DEF Published, Client, Snapshots
<1>4. client.seq + 1 \in Nat
  BY DEF Client
<1> QED  BY <1>1, <1>2, <1>3, <1>4 DEF Client

\* A client that took a token shares nothing yet.
LEMMA WithTokenIs ==
  ASSUME client \in Client, NEW q \in Request
  PROVE  LET d == WithToken(q) IN
         /\ d \in Client /\ d.seq = 0 /\ d.snap.shared = None
         /\ d.snap.latest = client.snap.latest /\ d.snap.panel = client.snap.panel
         /\ d.snap.own = client.snap.own /\ d.clear = client.clear
         /\ d.token = q.token /\ d.pending = 0 /\ d.session = client.session
<1>1. PICK s \in Snapshots : s = client.snap
  BY DEF Client
<1>2. PICK t \in Snapshots : /\ t = [s EXCEPT !.shared = None, !.whole = FALSE]
                             /\ t.shared = None /\ t.latest = s.latest /\ t.panel = s.panel
                             /\ t.own = s.own
  <2>1. None \in Contents
    BY DEF Contents
  <2>3. PICK u : u = [s EXCEPT !.shared = None, !.whole = FALSE]
    OBVIOUS
  <2>4. SharesInstead(u, s, None)
    BY <2>1, <2>3, SharedIs
  <2> QED  BY <2>3, <2>4 DEF SharesInstead
<1>3. WithToken(q) = [client EXCEPT !.pending = 0, !.token = q.token, !.seq = 0,
                                    !.trust = q.trust, !.cap = "unknown", !.snap = t]
  BY <1>1, <1>2 DEF WithToken, Client, Snapshots
<1>4. q.token \in Nat /\ q.trust \in Nat
  BY DEF Request
<1>5. PICK d : d = WithToken(q)
  OBVIOUS
<1>6. d \in Client
  <2>1. d = [session |-> client.session, trust |-> q.trust, pending |-> 0, mode |-> client.mode,
             token |-> q.token, seq |-> 0, cap |-> "unknown", snap |-> t, clear |-> client.clear]
    BY <1>3, <1>5 DEF Client
  <2>2. client.session \in Nat \ {0} /\ client.mode \in Modes /\ client.clear \in BOOLEAN
    BY DEF Client
  <2> QED  BY <1>4, <2>1, <2>2 DEF Client
<1>7. /\ d.seq = 0 /\ d.snap = t /\ d.clear = client.clear /\ d.token = q.token
      /\ d.pending = 0 /\ d.session = client.session
  BY <1>3, <1>5 DEF Client
<1> QED  BY <1>1, <1>2, <1>5, <1>6, <1>7

\* A bridge as its operations return it.
Bridges == [inst : Instance, reqs : [ConnRequests -> Request],
            trusts : [1 .. MaxBrowserSessions -> Nat]]

\* Nothing on it is new.
Older(b) ==
  /\ b \in Bridges /\ b.inst \in {inst, NoInstance}
  /\ \A r \in ConnRequests : b.reqs[r].token \in {0, reqs[r].token}
  /\ \A r \in ConnRequests :
       b.reqs[r].status = "approved" => /\ reqs[r].status = "approved"
                                        /\ b.reqs[r].token = reqs[r].token

\* What the bridge starts from and falls back to.
LEMMA NoneIs == NoInstance \in Instance /\ NoRequest \in Request /\ NoInstance.token = 0
                /\ NoInstance.of = None /\ NoInstance.ack = None /\ NoInstance.seq = 0
                /\ NoRequest.token = 0 /\ NoRequest.status = None /\ NoRequest.status # "approved"
BY DEF NoInstance, NoRequest, Instance, Request, Contents, Modes, None

\* Pruning, revoking and disconnecting only lose something.
LEMMA PrunedIs == ASSUME BridgeTyped, NEW R  PROVE Older(Pruned(R))
<1>1. inst \in Instance /\ reqs \in [ConnRequests -> Request] /\ trusts \in [1 .. MaxBrowserSessions -> Nat]
  BY DEF BridgeTyped
<1>2. Pruned(R).inst \in {inst, NoInstance}
  BY DEF Pruned
<1>3. /\ Pruned(R).reqs \in [ConnRequests -> Request]
      /\ \A r \in ConnRequests : Pruned(R).reqs[r] \in {reqs[r], NoRequest}
  BY <1>1, NoneIs DEF Pruned
<1>4. Pruned(R).trusts \in [1 .. MaxBrowserSessions -> Nat]
  BY <1>1 DEF Pruned
<1>5. Pruned(R) \in Bridges
  BY <1>1, <1>2, <1>3, <1>4, NoneIs DEF Pruned, Bridges
<1> QED  BY <1>2, <1>3, <1>5, NoneIs DEF Older

LEMMA RevokedIs == ASSUME BridgeTyped, NEW r \in ConnRequests  PROVE Older(Revoked(r))
<1>1. PICK b : b = Pruned({})
  OBVIOUS
<1>2. Older(b)
  BY <1>1, PrunedIs
<1>3. Revoked(r) = IF b.reqs[r].status = None THEN b
     ELSE [inst |-> IF b.reqs[r].token # 0 /\ b.reqs[r].token = b.inst.token THEN NoInstance
                    ELSE b.inst,
           reqs |-> [b.reqs EXCEPT ![r] = NoRequest],
           trusts |-> [b.trusts EXCEPT ![b.reqs[r].session] = 0]]
  BY <1>1 DEF Revoked
<1>4. CASE b.reqs[r].status = None
  BY <1>2, <1>3, <1>4
<1>5. CASE b.reqs[r].status # None
  <2>1. /\ Revoked(r).inst \in {b.inst, NoInstance}
        /\ Revoked(r).reqs = [b.reqs EXCEPT ![r] = NoRequest]
        /\ Revoked(r).trusts = [b.trusts EXCEPT ![b.reqs[r].session] = 0]
    BY <1>3, <1>5
  <2>2. b.reqs \in [ConnRequests -> Request] /\ b.trusts \in [1 .. MaxBrowserSessions -> Nat] /\ b.inst \in Instance
    BY <1>2 DEF Older, Bridges
  <2>3. /\ Revoked(r).reqs \in [ConnRequests -> Request]
        /\ \A o \in ConnRequests : Revoked(r).reqs[o] \in {b.reqs[o], NoRequest}
    BY <2>1, <2>2, NoneIs
  <2>4. Revoked(r).trusts \in [1 .. MaxBrowserSessions -> Nat]
    <3>1. PICK f \in [1 .. MaxBrowserSessions -> Nat] : f = b.trusts
      BY <2>2
    <3>2. PICK s : s = b.reqs[r].session
      OBVIOUS
    <3>3. [f EXCEPT ![s] = 0] \in [1 .. MaxBrowserSessions -> Nat]
      OBVIOUS
    <3> QED  BY <2>1, <3>1, <3>2, <3>3
  <2>5. Revoked(r) \in Bridges
    BY <1>3, <1>5, <2>1, <2>2, <2>3, <2>4, NoneIs DEF Bridges
  <2> QED  BY <1>2, <2>1, <2>3, <2>5, NoneIs DEF Older
<1> QED  BY <1>4, <1>5

LEMMA DisconnectedIs == ASSUME BridgeTyped, client \in Client  PROVE Older(Disconnected)
<1>1. inst \in Instance /\ reqs \in [ConnRequests -> Request] /\ trusts \in [1 .. MaxBrowserSessions -> Nat]
  BY DEF BridgeTyped
<1>2. CASE Connected /\ client.token = inst.token
  <2>1. Disconnected =
          [inst |-> NoInstance,
           reqs |-> [r \in ConnRequests |-> IF reqs[r].session = inst.session THEN NoRequest ELSE reqs[r]],
           trusts |-> [trusts EXCEPT ![inst.session] = 0]]
    BY <1>2 DEF Disconnected
  <2>2. /\ Disconnected.reqs \in [ConnRequests -> Request]
        /\ \A o \in ConnRequests : Disconnected.reqs[o] \in {reqs[o], NoRequest}
    BY <1>1, <2>1, NoneIs
  <2>3. Disconnected.trusts \in [1 .. MaxBrowserSessions -> Nat]
    BY <1>1, <2>1
  <2>4. Disconnected \in Bridges
    BY <1>1, <2>1, <2>2, <2>3, NoneIs DEF Bridges
  <2> QED  BY <2>1, <2>2, <2>4, NoneIs DEF Older
<1>3. CASE ~Connected /\ client.pending # 0
  <2>1. client.pending \in ConnRequests
    BY <1>3 DEF Client
  <2>2. PICK r \in ConnRequests : r = client.pending
    BY <2>1
  <2> QED  BY <1>3, <2>2, RevokedIs DEF Disconnected, Connected
<1>4. CASE ~(Connected /\ client.token = inst.token) /\ ~(~Connected /\ client.pending # 0)
  <2>1. Disconnected = [inst |-> inst, reqs |-> reqs, trusts |-> trusts]
    BY <1>4 DEF Disconnected
  <2>2. Disconnected \in Bridges
    BY <1>1, <2>1 DEF Bridges
  <2> QED  BY <2>1, <2>2 DEF Older
<1> QED  BY <1>2, <1>3, <1>4

\* Approved, with the number of tokens issued as a parameter.
ApprovedAt(b, r, proof, trust, n) ==
  LET q == b.reqs[r]
      key == IF q.mode = "ask" THEN 0 ELSE IF trust # 0 THEN trust ELSE n + 1
  IN [inst |-> [NoInstance EXCEPT !.token = n + 1, !.session = q.session],
      reqs |-> [b.reqs EXCEPT ![r] = [q EXCEPT !.status = "approved", !.token = n + 1,
                                              !.trust = key, !.proof = proof]],
      trusts |-> IF q.mode = "ask" THEN b.trusts ELSE [b.trusts EXCEPT ![q.session] = key]]

\* An instance with token N in the place of the one on B.
Newer(d, b, r, n) ==
  /\ d \in Bridges
  /\ d.inst.token = n /\ d.inst.of = None /\ d.inst.ack = None /\ d.inst.seq = 0
  /\ d.reqs[r].token = n
  /\ \A o \in ConnRequests \ {r} : d.reqs[o] = b.reqs[o]

\* An approval puts an empty instance with a new token in place.
LEMMA ApprovedIs ==
  ASSUME NEW b \in Bridges, NEW r \in ConnRequests, NEW proof \in Nat, NEW trust \in Nat,
         NEW n0 \in Nat, NEW d, d = ApprovedAt(b, r, proof, trust, n0)
  PROVE  Newer(d, b, r, n0 + 1)
<1>1. PICK q \in Request : q = b.reqs[r]
  BY DEF Bridges
<1>2. PICK key \in Nat : key = IF q.mode = "ask" THEN 0 ELSE IF trust # 0 THEN trust ELSE n0 + 1
  OBVIOUS
<1>3. PICK n \in Instance : /\ n = [NoInstance EXCEPT !.token = n0 + 1, !.session = q.session]
                            /\ n.token = n0 + 1 /\ n.of = None /\ n.ack = None /\ n.seq = 0
  <2>1. q.session \in Nat /\ n0 + 1 \in Nat
    BY DEF Request
  <2>2. PICK u : u = [NoInstance EXCEPT !.token = n0 + 1, !.session = q.session]
    OBVIOUS
  <2>3. u \in Instance /\ u.token = n0 + 1 /\ u.of = None /\ u.ack = None /\ u.seq = 0
    BY <2>1, <2>2 DEF NoInstance, Instance, Contents
  <2> QED  BY <2>2, <2>3
<1>4. PICK p \in Request : /\ p = [q EXCEPT !.status = "approved", !.token = n0 + 1,
                                          !.trust = key, !.proof = proof]
                           /\ p.token = n0 + 1
  <2>1. PICK u : u = [q EXCEPT !.status = "approved", !.token = n0 + 1, !.trust = key,
                               !.proof = proof]
    OBVIOUS
  <2>2. u = [status |-> "approved", mode |-> q.mode, session |-> q.session, token |-> n0 + 1,
             trust |-> key, proof |-> proof, delivered |-> q.delivered]
    BY <2>1 DEF Request
  <2>3. q.mode \in Modes /\ q.session \in Nat /\ q.delivered \in BOOLEAN /\ n0 + 1 \in Nat
    BY DEF Request
  <2>4. u \in Request /\ u.token = n0 + 1
    BY <2>2, <2>3 DEF Request
  <2> QED  BY <2>1, <2>4
<1>5. PICK R \in [ConnRequests -> Request] : R = [b.reqs EXCEPT ![r] = p]
  BY DEF Bridges
<1>6. PICK T \in [1 .. MaxBrowserSessions -> Nat] :
        T = IF q.mode = "ask" THEN b.trusts ELSE [b.trusts EXCEPT ![q.session] = key]
  <2>1. PICK f \in [1 .. MaxBrowserSessions -> Nat] : f = b.trusts
    BY DEF Bridges
  <2>2. PICK s : s = q.session
    OBVIOUS
  <2>3. [f EXCEPT ![s] = key] \in [1 .. MaxBrowserSessions -> Nat]
    OBVIOUS
  <2> QED  BY <2>1, <2>2, <2>3
<1>7. ApprovedAt(b, r, proof, trust, n0) = [inst |-> n, reqs |-> R, trusts |-> T]
  BY <1>1, <1>2, <1>3, <1>4, <1>5, <1>6 DEF ApprovedAt
<1>8. b.reqs \in [ConnRequests -> Request]
  BY DEF Bridges
<1>9. R[r] = p /\ \A o \in ConnRequests \ {r} : R[o] = b.reqs[o]
  BY <1>5, <1>8
<1>10. [inst |-> n, reqs |-> R, trusts |-> T] \in Bridges
  BY DEF Bridges
<1>11. d \in Bridges /\ d.inst = n /\ d.reqs = R
  BY <1>7, <1>10
<1> QED  BY <1>3, <1>4, <1>9, <1>11 DEF Newer

-----------------------------------------------------------------------------
(* Steps that hand no token over, share nothing and read nothing.          *)

ClientOld ==
  client'.token # 0 =>
    /\ client'.token = client.token /\ client'.seq = client.seq
    /\ client'.snap.shared \in {client.snap.shared, None}
    /\ client'.clear \/ (~client.clear /\ wanted \subseteq wanted')
PendingOld ==
  /\ client'.pending # 0 \/ op'.at = "ask" => client'.token = 0
  /\ \A r \in ConnRequests :
       client'.pending = r /\ reqs'[r].status = "approved" =>
         \/ client.pending = r /\ reqs[r].status = "approved" /\ reqs'[r].token = reqs[r].token
         \/ reqs'[r].token = issued + 1
InstOld ==
  \/ inst' = inst
  \/ inst'.of = None /\ inst'.seq = 0 /\ inst'.ack = None /\ inst'.token \in {0, issued + 1}
ReadersOld == agent' = agent /\ status' \in {status, NoStatus} /\ told' = told
FaultsKept == faults' = 0 => faults = 0
IssuedOld ==
  /\ issued' \in {issued, issued + 1}
  /\ inst'.token \in {inst.token, 0, issued'}
  /\ \A r \in ConnRequests : reqs'[r].token \in {reqs[r].token, 0, issued'}

\* The bridge loses something or nothing.
LEMMA OlderIs ==
  ASSUME NEW b, Older(b), Holds(b), UNCHANGED issued
  PROVE  /\ BridgeTyped' /\ InstOld /\ IssuedOld
         /\ \A r \in ConnRequests :
              reqs'[r].status = "approved" =>
                reqs[r].status = "approved" /\ reqs'[r].token = reqs[r].token
BY NoneIs DEF Older, Holds, Bridges, BridgeTyped, InstOld, IssuedOld

\* No step that draws its tokens from these sets makes one younger than the last issued.
LEMMA TokensKept ==
  ASSUME Typed, Typed', TokensOK, IssuedOld,
         client'.token \in {client.token, 0}, op'.token \in {op.token, client.token, 0},
         status'.token \in {status.token, 0}, agent'.token \in {agent.token, 0}
  PROVE  TokensOK'
<1>1. /\ issued \in Nat /\ client.token \in Nat /\ op.token \in Nat /\ status.token \in Nat
      /\ agent.token \in Nat /\ inst.token \in Nat
      /\ \A r \in ConnRequests : reqs[r].token \in Nat
  BY DEF Typed, BridgeTyped, CountsTyped, Client, Operation, Status, Read, Instance, Request
<1> QED  BY <1>1 DEF TokensOK, IssuedOld

\* The invariant survives such a step.
LEMMA Kept ==
  ASSUME IInv, Typed', SessionsOK', SharedOK', TokensOK',
         ClientOld, PendingOld, InstOld, ReadersOld, FaultsKept
  PROVE  IInv'
<1>1. /\ issued \in Nat /\ client.token \in Nat /\ op.token \in Nat /\ status.token \in Nat
      /\ agent.token \in Nat /\ inst.token \in Nat
      /\ client.token <= issued /\ status.token <= issued /\ agent.token <= issued
      /\ inst.token <= issued
  BY DEF IInv, Typed, BridgeTyped, CountsTyped, Client, Operation, Status, Read, Instance, TokensOK
<1>2. /\ NoStatus.token = 0 /\ NoStatus.at = "idle"
      /\ status'.token \in {status.token, 0}
      /\ status' = status \/ (status'.at = "idle" /\ status'.token = 0)
  BY DEF NoStatus, ReadersOld
<1>3. PendingOK'
  <2>1. (inst'.token = 0 => inst'.of = None) /\ (inst'.of = None => inst'.seq = 0)
    BY DEF InstOld, IInv, PendingOK
  <2>2. ASSUME NEW r \in ConnRequests, client'.pending = r, reqs'[r].status = "approved"
        PROVE  /\ reqs'[r].token \notin {0, agent'.token, status'.token}
               /\ reqs'[r].token = inst'.token => inst'.of = None
    <3>1. CASE client.pending = r /\ reqs[r].status = "approved" /\ reqs'[r].token = reqs[r].token
      BY <1>2, <3>1 DEF IInv, PendingOK, InstOld, ReadersOld
    <3>2. CASE reqs'[r].token = issued + 1
      BY <1>1, <1>2, <3>2 DEF InstOld, ReadersOld
    <3> QED  BY <2>2, <3>1, <3>2 DEF PendingOld
  <2> QED  BY <2>1, <2>2 DEF PendingOK, PendingOld
<1>4. SequencesOK'
  BY <1>1, <1>2 DEF SequencesOK, IInv, ClientOld, InstOld, ReadersOld, FaultsKept
<1>5. ReadsOK'
  BY <1>1, <1>2 DEF ReadsOK, IInv, ClientOld, InstOld, ReadersOld, FaultsKept, ConfirmationIsCurrent
<1>6. ClearHolds'
  BY <1>1 DEF ClearHolds, IInv, ClientOld, InstOld, Connected
<1> QED  BY <1>3, <1>4, <1>5, <1>6 DEF IInv

LEMMA NoOperationIs ==
  NoOperation \in Operation /\ NoOperation.at = "idle" /\ NoOperation.token = 0
BY DEF NoOperation, Operation, Contents

LEMMA NoStatusIs == NoStatus \in Status /\ NoStatus.at = "idle" /\ NoStatus.token = 0
BY DEF NoStatus, Status, Contents

\* A 401 ends the connection it was sent for, or changes nothing.
LEMMA DeniedIs ==
  ASSUME client \in Client
  PROVE  /\ Denied(client) \in Client /\ Denied(client).session = client.session
         /\ Denied(client) = client \/ Gone(Denied(client))
BY WithoutIs DEF Denied, Gone

\* A client that is gone, and one that is what it was, shares what is wanted.
LEMMA GoneIs ==
  ASSUME NEW c, Gone(c)
  PROVE  /\ c \in Client /\ c.token = 0 /\ c.pending = 0
         /\ c.snap.latest = None /\ c.snap.panel = None /\ c.snap.own = None /\ c.snap.shared = None
BY NothingIs DEF Gone

\* A new request of a browser session is pending, or approved with a new token.
LEMMA RequestedIs ==
  ASSUME Typed, NEW r \in ConnRequests, client.session <= MaxBrowserSessions, Requested(r)
  PROVE  /\ BridgeTyped' /\ InstOld /\ IssuedOld /\ issued' \in 0 .. MaxApprovals
         /\ reqs'[r].status = "approved" => reqs'[r].token = issued + 1
<1> DEFINE same == {q \in ConnRequests : reqs[q].status # None /\ reqs[q].session = client.session}
<1>1. /\ issued \in 0 .. MaxApprovals /\ issued \in Nat /\ client.session \in 1 .. MaxBrowserSessions
      /\ client.mode \in Modes /\ BridgeTyped
  BY DEF Typed, CountsTyped, Client
<1>2. PICK b : b = Pruned(same)
  OBVIOUS
<1>3. Older(b) /\ b \in Bridges
  BY <1>1, <1>2, PrunedIs DEF Older
<1>4. PICK q : q = [NoRequest EXCEPT !.status = "pending", !.mode = client.mode,
                                     !.session = client.session]
  OBVIOUS
<1>5. q \in Request /\ q.status = "pending" /\ q.token = 0 /\ q.mode = client.mode
  <2>1. q = [status |-> "pending", mode |-> client.mode, session |-> client.session, token |-> 0,
             trust |-> 0, proof |-> 0, delivered |-> FALSE]
    BY <1>4 DEF NoRequest
  <2>2. client.session \in Nat
    BY <1>1
  <2> QED  BY <1>1, <2>1, <2>2 DEF Request
<1>6. PICK m : m = [b EXCEPT !.reqs[r] = q]
  OBVIOUS
<1>7. /\ m \in Bridges /\ m.inst = b.inst /\ m.reqs[r] = q
      /\ \A o \in ConnRequests \ {r} : m.reqs[o] = b.reqs[o]
  <2>1. PICK R : R = [b.reqs EXCEPT ![r] = q]
    OBVIOUS
  <2>2. R \in [ConnRequests -> Request] /\ R[r] = q /\ \A o \in ConnRequests \ {r} : R[o] = b.reqs[o]
    BY <1>3, <1>5, <2>1 DEF Bridges
  <2>3. m = [b EXCEPT !.reqs = R]
    BY <1>6, <2>1 
  <2>4. m = [inst |-> b.inst, reqs |-> R, trusts |-> b.trusts]
    BY <1>3, <2>3 DEF Bridges
  <2>5. m \in Bridges
    BY <1>3, <2>2, <2>4 DEF Bridges
  <2> QED  BY <2>2, <2>4, <2>5
<1>8. PICK trust \in Nat : trust = b.trusts[client.session]
  BY <1>1, <1>3 DEF Bridges
<1>9. \/ issued < MaxApprovals /\ Holds(Approved(m, r, trust, trust)) /\ issued' = issued + 1
      \/ Holds(m) /\ UNCHANGED issued
  BY <1>2, <1>4, <1>6, <1>8 DEF Requested
<1>10. \A o \in ConnRequests : m.reqs[o].token \in {0, reqs[o].token}
  BY <1>3, <1>5, <1>7 DEF Older
<1> HIDE DEF same
<1>11. CASE issued < MaxApprovals /\ Holds(Approved(m, r, trust, trust)) /\ issued' = issued + 1
  <2>1. PICK d : d = Approved(m, r, trust, trust)
    OBVIOUS
  <2>2. /\ d \in Bridges
        /\ d.inst.token = issued + 1 /\ d.inst.of = None /\ d.inst.ack = None /\ d.inst.seq = 0
        /\ d.reqs[r].token = issued + 1
        /\ \A o \in ConnRequests \ {r} : d.reqs[o] = m.reqs[o]
    <3>1. PICK n \in Nat : n = issued
      BY <1>1
    <3>2. d = ApprovedAt(m, r, trust, trust, n)
      BY <2>1, <3>1 DEF Approved, ApprovedAt
    <3>3. Newer(d, m, r, n + 1)
      BY <1>7, <1>8, <3>2, ApprovedIs
    <3> QED  BY <3>1, <3>3 DEF Newer
  <2>3. inst' = d.inst /\ reqs' = d.reqs /\ trusts' = d.trusts
    BY <1>11, <2>1 DEF Holds
  <2>4. \A o \in ConnRequests : reqs'[o].token \in {reqs[o].token, 0, issued'}
    BY <1>10, <1>11, <2>2, <2>3
  <2>5. BridgeTyped' /\ issued' \in 0 .. MaxApprovals
    BY <1>1, <1>11, <2>2, <2>3 DEF BridgeTyped, Bridges
  <2> QED  BY <1>11, <2>2, <2>3, <2>4, <2>5 DEF InstOld, IssuedOld
<1>12. CASE Holds(m) /\ UNCHANGED issued
  <2>1. inst' = m.inst /\ reqs' = m.reqs /\ trusts' = m.trusts
    BY <1>12 DEF Holds
  <2>2. BridgeTyped'
    BY <1>7, <2>1 DEF BridgeTyped, Bridges
  <2>3. InstOld /\ inst'.token \in {inst.token, 0}
    BY <1>3, <1>7, <2>1, NoneIs DEF Older, InstOld
  <2> QED  BY <1>1, <1>5, <1>7, <1>10, <1>12, <2>1, <2>2, <2>3 DEF IssuedOld
<1> QED  BY <1>9, <1>11, <1>12

-----------------------------------------------------------------------------
(* The steps.                                                              *)

LEMMA HandleStorageChangedKeeps ==
  ASSUME IInv, HandleStorageChanged
  PROVE  IInv'
<1>1. client' \in Client
  BY DEF HandleStorageChanged, IInv, Typed
<1>2. op' \in Operation
  BY DEF HandleStorageChanged, IInv, Typed
<1>3. status' \in Status
  BY DEF HandleStorageChanged, IInv, Typed
<1>4. due' \in BOOLEAN /\ alarm' \in BOOLEAN
  BY DEF HandleStorageChanged, IInv, Typed, Schedules
<1>5. BridgeTyped'
  BY DEF HandleStorageChanged, IInv, Typed, BridgeTyped, bridge
<1>6. dead' \subseteq ConnRequests /\ wanted' \subseteq Versions /\ agent' \in Read /\ CountsTyped'
  BY DEF HandleStorageChanged, IInv, Typed, CountsTyped, others, counts
<1>7. SessionsOK'
  BY DEF HandleStorageChanged, IInv, SessionsOK
<1>8. SharedOK'
  BY DEF HandleStorageChanged, IInv, SharedOK, Wanted, others
<1>t. Typed'
  BY <1>1, <1>2, <1>3, <1>4, <1>5, <1>6 DEF Typed
<1>9. TokensOK'
  BY <1>t, TokensKept DEF HandleStorageChanged, IInv, IssuedOld, bridge, others,
     counts
<1>10. ClientOld
  BY DEF HandleStorageChanged, ClientOld, others
<1>11. PendingOld
  BY DEF HandleStorageChanged, IInv, PendingOK, PendingOld, bridge
<1>12. InstOld
  BY DEF HandleStorageChanged, InstOld, bridge
<1>13. ReadersOld /\ FaultsKept
  BY DEF HandleStorageChanged, ReadersOld, FaultsKept, IInv, Typed, CountsTyped,
     others, counts
<1> QED  BY <1>t, <1>7, <1>8, <1>9, <1>10, <1>11, <1>12, <1>13, Kept

\* What the worker was doing is gone.
LEMMA WorkerRestartsKeeps ==
  ASSUME IInv, WorkerRestarts
  PROVE  IInv'
<1>n. NoOperation \in Operation /\ NoStatus \in Status /\ NoOperation.at = "idle" /\ NoStatus.at = "idle"
      /\ NoOperation.token = 0 /\ NoStatus.token = 0
  BY NoOperationIs, NoStatusIs
<1>1. client' \in Client
  BY DEF WorkerRestarts, IInv, Typed
<1>2. op' \in Operation
  BY <1>n DEF WorkerRestarts
<1>3. status' \in Status
  BY <1>n DEF WorkerRestarts
<1>4. due' \in BOOLEAN /\ alarm' \in BOOLEAN
  BY DEF WorkerRestarts, IInv, Typed
<1>5. BridgeTyped'
  BY DEF WorkerRestarts, IInv, Typed, BridgeTyped, bridge
<1>6. dead' \subseteq ConnRequests /\ wanted' \subseteq Versions /\ agent' \in Read /\ CountsTyped'
  BY DEF WorkerRestarts, IInv, Typed, CountsTyped, others, Fault
<1>7. SessionsOK'
  BY <1>n DEF WorkerRestarts, SessionsOK
<1>8. SharedOK'
  BY <1>n DEF WorkerRestarts, IInv, SharedOK, Wanted, others
<1>t. Typed'
  BY <1>1, <1>2, <1>3, <1>4, <1>5, <1>6 DEF Typed
<1>9. TokensOK'
  BY <1>n, <1>t, TokensKept DEF WorkerRestarts, IInv, IssuedOld, bridge, others
<1>10. ClientOld
  BY DEF WorkerRestarts, ClientOld, others
<1>11. PendingOld
  BY <1>n DEF WorkerRestarts, IInv, PendingOK, PendingOld, bridge
<1>12. InstOld
  BY DEF WorkerRestarts, InstOld, bridge
<1>13. ReadersOld /\ FaultsKept
  BY DEF WorkerRestarts, ReadersOld, FaultsKept, IInv, Typed, CountsTyped, others,
     Fault
<1> QED  BY <1>t, <1>7, <1>8, <1>9, <1>10, <1>11, <1>12, <1>13, Kept

LEMMA RefreshedKeeps ==
  ASSUME IInv, Refreshed
  PROVE  IInv'
<1>o. /\ op'.at \in {"read", "delete", "put", "beat"} /\ op'.token = client.token /\ op'.of = client.snap.latest
      /\ op'.at = "put" => op'.of # None
  BY DEF Refreshed, Owes, IInv, Typed, Operation
<1>1. client' \in Client
  BY DEF Refreshed, IInv, Typed
<1>2. op' \in Operation
  <2>1. Owes(client) \in {"read", "delete", "put", "beat"}
    BY DEF Owes
  <2>2. client.token \in Nat /\ client.snap.latest \in Contents
    BY DEF IInv, Typed, Client, Snapshots
  <2> QED  BY <2>1, <2>2 DEF Refreshed, IInv, Typed, Operation
<1>3. status' \in Status
  BY DEF Refreshed, IInv, Typed
<1>4. due' \in BOOLEAN /\ alarm' \in BOOLEAN
  BY DEF Refreshed, IInv, Typed
<1>5. BridgeTyped'
  BY DEF Refreshed, IInv, Typed, BridgeTyped, bridge
<1>6. dead' \subseteq ConnRequests /\ wanted' \subseteq Versions /\ agent' \in Read /\ CountsTyped'
  BY DEF Refreshed, IInv, Typed, CountsTyped, others, counts
<1>7. SessionsOK'
  BY <1>o DEF Refreshed, IInv, SessionsOK
<1>8. SharedOK'
  <2>1. UNCHANGED <<client, wanted>>
    BY DEF Refreshed, others
  <2>2. op'.at = "put" => op'.of # None /\ op'.of = client.snap.latest
    BY <1>o
  <2> QED  BY <2>1, <2>2 DEF IInv, SharedOK, Wanted
<1>t. Typed'
  BY <1>1, <1>2, <1>3, <1>4, <1>5, <1>6 DEF Typed
<1>9. TokensOK'
  BY <1>o, <1>t, TokensKept DEF Refreshed, IInv, IssuedOld, bridge, others, counts
<1>10. ClientOld
  BY DEF Refreshed, ClientOld, others
<1>11. PendingOld
  BY <1>o DEF Refreshed, IInv, PendingOK, PendingOld, bridge
<1>12. InstOld
  BY DEF Refreshed, InstOld, bridge
<1>13. ReadersOld /\ FaultsKept
  BY DEF Refreshed, ReadersOld, FaultsKept, IInv, Typed, CountsTyped, others, counts
<1> QED  BY <1>t, <1>7, <1>8, <1>9, <1>10, <1>11, <1>12, <1>13, Kept

LEMMA ReadConfirmationKeeps ==
  ASSUME IInv, ReadConfirmation
  PROVE  IInv'
<1>o. op' = NoOperation /\ NoOperation \in Operation /\ NoOperation.at = "idle" /\ NoOperation.token = 0
  BY NoOperationIs DEF ReadConfirmation, Reports, Done
<1>1. client' \in Client
  BY DEF ReadConfirmation, IInv, Typed
<1>2. op' \in Operation
  BY <1>o
<1>3. status' \in Status
  BY DEF ReadConfirmation, IInv, Typed
<1>4. due' \in BOOLEAN /\ alarm' \in BOOLEAN
  BY DEF ReadConfirmation, IInv, Typed, Reports, Schedules
<1>5. BridgeTyped'
  BY DEF ReadConfirmation, IInv, Typed, BridgeTyped, bridge
<1>6. dead' \subseteq ConnRequests /\ wanted' \subseteq Versions /\ agent' \in Read /\ CountsTyped'
  BY DEF ReadConfirmation, IInv, Typed, CountsTyped, others, counts
<1>7. SessionsOK'
  BY <1>o DEF ReadConfirmation, IInv, SessionsOK
<1>8. SharedOK'
  BY <1>o DEF ReadConfirmation, IInv, SharedOK, Wanted, others
<1>t. Typed'
  BY <1>1, <1>2, <1>3, <1>4, <1>5, <1>6 DEF Typed
<1>9. TokensOK'
  BY <1>o, <1>t, TokensKept DEF ReadConfirmation, IInv, IssuedOld, bridge, others,
     counts
<1>10. ClientOld
  BY DEF ReadConfirmation, ClientOld, others
<1>11. PendingOld
  BY <1>o DEF ReadConfirmation, IInv, PendingOK, PendingOld, bridge
<1>12. InstOld
  BY DEF ReadConfirmation, InstOld, bridge
<1>13. ReadersOld /\ FaultsKept
  BY DEF ReadConfirmation, ReadersOld, FaultsKept, IInv, Typed, CountsTyped, others,
     counts
<1> QED  BY <1>t, <1>7, <1>8, <1>9, <1>10, <1>11, <1>12, <1>13, Kept

\* An invitation is asked for: there is no token, and no request any more.
LEMMA CreateKeeps ==
  ASSUME IInv, NEW mode \in Modes, CreateConnectionRequest(mode)
  PROVE  IInv'
<1>c. /\ client' \in Client /\ client'.token = 0 /\ client'.pending = 0
      /\ client'.snap \in {client.snap, Nothing}
      /\ client'.session \in {client.session, client.session + 1}
  <2>1. client \in Client /\ client.token = 0
    BY DEF IInv, Typed, CreateConnectionRequest
  <2>2. PICK standing : standing = IF client.pending \in dead THEN [client EXCEPT !.pending = 0] ELSE client
    OBVIOUS
  <2>3. /\ standing \in Client /\ standing.token = 0 /\ standing.snap = client.snap
        /\ standing.session = client.session
    BY <2>1, <2>2 DEF Client
  <2>4. /\ standing.pending = 0
        /\ client' = [(IF mode = "ask" /\ standing.trust # 0 THEN Rotated(standing, TRUE) ELSE standing)
                       EXCEPT !.mode = mode]
    BY <2>2 DEF CreateConnectionRequest, Save
  <2>5. PICK c : c = IF mode = "ask" /\ standing.trust # 0 THEN Rotated(standing, TRUE) ELSE standing
    OBVIOUS
  <2>6. /\ c \in Client /\ c.token = 0 /\ c.pending = 0 /\ c.snap \in {client.snap, Nothing}
        /\ c.session \in {client.session, client.session + 1}
    BY <2>3, <2>4, <2>5, RotatedIs DEF Gone
  <2> QED  BY <2>4, <2>5, <2>6 DEF Client
<1>o. /\ op' = [NoOperation EXCEPT !.at = "ask", !.does = "create"]
      /\ op' \in Operation /\ op'.at = "ask" /\ op'.token = 0
  BY DEF CreateConnectionRequest, NoOperation, Operation, Contents
<1>s. client.session + 1 < MaxBrowserSessions /\ client.session \in Nat
  BY DEF CreateConnectionRequest, IInv, Typed, Client
<1>1. client' \in Client
  BY <1>c, <1>o DEF CreateConnectionRequest, IInv, Typed
<1>2. op' \in Operation
  BY <1>c, <1>o DEF CreateConnectionRequest, IInv, Typed
<1>3. status' \in Status
  BY <1>c, <1>o DEF CreateConnectionRequest, IInv, Typed
<1>4. due' \in BOOLEAN /\ alarm' \in BOOLEAN
  BY <1>c, <1>o DEF CreateConnectionRequest, IInv, Typed, Save
<1>5. BridgeTyped'
  BY <1>c, <1>o DEF CreateConnectionRequest, IInv, Typed, BridgeTyped, bridge
<1>6. dead' \subseteq ConnRequests /\ wanted' \subseteq Versions /\ agent' \in Read /\ CountsTyped'
  BY <1>c, <1>o DEF CreateConnectionRequest, IInv, Typed, CountsTyped, others, counts
<1>7. SessionsOK'
  BY <1>c, <1>o, <1>s DEF CreateConnectionRequest, IInv, SessionsOK, Gone, Typed,
     Client
<1>8. SharedOK'
  BY <1>c, <1>o, NothingIs DEF CreateConnectionRequest, IInv, SharedOK, Wanted, others
<1>t. Typed'
  BY <1>1, <1>2, <1>3, <1>4, <1>5, <1>6 DEF Typed
<1>9. TokensOK'
  BY <1>c, <1>o, <1>t, TokensKept DEF CreateConnectionRequest, IInv, IssuedOld,
     bridge, others, counts
<1>10. ClientOld
  BY <1>c, <1>o DEF CreateConnectionRequest, ClientOld, others
<1>11. PendingOld
  BY <1>c, <1>o DEF CreateConnectionRequest, IInv, PendingOK, PendingOld, bridge
<1>12. InstOld
  BY <1>c, <1>o DEF CreateConnectionRequest, InstOld, bridge
<1>13. ReadersOld /\ FaultsKept
  BY <1>c, <1>o DEF CreateConnectionRequest, ReadersOld, FaultsKept, IInv, Typed,
     CountsTyped, others, counts
<1> QED  BY <1>t, <1>7, <1>8, <1>9, <1>10, <1>11, <1>12, <1>13, Kept

LEMMA RefreshConnectionKeeps ==
  ASSUME IInv, RefreshConnection
  PROVE  IInv'
<1>o. op' \in Operation /\ op'.at \in {"poll", "refreshed"} /\ op'.token = 0
  <2>1. client.pending \in ConnRequests \cup {0}
    BY DEF IInv, Typed, Client
  <2> QED  BY <2>1 DEF RefreshConnection, Refresh, NoOperation, Operation, Contents
<1>1. client' \in Client
  BY <1>o DEF RefreshConnection, Refresh, IInv, Typed
<1>2. op' \in Operation
  BY <1>o
<1>3. status' \in Status
  BY <1>o DEF RefreshConnection, Refresh, IInv, Typed
<1>4. due' \in BOOLEAN /\ alarm' \in BOOLEAN
  BY <1>o DEF RefreshConnection, Refresh, IInv, Typed
<1>5. BridgeTyped'
  BY <1>o DEF RefreshConnection, Refresh, IInv, Typed, BridgeTyped, bridge
<1>6. dead' \subseteq ConnRequests /\ wanted' \subseteq Versions /\ agent' \in Read /\ CountsTyped'
  BY <1>o DEF RefreshConnection, Refresh, IInv, Typed, CountsTyped, others, counts
<1>7. SessionsOK'
  BY <1>o DEF RefreshConnection, Refresh, IInv, SessionsOK
<1>8. SharedOK'
  BY <1>o DEF RefreshConnection, Refresh, IInv, SharedOK, Wanted, others
<1>t. Typed'
  BY <1>1, <1>2, <1>3, <1>4, <1>5, <1>6 DEF Typed
<1>9. TokensOK'
  BY <1>o, <1>t, TokensKept DEF RefreshConnection, Refresh, IInv, IssuedOld, bridge,
     others, counts
<1>10. ClientOld
  BY <1>o DEF RefreshConnection, Refresh, ClientOld, others
<1>11. PendingOld
  BY <1>o DEF RefreshConnection, Refresh, IInv, PendingOK, PendingOld, bridge
<1>12. InstOld
  BY <1>o DEF RefreshConnection, Refresh, InstOld, bridge
<1>13. ReadersOld /\ FaultsKept
  BY <1>o DEF RefreshConnection, Refresh, ReadersOld, FaultsKept, others, counts
<1> QED  BY <1>t, <1>7, <1>8, <1>9, <1>10, <1>11, <1>12, <1>13, Kept

LEMMA HandleAlarmKeeps ==
  ASSUME IInv, HandleAlarm
  PROVE  IInv'
<1>o. op' \in Operation /\ op'.at \in {"poll", "refreshed"} /\ op'.token = 0
  <2>1. client.pending \in ConnRequests \cup {0}
    BY DEF IInv, Typed, Client
  <2> QED  BY <2>1 DEF HandleAlarm, Refresh, NoOperation, Operation, Contents
<1>1. client' \in Client
  BY <1>o DEF HandleAlarm, Refresh, IInv, Typed
<1>2. op' \in Operation
  BY <1>o
<1>3. status' \in Status
  BY <1>o DEF HandleAlarm, Refresh, IInv, Typed
<1>4. due' \in BOOLEAN /\ alarm' \in BOOLEAN
  BY <1>o DEF HandleAlarm, Refresh, IInv, Typed
<1>5. BridgeTyped'
  BY <1>o DEF HandleAlarm, Refresh, IInv, Typed, BridgeTyped, bridge
<1>6. dead' \subseteq ConnRequests /\ wanted' \subseteq Versions /\ agent' \in Read /\ CountsTyped'
  BY <1>o DEF HandleAlarm, Refresh, IInv, Typed, CountsTyped, others, counts
<1>7. SessionsOK'
  BY <1>o DEF HandleAlarm, Refresh, IInv, SessionsOK
<1>8. SharedOK'
  BY <1>o DEF HandleAlarm, Refresh, IInv, SharedOK, Wanted, others
<1>t. Typed'
  BY <1>1, <1>2, <1>3, <1>4, <1>5, <1>6 DEF Typed
<1>9. TokensOK'
  BY <1>o, <1>t, TokensKept DEF HandleAlarm, Refresh, IInv, IssuedOld, bridge, others,
     counts
<1>10. ClientOld
  BY <1>o DEF HandleAlarm, Refresh, ClientOld, others
<1>11. PendingOld
  BY <1>o DEF HandleAlarm, Refresh, IInv, PendingOK, PendingOld, bridge
<1>12. InstOld
  BY <1>o DEF HandleAlarm, Refresh, InstOld, bridge
<1>13. ReadersOld /\ FaultsKept
  BY <1>o DEF HandleAlarm, Refresh, ReadersOld, FaultsKept, others, counts
<1> QED  BY <1>t, <1>7, <1>8, <1>9, <1>10, <1>11, <1>12, <1>13, Kept

LEMMA ProbeKeeps ==
  ASSUME IInv, ProbeCapability
  PROVE  IInv'
<1>c. /\ client' \in Client /\ client'.token = client.token /\ client'.pending = client.pending
      /\ client'.snap = client.snap /\ client'.seq = client.seq /\ client'.clear = client.clear
      /\ client'.session = client.session /\ due' \in BOOLEAN
  <2>1. PICK cap \in {"whole", "reduced"} : Save([client EXCEPT !.cap = cap])
    BY DEF ProbeCapability
  <2> QED  BY <2>1 DEF IInv, Typed, Client, Save
<1>1. client' \in Client
  BY <1>c DEF ProbeCapability, IInv, Typed
<1>2. op' \in Operation
  BY <1>c DEF ProbeCapability, IInv, Typed
<1>3. status' \in Status
  BY <1>c DEF ProbeCapability, IInv, Typed
<1>4. due' \in BOOLEAN /\ alarm' \in BOOLEAN
  BY <1>c DEF ProbeCapability, IInv, Typed, Save
<1>5. BridgeTyped'
  BY <1>c DEF ProbeCapability, IInv, Typed, BridgeTyped, bridge
<1>6. dead' \subseteq ConnRequests /\ wanted' \subseteq Versions /\ agent' \in Read /\ CountsTyped'
  BY <1>c DEF ProbeCapability, IInv, Typed, CountsTyped, others, counts
<1>7. SessionsOK'
  BY <1>c DEF ProbeCapability, IInv, SessionsOK, Typed, Client, Gone
<1>8. SharedOK'
  BY <1>c DEF ProbeCapability, IInv, SharedOK, Wanted, others
<1>t. Typed'
  BY <1>1, <1>2, <1>3, <1>4, <1>5, <1>6 DEF Typed
<1>9. TokensOK'
  BY <1>c, <1>t, TokensKept DEF ProbeCapability, IInv, IssuedOld, bridge, others,
     counts
<1>10. ClientOld
  BY <1>c DEF ProbeCapability, ClientOld, others, IInv, Typed, Client
<1>11. PendingOld
  BY <1>c DEF ProbeCapability, IInv, PendingOK, PendingOld, bridge
<1>12. InstOld
  BY <1>c DEF ProbeCapability, InstOld, bridge
<1>13. ReadersOld /\ FaultsKept
  BY <1>c DEF ProbeCapability, ReadersOld, FaultsKept, IInv, Typed, CountsTyped,
     others, counts
<1> QED  BY <1>t, <1>7, <1>8, <1>9, <1>10, <1>11, <1>12, <1>13, Kept

\* The state that is saved was read before; it has no credentials.
LEMMA SaveStatusKeeps ==
  ASSUME IInv, SaveStatus
  PROVE  IInv'
<1>c. Gone(client') /\ client'.session <= client.session
  BY DEF SaveStatus, Save, IInv, SessionsOK
<1>g. /\ client' \in Client /\ client'.token = 0 /\ client'.pending = 0
      /\ client'.snap.latest = None /\ client'.snap.panel = None /\ client'.snap.own = None
  BY <1>c, GoneIs
<1>n. NoStatus \in Status /\ NoStatus.at = "idle" /\ NoStatus.token = 0 /\ status' = NoStatus
  BY NoStatusIs DEF SaveStatus
<1>1. client' \in Client
  BY <1>g, <1>n DEF SaveStatus, IInv, Typed
<1>2. op' \in Operation
  BY <1>g, <1>n DEF SaveStatus, IInv, Typed
<1>3. status' \in Status
  BY <1>g, <1>n DEF SaveStatus, IInv, Typed
<1>4. due' \in BOOLEAN /\ alarm' \in BOOLEAN
  BY <1>g, <1>n DEF SaveStatus, IInv, Typed, Save
<1>5. BridgeTyped'
  BY <1>g, <1>n DEF SaveStatus, IInv, Typed, BridgeTyped, bridge
<1>6. dead' \subseteq ConnRequests /\ wanted' \subseteq Versions /\ agent' \in Read /\ CountsTyped'
  BY <1>g, <1>n DEF SaveStatus, IInv, Typed, CountsTyped, others, counts
<1>7. SessionsOK'
  BY <1>c, <1>g, <1>n DEF SaveStatus, IInv, SessionsOK, Typed, Client
<1>8. SharedOK'
  BY <1>g, <1>n DEF SaveStatus, IInv, SharedOK, Wanted, others
<1>t. Typed'
  BY <1>1, <1>2, <1>3, <1>4, <1>5, <1>6 DEF Typed
<1>9. TokensOK'
  BY <1>g, <1>n, <1>t, TokensKept DEF SaveStatus, IInv, IssuedOld, bridge, others,
     counts
<1>10. ClientOld
  BY <1>g, <1>n DEF SaveStatus, ClientOld, others
<1>11. PendingOld
  BY <1>g, <1>n DEF SaveStatus, IInv, PendingOK, PendingOld, bridge
<1>12. InstOld
  BY <1>g, <1>n DEF SaveStatus, InstOld, bridge
<1>13. ReadersOld /\ FaultsKept
  BY <1>g, <1>n DEF SaveStatus, ReadersOld, FaultsKept, IInv, Typed, CountsTyped,
     others, counts
<1> QED  BY <1>t, <1>7, <1>8, <1>9, <1>10, <1>11, <1>12, <1>13, Kept

LEMMA BeatKeeps ==
  ASSUME IInv, Beat
  PROVE  IInv'
<1>s. /\ \/ client' = client /\ due' = due
         \/ client' = Denied(client) /\ due' = (due \/ Denied(client) # client)
      /\ \/ faults' = faults
         \/ faults < MaxConnFaults /\ faults' = faults + 1
      /\ UNCHANGED <<bridge, issued, status, alarm, others>>
  BY DEF Beat, Exchange, Save, Fault
<1>c. /\ client' \in Client /\ client'.session = client.session /\ due' \in BOOLEAN
      /\ client' = client \/ (Gone(client') /\ client'.token = 0 /\ client'.pending = 0)
      /\ client'.snap.latest \in {client.snap.latest, None}
      /\ client'.snap.panel \in {client.snap.panel, None}
      /\ client'.snap.own \in {client.snap.own, None}
  BY <1>s, DeniedIs, GoneIs DEF IInv, Typed
<1>f. /\ faults \in Nat /\ faults' \in 0 .. MaxConnFaults /\ (faults' = 0 => faults = 0)
  BY <1>s DEF IInv, Typed, CountsTyped
<1>o. op' = [op EXCEPT !.at = "read"] /\ op' \in Operation /\ op'.at = "read" /\ op'.token = op.token
  BY DEF Beat, IInv, Typed, Operation
<1>1. client' \in Client
  BY <1>s, <1>c, <1>f, <1>o DEF IInv, Typed
<1>2. op' \in Operation
  BY <1>s, <1>c, <1>f, <1>o DEF IInv, Typed
<1>3. status' \in Status
  BY <1>s DEF IInv, Typed
<1>4. due' \in BOOLEAN /\ alarm' \in BOOLEAN
  BY <1>s, <1>c DEF IInv, Typed
<1>5. BridgeTyped'
  BY <1>s DEF bridge, IInv, Typed, BridgeTyped
<1>6. dead' \subseteq ConnRequests /\ wanted' \subseteq Versions /\ agent' \in Read /\ CountsTyped'
  BY <1>s, <1>f DEF others, IInv, Typed, CountsTyped
<1>7. SessionsOK'
  BY <1>s, <1>c, <1>o DEF IInv, SessionsOK
<1>8. SharedOK'
  BY <1>s, <1>c, <1>o DEF others, IInv, SharedOK, Wanted
<1>t. Typed'
  BY <1>1, <1>2, <1>3, <1>4, <1>5, <1>6 DEF Typed
<1>9. TokensOK'
  BY <1>s, <1>c, <1>o, <1>t, TokensKept DEF bridge, others, IInv, IssuedOld
<1>10. ClientOld
  BY <1>s, <1>c DEF others, ClientOld
<1>11. PendingOld
  BY <1>s, <1>c, <1>o DEF bridge, IInv, PendingOK, PendingOld
<1>12. InstOld
  BY <1>s DEF bridge, InstOld
<1>13. ReadersOld /\ FaultsKept
  BY <1>s, <1>f DEF others, ReadersOld, FaultsKept
<1> QED  BY <1>t, <1>7, <1>8, <1>9, <1>10, <1>11, <1>12, <1>13, Kept

\* The user shares a version; it is wanted from now on.
LEMMA PublishKeeps ==
  ASSUME IInv, NEW source \in {"panel", "session"}, NEW v \in Versions, Publish(source, v)
  PROVE  IInv'
<1>1a. PICK latest \in IF source = "panel" /\ client.snap.own # None THEN {v, client.snap.own} ELSE {v} :
       /\ Save([client EXCEPT !.snap = [client.snap EXCEPT !.latest = latest, !.source = source,
                  !.panel = IF source = "panel" THEN latest ELSE client.snap.panel,
                  !.own = IF source = "session" THEN v ELSE client.snap.own]])
       /\ Sends("put", "publish", latest)
  BY DEF Publish
<1>w. /\ latest \in Wanted' /\ latest \in Contents \ {None} /\ wanted' = wanted \cup {v}
      /\ client.snap \in Snapshots /\ client \in Client /\ client.token \in Nat
      /\ client.snap.panel \in Wanted /\ client.snap.own \in Wanted
  BY <1>1a, ConnectionBounds DEF Publish, IInv, SharedOK, Wanted, Contents, None, Typed, Client, Snapshots
<1>x. PICK t : t = [client.snap EXCEPT !.latest = latest, !.source = source,
                  !.panel = IF source = "panel" THEN latest ELSE client.snap.panel,
                  !.own = IF source = "session" THEN v ELSE client.snap.own]
  OBVIOUS
<1>y. t \in Snapshots /\ t.latest \in Wanted' /\ t.panel \in Wanted' /\ t.own \in Wanted' /\ t.shared = client.snap.shared
  BY <1>w, <1>x DEF Snapshots, Contents, Wanted
<1>z. client' = [client EXCEPT !.snap = t] /\ due' \in BOOLEAN
  <2>1. client' = [client EXCEPT !.snap = t]
    BY <1>1a, <1>x DEF Save
  <2>2. due' \in BOOLEAN
    BY <1>1a DEF Save, IInv, Typed
  <2> QED  BY <2>1, <2>2
<1>c. /\ client' \in Client /\ client'.snap = t /\ client'.token = client.token
      /\ client'.pending = client.pending /\ client'.session = client.session
      /\ client'.seq = client.seq /\ client'.clear = client.clear
  BY <1>w, <1>y, <1>z DEF Client
<1>o. /\ op' \in Operation /\ op'.at \in {"idle", "put"} /\ op'.token \in {0, client.token}
      /\ op'.at = "put" => op'.of = latest
  BY <1>1a, <1>w DEF Sends, NoOperation, Operation, Contents
<1>s. UNCHANGED <<status, alarm, bridge, dead, agent, told, counts>> /\ ~client.clear /\ client.clear \in BOOLEAN
  BY DEF Publish, IInv, Typed, Client
<1>1. client' \in Client
  BY <1>c
<1>2. op' \in Operation
  BY <1>o
<1>3. status' \in Status
  BY <1>s DEF IInv, Typed
<1>4. due' \in BOOLEAN /\ alarm' \in BOOLEAN
  BY <1>s, <1>z DEF IInv, Typed
<1>5. BridgeTyped'
  BY <1>s DEF bridge, IInv, Typed, BridgeTyped
<1>6. dead' \subseteq ConnRequests /\ wanted' \subseteq Versions /\ agent' \in Read /\ CountsTyped'
  BY <1>s, <1>w DEF counts, IInv, Typed, CountsTyped
<1>7. SessionsOK'
  BY <1>s, <1>c, <1>o DEF IInv, SessionsOK
<1>8. SharedOK'
  BY <1>w, <1>y, <1>c, <1>o DEF SharedOK
<1>t. Typed'
  BY <1>1, <1>2, <1>3, <1>4, <1>5, <1>6 DEF Typed
<1>9. TokensOK'
  BY <1>s, <1>c, <1>o, <1>t, TokensKept DEF bridge, counts, IInv, IssuedOld
<1>10. ClientOld
  BY <1>s, <1>w, <1>c, <1>y DEF ClientOld
<1>11. PendingOld
  BY <1>s, <1>c, <1>o DEF bridge, IInv, PendingOK, PendingOld
<1>12. InstOld
  BY <1>s DEF bridge, InstOld
<1>13. ReadersOld /\ FaultsKept
  BY <1>s DEF counts, ReadersOld, FaultsKept
<1> QED  BY <1>t, <1>7, <1>8, <1>9, <1>10, <1>11, <1>12, <1>13, Kept

\* A channel withdraws what it shared: the other one takes over, or all is withdrawn.
LEMMA WithdrawKeeps ==
  ASSUME IInv, NEW source \in {"panel", "session"}, Withdraw(source)
  PROVE  IInv'
<1>i. /\ client \in Client /\ client.snap \in Snapshots /\ client.token \in Nat /\ None \in Contents
      /\ client.snap.latest \in Wanted /\ client.snap.panel \in Wanted /\ client.snap.own \in Wanted
      /\ wanted \subseteq Versions /\ due \in BOOLEAN /\ None \in Wanted
  BY DEF IInv, SharedOK, Wanted, Contents, Typed, Client
<1>x. PICK t : t = [client.snap EXCEPT !.panel = IF source = "panel" THEN None ELSE client.snap.panel,
                                       !.own = IF source = "panel" THEN client.snap.own ELSE None]
  OBVIOUS
<1>y. /\ t \in Snapshots /\ t.latest \in Wanted /\ t.panel \in Wanted /\ t.own \in Wanted
      /\ t.shared = client.snap.shared
  BY <1>i, <1>x DEF Snapshots, Contents
<1>r. PICK rest : rest = IF source = "panel" THEN client.snap.own ELSE client.snap.panel
  OBVIOUS
<1>r1. rest \in Contents /\ rest \in Wanted
  BY <1>i, <1>r DEF Snapshots
<1>d. PICK d : d = [client EXCEPT !.snap = t]
  OBVIOUS
<1>d1. /\ d \in Client /\ d.snap = t /\ d.token = client.token /\ d.pending = client.pending
       /\ d.session = client.session /\ d.seq = client.seq /\ d.clear = client.clear
  BY <1>i, <1>y, <1>d DEF Client
<1>b. PICK back \in {"session", "panel"} : back = IF source = "panel" THEN "session" ELSE "panel"
  OBVIOUS
<1>u. PICK u : u = [t EXCEPT !.latest = rest, !.source = back]
  OBVIOUS
<1>u1. /\ u \in Snapshots /\ u.latest = rest /\ u.panel = t.panel /\ u.own = t.own /\ u.shared = t.shared
  BY <1>y, <1>r1, <1>u DEF Snapshots
<1>e. PICK e : e = [d EXCEPT !.snap = u]
  OBVIOUS
<1>e1. /\ e \in Client /\ e.snap = u /\ e.token = client.token /\ e.pending = client.pending
       /\ e.session = client.session /\ e.seq = client.seq /\ e.clear = client.clear
  BY <1>d1, <1>e, <1>u1 DEF Client
<1>e2. [d EXCEPT !.snap.latest = rest, !.snap.source = back] = e
  BY <1>d1, <1>e, <1>u, <1>y DEF Client, Snapshots
<1>s. /\ \/ Save(d) /\ Done /\ UNCHANGED wanted
         \/ Save(e) /\ rest # None /\ Sends("put", "publish", rest) /\ UNCHANGED wanted
         \/ Save(Tombstone(client)) /\ Sends("delete", "clear", None) /\ wanted' = {}
      /\ UNCHANGED <<status, alarm, bridge, dead, agent, told, counts>> /\ op = NoOperation
  BY <1>x, <1>r, <1>d, <1>b, <1>e2 DEF Withdraw
<1>c. /\ client' \in Client /\ client'.token = client.token
      /\ client'.pending = client.pending /\ client'.session = client.session
      /\ client'.seq = client.seq /\ client'.snap.shared \in {client.snap.shared, None}
      /\ (client'.clear = client.clear /\ wanted' = wanted) \/ client'.clear = TRUE
      /\ client'.snap.latest \in Wanted' /\ client'.snap.panel \in Wanted' /\ client'.snap.own \in Wanted'
  <2>1. CASE client' = d /\ wanted' = wanted
    BY <1>i, <1>y, <1>d1, <2>1 DEF Wanted
  <2>2. CASE client' = e /\ wanted' = wanted
    BY <1>i, <1>y, <1>r1, <1>e1, <1>u1, <2>2 DEF Wanted
  <2>3. CASE client' = Tombstone(client)
    BY <1>i, <2>3, TombstoneIs, NothingIs DEF Wanted
  <2> QED  BY <1>s, <2>1, <2>2, <2>3 DEF Save
<1>o. /\ op' \in Operation /\ op'.at \in {"idle", "put", "delete"} /\ op'.token \in {0, client.token}
      /\ op'.at = "put" => op'.of \in Wanted' \ {None}
  BY <1>i, <1>r1, <1>s DEF Sends, Done, NoOperation, Operation, Wanted
<1>v. wanted' \subseteq Versions
  BY <1>i, <1>s
<1>w. due' \in BOOLEAN
  BY <1>i, <1>s DEF Save
<1>1. client' \in Client
  BY <1>c
<1>2. op' \in Operation
  BY <1>o
<1>3. status' \in Status
  BY <1>s DEF IInv, Typed
<1>4. due' \in BOOLEAN /\ alarm' \in BOOLEAN
  BY <1>s, <1>w DEF IInv, Typed
<1>5. BridgeTyped'
  BY <1>s DEF bridge, IInv, Typed, BridgeTyped
<1>6. dead' \subseteq ConnRequests /\ wanted' \subseteq Versions /\ agent' \in Read /\ CountsTyped'
  BY <1>s, <1>v DEF counts, IInv, Typed, CountsTyped
<1>7. SessionsOK'
  BY <1>s, <1>c, <1>o DEF IInv, SessionsOK
<1>8. SharedOK'
  BY <1>c, <1>o DEF SharedOK
<1>t. Typed'
  BY <1>1, <1>2, <1>3, <1>4, <1>5, <1>6 DEF Typed
<1>9. TokensOK'
  BY <1>s, <1>c, <1>o, <1>t, TokensKept DEF bridge, counts, IInv, IssuedOld
<1>10. ClientOld
  <2>1. client.clear \in BOOLEAN
    BY <1>i DEF Client
  <2> QED  BY <2>1, <1>c DEF ClientOld
<1>11. PendingOld
  BY <1>s, <1>c, <1>o DEF bridge, IInv, PendingOK, PendingOld
<1>12. InstOld
  BY <1>s DEF bridge, InstOld
<1>13. ReadersOld /\ FaultsKept
  BY <1>s DEF counts, ReadersOld, FaultsKept
<1> QED  BY <1>t, <1>7, <1>8, <1>9, <1>10, <1>11, <1>12, <1>13, Kept

\* All that is shared is withdrawn.
LEMMA ClearSharedCaptureKeeps ==
  ASSUME IInv, ClearSharedCapture
  PROVE  IInv'
<1>i. client \in Client /\ client.token \in Nat
  BY DEF IInv, Typed, Client
<1>c. /\ client' \in Client /\ client'.token = client.token
      /\ client'.pending = client.pending /\ client'.session = client.session
      /\ client'.seq = client.seq /\ client'.snap = Nothing /\ client'.clear = TRUE
  BY <1>i, TombstoneIs DEF ClearSharedCapture, Save
<1>o. op' \in Operation /\ op'.at \in {"idle", "delete"} /\ op'.token \in {0, client.token}
  BY <1>i DEF ClearSharedCapture, Sends, NoOperation, Operation, Contents
<1>1. client' \in Client
  BY <1>c, <1>o DEF ClearSharedCapture, IInv, Typed
<1>2. op' \in Operation
  BY <1>c, <1>o DEF ClearSharedCapture, IInv, Typed
<1>3. status' \in Status
  BY <1>c, <1>o DEF ClearSharedCapture, IInv, Typed
<1>4. due' \in BOOLEAN /\ alarm' \in BOOLEAN
  BY <1>c, <1>o DEF ClearSharedCapture, IInv, Typed, Save
<1>5. BridgeTyped'
  BY <1>c, <1>o DEF ClearSharedCapture, IInv, Typed, BridgeTyped, bridge
<1>6. dead' \subseteq ConnRequests /\ wanted' \subseteq Versions /\ agent' \in Read /\ CountsTyped'
  BY <1>c, <1>o DEF ClearSharedCapture, IInv, Typed, CountsTyped, counts
<1>7. SessionsOK'
  BY <1>c, <1>o DEF ClearSharedCapture, IInv, SessionsOK
<1>8. SharedOK'
  BY <1>c, <1>o, NothingIs DEF SharedOK, Wanted
<1>t. Typed'
  BY <1>1, <1>2, <1>3, <1>4, <1>5, <1>6 DEF Typed
<1>9. TokensOK'
  BY <1>c, <1>o, <1>t, TokensKept DEF ClearSharedCapture, IInv, IssuedOld, bridge,
     counts
<1>10. ClientOld
  BY <1>c, NothingIs DEF ClientOld
<1>11. PendingOld
  BY <1>c, <1>o DEF ClearSharedCapture, IInv, PendingOK, PendingOld, bridge
<1>12. InstOld
  BY <1>c, <1>o DEF ClearSharedCapture, InstOld, bridge
<1>13. ReadersOld /\ FaultsKept
  BY <1>c, <1>o DEF ClearSharedCapture, ReadersOld, FaultsKept, IInv, Typed,
     CountsTyped, counts
<1> QED  BY <1>t, <1>7, <1>8, <1>9, <1>10, <1>11, <1>12, <1>13, Kept

LEMMA RequestExpiresKeeps ==
  ASSUME IInv, NEW r \in ConnRequests, RequestExpires(r)
  PROVE  IInv'
<1>1. client' \in Client
  BY DEF RequestExpires, IInv, Typed, extension
<1>2. op' \in Operation
  BY DEF RequestExpires, IInv, Typed, extension
<1>3. status' \in Status
  BY DEF RequestExpires, IInv, Typed, extension
<1>4. due' \in BOOLEAN /\ alarm' \in BOOLEAN
  BY DEF RequestExpires, IInv, Typed, extension
<1>5. BridgeTyped'
  BY DEF RequestExpires, IInv, Typed, BridgeTyped, bridge
<1>6. dead' \subseteq ConnRequests /\ wanted' \subseteq Versions /\ agent' \in Read /\ CountsTyped'
  BY DEF RequestExpires, IInv, Typed, CountsTyped, counts
<1>7. SessionsOK'
  BY DEF RequestExpires, IInv, SessionsOK, extension
<1>8. SharedOK'
  BY DEF RequestExpires, IInv, SharedOK, Wanted, extension
<1>t. Typed'
  BY <1>1, <1>2, <1>3, <1>4, <1>5, <1>6 DEF Typed
<1>9. TokensOK'
  BY <1>t, TokensKept DEF RequestExpires, IInv, IssuedOld, extension, bridge, counts
<1>10. ClientOld
  BY DEF RequestExpires, ClientOld, extension
<1>11. PendingOld
  BY DEF RequestExpires, IInv, PendingOK, PendingOld, extension, bridge
<1>12. InstOld
  BY DEF RequestExpires, InstOld, bridge
<1>13. ReadersOld /\ FaultsKept
  BY DEF RequestExpires, ReadersOld, FaultsKept, IInv, Typed, CountsTyped, extension,
     counts
<1> QED  BY <1>t, <1>7, <1>8, <1>9, <1>10, <1>11, <1>12, <1>13, Kept

LEMMA RejectKeeps ==
  ASSUME IInv, NEW r \in ConnRequests, RejectConnectionApproval(r)
  PROVE  IInv'
<1>b. /\ BridgeTyped' /\ InstOld /\ IssuedOld
      /\ \A o \in ConnRequests :
           reqs'[o].status = "approved" =>
             reqs[o].status = "approved" /\ reqs'[o].token = reqs[o].token
  <2>1. Older(Revoked(r))
    BY RevokedIs DEF IInv, Typed
  <2>2. PICK b : b = Revoked(r)
    OBVIOUS
  <2> QED  BY <2>1, <2>2, OlderIs DEF RejectConnectionApproval
<1>1. client' \in Client
  BY DEF RejectConnectionApproval, IInv, Typed, extension
<1>2. op' \in Operation
  BY DEF RejectConnectionApproval, IInv, Typed, extension
<1>3. status' \in Status
  BY DEF RejectConnectionApproval, IInv, Typed, extension
<1>4. due' \in BOOLEAN /\ alarm' \in BOOLEAN
  BY DEF RejectConnectionApproval, IInv, Typed, extension
<1>5. BridgeTyped'
  BY <1>b
<1>6. dead' \subseteq ConnRequests /\ wanted' \subseteq Versions /\ agent' \in Read /\ CountsTyped'
  BY DEF RejectConnectionApproval, IInv, Typed, CountsTyped, others, Fault
<1>7. SessionsOK'
  BY DEF RejectConnectionApproval, IInv, SessionsOK, extension
<1>8. SharedOK'
  BY DEF RejectConnectionApproval, IInv, SharedOK, Wanted, extension, others
<1>t. Typed'
  BY <1>1, <1>2, <1>3, <1>4, <1>5, <1>6 DEF Typed
<1>9. TokensOK'
  BY <1>b, <1>t, TokensKept DEF RejectConnectionApproval, IInv, extension, others
<1>10. ClientOld
  BY DEF RejectConnectionApproval, ClientOld, extension, others
<1>11. PendingOld
  BY <1>b DEF RejectConnectionApproval, IInv, PendingOK, PendingOld, extension
<1>12. InstOld
  BY <1>b
<1>13. ReadersOld /\ FaultsKept
  BY DEF RejectConnectionApproval, ReadersOld, FaultsKept, IInv, Typed, CountsTyped,
     extension, others, Fault
<1> QED  BY <1>t, <1>7, <1>8, <1>9, <1>10, <1>11, <1>12, <1>13, Kept

\* The credentials go first; the bridge may not hear of it.
LEMMA DisconnectKeeps ==
  ASSUME IInv, Disconnect
  PROVE  IInv'
<1>f. \/ Holds(Disconnected) /\ UNCHANGED <<issued, faults>>
      \/ Holds(Disconnected) /\ UNCHANGED issued /\ Fault
      \/ UNCHANGED <<bridge, issued>> /\ Fault
  BY DEF Disconnect, Exchange
<1>b. /\ BridgeTyped' /\ InstOld /\ IssuedOld
      /\ \A o \in ConnRequests :
           reqs'[o].status = "approved" =>
             reqs[o].status = "approved" /\ reqs'[o].token = reqs[o].token
  <2>1. Older(Disconnected) /\ BridgeTyped
    BY DisconnectedIs DEF IInv, Typed
  <2>2. CASE Holds(Disconnected) /\ UNCHANGED issued
    <3>1. PICK b : b = Disconnected
      OBVIOUS
    <3> QED  BY <2>1, <2>2, <3>1, OlderIs
  <2>3. CASE UNCHANGED <<bridge, issued>>
    BY <2>1, <2>3 DEF bridge, BridgeTyped, InstOld, IssuedOld
  <2> QED  BY <1>f, <2>2, <2>3
<1>g. UNCHANGED issued /\ faults \in Nat /\ faults' \in 0 .. MaxConnFaults /\ (faults' = 0 => faults = 0)
  BY <1>f DEF Fault, IInv, Typed, CountsTyped
<1>c. /\ Gone(client') /\ client'.session = client.session + 1 /\ client.session \in Nat
  BY RotatedIs DEF Disconnect, Save, IInv, Typed, Client
<1>d. /\ client' \in Client /\ client'.token = 0 /\ client'.pending = 0
      /\ client'.snap.latest = None /\ client'.snap.panel = None /\ client'.snap.own = None
  BY <1>c, GoneIs
<1>o. op' = NoOperation /\ NoOperation \in Operation /\ NoOperation.at = "idle" /\ NoOperation.token = 0
  BY NoOperationIs DEF Disconnect, Exchange, Done
<1>1. client' \in Client
  BY <1>d
<1>2. op' \in Operation
  BY <1>o
<1>3. status' \in Status
  BY DEF Disconnect, IInv, Typed
<1>4. due' \in BOOLEAN /\ alarm' \in BOOLEAN
  BY DEF Disconnect, IInv, Typed, Save
<1>5. BridgeTyped'
  BY <1>b
<1>6. dead' \subseteq ConnRequests /\ wanted' \subseteq Versions /\ agent' \in Read /\ CountsTyped'
  BY <1>g DEF Disconnect, IInv, Typed, CountsTyped, others
<1>7. SessionsOK'
  BY <1>c, <1>d, <1>o DEF Disconnect, IInv, SessionsOK, Gone, Client
<1>8. SharedOK'
  BY <1>d, <1>o DEF Disconnect, IInv, SharedOK, Wanted, others
<1>t. Typed'
  BY <1>1, <1>2, <1>3, <1>4, <1>5, <1>6 DEF Typed
<1>9. TokensOK'
  BY <1>b, <1>g, <1>d, <1>o, <1>t, TokensKept DEF Disconnect, IInv, others
<1>10. ClientOld
  BY <1>d DEF ClientOld
<1>11. PendingOld
  BY <1>d, <1>b, <1>o DEF PendingOld
<1>12. InstOld
  BY <1>b
<1>13. ReadersOld /\ FaultsKept
  BY <1>g DEF Disconnect, ReadersOld, FaultsKept, others
<1> QED  BY <1>t, <1>7, <1>8, <1>9, <1>10, <1>11, <1>12, <1>13, Kept

\* The bridge forgets everything.
LEMMA BridgeRestartsKeeps ==
  ASSUME IInv, BridgeRestarts
  PROVE  IInv'
<1>b. /\ BridgeTyped' /\ InstOld /\ IssuedOld
      /\ \A o \in ConnRequests : reqs'[o].status # "approved"
  BY NoneIs DEF BridgeRestarts, BridgeTyped, InstOld, IssuedOld, IInv, Typed
<1>1. client' \in Client
  BY DEF BridgeRestarts, IInv, Typed, extension
<1>2. op' \in Operation
  BY DEF BridgeRestarts, IInv, Typed, extension
<1>3. status' \in Status
  BY DEF BridgeRestarts, IInv, Typed, extension
<1>4. due' \in BOOLEAN /\ alarm' \in BOOLEAN
  BY DEF BridgeRestarts, IInv, Typed, extension
<1>5. BridgeTyped'
  BY <1>b
<1>6. dead' \subseteq ConnRequests /\ wanted' \subseteq Versions /\ agent' \in Read /\ CountsTyped'
  BY DEF BridgeRestarts, IInv, Typed, CountsTyped, others, Fault
<1>7. SessionsOK'
  BY DEF BridgeRestarts, IInv, SessionsOK, extension
<1>8. SharedOK'
  BY DEF BridgeRestarts, IInv, SharedOK, Wanted, extension, others
<1>t. Typed'
  BY <1>1, <1>2, <1>3, <1>4, <1>5, <1>6 DEF Typed
<1>9. TokensOK'
  BY <1>b, <1>t, TokensKept DEF BridgeRestarts, IInv, extension, others
<1>10. ClientOld
  BY DEF BridgeRestarts, ClientOld, extension, others
<1>11. PendingOld
  BY <1>b DEF BridgeRestarts, IInv, PendingOK, PendingOld, extension
<1>12. InstOld
  BY <1>b
<1>13. ReadersOld /\ FaultsKept
  BY DEF BridgeRestarts, ReadersOld, FaultsKept, IInv, Typed, CountsTyped, extension,
     others, Fault
<1> QED  BY <1>t, <1>7, <1>8, <1>9, <1>10, <1>11, <1>12, <1>13, Kept

\* The agent accepts the invitation: a new token, which nobody has yet.
LEMMA ApproveKeeps ==
  ASSUME IInv, NEW r \in ConnRequests, ApproveConnectionRequest(r)
  PROVE  IInv'
<1>b. /\ BridgeTyped' /\ InstOld /\ IssuedOld /\ issued' \in 0 .. MaxApprovals
      /\ \A o \in ConnRequests :
           reqs'[o].status = "approved" =>
             \/ reqs[o].status = "approved" /\ reqs'[o].token = reqs[o].token
             \/ reqs'[o].token = issued + 1
  <2>1. BridgeTyped /\ issued \in Nat /\ issued \in 0 .. MaxApprovals
    BY DEF IInv, Typed, CountsTyped
  <2>2. PICK b : b = Pruned({})
    OBVIOUS
  <2>3. Older(b) /\ b \in Bridges
    BY <2>1, <2>2, PrunedIs DEF Older
  <2>4. CASE Holds(b) /\ UNCHANGED issued
    BY <2>1, <2>3, <2>4, OlderIs
  <2>5. CASE issued < MaxApprovals /\ Holds(Approved(b, r, 0, 0)) /\ issued' = issued + 1
    <3>1. PICK d : d = Approved(b, r, 0, 0)
      OBVIOUS
    <3>2. /\ d \in Bridges
          /\ d.inst.token = issued + 1 /\ d.inst.of = None /\ d.inst.ack = None /\ d.inst.seq = 0
          /\ d.reqs[r].token = issued + 1
          /\ \A o \in ConnRequests \ {r} : d.reqs[o] = b.reqs[o]
      <4>1. PICK n \in Nat : n = issued
        BY <2>1
      <4>2. d = ApprovedAt(b, r, 0, 0, n)
        BY <3>1, <4>1 DEF Approved, ApprovedAt
      <4>3. Newer(d, b, r, n + 1)
        BY <2>3, <4>2, ApprovedIs
      <4> QED  BY <4>1, <4>3 DEF Newer
    <3>3. inst' = d.inst /\ reqs' = d.reqs /\ trusts' = d.trusts
      BY <2>5, <3>1 DEF Holds
    <3>4. BridgeTyped' /\ issued' \in 0 .. MaxApprovals
      BY <2>1, <2>5, <3>2, <3>3 DEF BridgeTyped, Bridges
    <3> QED  BY <2>3, <2>5, <3>2, <3>3, <3>4 DEF Older, InstOld, IssuedOld
  <2> QED  BY <2>2, <2>4, <2>5 DEF ApproveConnectionRequest
<1>1. client' \in Client
  BY DEF ApproveConnectionRequest, IInv, Typed, extension
<1>2. op' \in Operation
  BY DEF ApproveConnectionRequest, IInv, Typed, extension
<1>3. status' \in Status
  BY DEF ApproveConnectionRequest, IInv, Typed, extension
<1>4. due' \in BOOLEAN /\ alarm' \in BOOLEAN
  BY DEF ApproveConnectionRequest, IInv, Typed, extension
<1>5. BridgeTyped'
  BY <1>b
<1>6. dead' \subseteq ConnRequests /\ wanted' \subseteq Versions /\ agent' \in Read /\ CountsTyped'
  BY <1>b DEF ApproveConnectionRequest, IInv, Typed, CountsTyped, others
<1>7. SessionsOK'
  BY DEF ApproveConnectionRequest, IInv, SessionsOK, extension
<1>8. SharedOK'
  BY DEF ApproveConnectionRequest, IInv, SharedOK, Wanted, extension, others
<1>t. Typed'
  BY <1>1, <1>2, <1>3, <1>4, <1>5, <1>6 DEF Typed
<1>9. TokensOK'
  BY <1>b, <1>t, TokensKept DEF ApproveConnectionRequest, IInv, extension, others
<1>10. ClientOld
  BY DEF ApproveConnectionRequest, ClientOld, extension, others
<1>11. PendingOld
  BY <1>b DEF ApproveConnectionRequest, IInv, PendingOK, PendingOld, extension
<1>12. InstOld
  BY <1>b
<1>13. ReadersOld /\ FaultsKept
  BY DEF ApproveConnectionRequest, ReadersOld, FaultsKept, IInv, Typed, CountsTyped,
     extension, others
<1> QED  BY <1>t, <1>7, <1>8, <1>9, <1>10, <1>11, <1>12, <1>13, Kept

\* The bridge makes a request of it, or the client rotates its session.
LEMMA AskKeeps ==
  ASSUME IInv, NEW r \in ConnRequests, Ask(r)
  PROVE  IInv'
<1>i. /\ client \in Client /\ client.session \in Nat /\ client.session < MaxBrowserSessions
      /\ client.token = 0 /\ op \in Operation /\ op.at = "ask" /\ op.token \in Nat /\ due \in BOOLEAN
      /\ issued \in 0 .. MaxApprovals /\ BridgeTyped /\ faults \in 0 .. MaxConnFaults
  BY DEF Ask, IInv, Typed, CountsTyped, SessionsOK, PendingOK, Client, Operation
<1>f. /\ UNCHANGED <<status, alarm, others>>
      /\ \/ /\ Requested(r) /\ UNCHANGED faults
            /\ Save([client EXCEPT !.pending = r])
            /\ IF reqs'[r].status = "approved" THEN op' = [op EXCEPT !.at = "poll", !.req = r] ELSE Done
         \/ Requested(r) /\ Save(Rotated(client, TRUE)) /\ Done /\ Fault
         \/ UNCHANGED <<bridge, issued>> /\ Save(Rotated(client, TRUE)) /\ Done /\ Fault
  BY DEF Ask, Exchange
<1>b. /\ BridgeTyped' /\ InstOld /\ IssuedOld /\ issued' \in 0 .. MaxApprovals
      /\ client'.pending = r /\ reqs'[r].status = "approved" => reqs'[r].token = issued + 1
  <2>1. CASE Requested(r)
    BY <1>i, <2>1, RequestedIs DEF IInv
  <2>2. CASE UNCHANGED <<bridge, issued>> /\ Save(Rotated(client, TRUE))
    <3>1. client'.pending = 0
      BY <1>i, <2>2, RotatedIs DEF Save, Gone
    <3> QED  BY <1>i, <2>2, <3>1 DEF bridge, BridgeTyped, InstOld, IssuedOld
  <2> QED  BY <1>f, <2>1, <2>2
<1>c. /\ client' \in Client /\ client'.token = 0 /\ client'.pending \in {r, 0}
      /\ client'.snap \in {client.snap, Nothing} /\ client.session <= client'.session
      /\ client'.session \in Nat
  <2>1. CASE client' = [client EXCEPT !.pending = r]
    <3>1. /\ client' \in Client /\ client'.token = client.token /\ client'.pending = r
          /\ client'.snap = client.snap /\ client'.session = client.session
      BY <1>i, <2>1 DEF Client
    <3> QED  BY <1>i, <3>1
  <2>2. CASE client' = Rotated(client, TRUE)
    <3>1. Gone(client') /\ client'.session = client.session + 1
      BY <1>i, <2>2, RotatedIs
    <3> QED  BY <1>i, <3>1, GoneIs DEF Gone
  <2> QED  BY <1>f, <2>1, <2>2 DEF Save
<1>o. /\ op' \in Operation /\ op'.at \in {"poll", "idle"} /\ op'.token \in {op.token, 0}
      /\ op'.at = "poll" => op'.req = r
  <2>1. CASE op' = [op EXCEPT !.at = "poll", !.req = r]
    BY <1>i, <2>1, ConnectionBounds DEF Operation
  <2>2. CASE op' = NoOperation
    BY <2>2, NoOperationIs
  <2> QED  BY <1>f, <2>1, <2>2 DEF Done
<1>w. due' \in BOOLEAN
  BY <1>i, <1>f DEF Save
<1>g. faults' \in 0 .. MaxConnFaults /\ (faults' = 0 => faults = 0)
  <2>1. UNCHANGED faults \/ Fault
    BY <1>f
  <2> QED  BY <1>i, <2>1 DEF Fault
<1>1. client' \in Client
  BY <1>c
<1>2. op' \in Operation
  BY <1>o
<1>3. status' \in Status
  BY <1>f DEF IInv, Typed
<1>4. due' \in BOOLEAN /\ alarm' \in BOOLEAN
  BY <1>w, <1>f DEF IInv, Typed
<1>5. BridgeTyped'
  BY <1>b
<1>6. dead' \subseteq ConnRequests /\ wanted' \subseteq Versions /\ agent' \in Read /\ CountsTyped'
  BY <1>b, <1>g, <1>f DEF others, IInv, Typed, CountsTyped
<1>7. SessionsOK'
  <2>1. status' = status
    BY <1>f
  <2>2. status.at = "save" => status.saves.session \in Nat
    BY DEF IInv, SessionsOK, Gone, Client
  <2> QED  BY <1>i, <1>c, <1>o, <2>1, <2>2, ConnectionBounds DEF IInv, SessionsOK
<1>8. SharedOK'
  BY <1>f, <1>c, <1>o, NothingIs DEF others, IInv, SharedOK, Wanted
<1>t. Typed'
  BY <1>1, <1>2, <1>3, <1>4, <1>5, <1>6 DEF Typed
<1>9. TokensOK'
  BY <1>b, <1>f, <1>c, <1>o, <1>t, TokensKept DEF others, IInv
<1>10. ClientOld
  BY <1>c DEF ClientOld
<1>11. PendingOld
  BY <1>b, <1>c, <1>o, ConnectionBounds DEF PendingOld
<1>12. InstOld
  BY <1>b
<1>13. ReadersOld /\ FaultsKept
  BY <1>g, <1>f DEF ReadersOld, FaultsKept, others
<1> QED  BY <1>t, <1>7, <1>8, <1>9, <1>10, <1>11, <1>12, <1>13, Kept


-----------------------------------------------------------------------------
(* The steps of the readers.                                               *)

\* The types of the parts.
LEMMA TypesOf ==
  ASSUME Typed
  PROVE  /\ client \in Client /\ client.token \in Nat /\ client.seq \in Nat
         /\ client.snap.shared \in Contents
         /\ op \in Operation /\ op.token \in Nat /\ op.of \in Contents
         /\ status \in Status /\ status.token \in Nat /\ status.seq \in Nat
         /\ agent \in Read /\ agent.token \in Nat /\ agent.seq \in Nat /\ agent.of \in Contents
         /\ inst \in Instance /\ inst.token \in Nat /\ inst.seq \in Nat /\ inst.of \in Contents
         /\ reqs \in [ConnRequests -> Request] /\ issued \in Nat /\ faults \in Nat
BY DEF Typed, BridgeTyped, CountsTyped, Client, Snapshots, Operation, Status, Read, Instance

\* A status is asked for over the token of the moment.
LEMMA ReadStatusKeeps ==
  ASSUME IInv, ReadStatus
  PROVE  IInv'
<1>0. Typed /\ client.token \in Nat \ {0} /\ client.seq \in Nat
  BY TypesOf DEF IInv, ReadStatus, Connected
<1>1. UNCHANGED <<client, op, due, alarm, bridge, others, counts>>
  BY DEF ReadStatus
<1>2. /\ status' \in Status /\ status'.at = "get" /\ status'.token = client.token
      /\ status'.seq = 0
  <2>1. status' = [NoStatus EXCEPT !.at = "get", !.token = client.token]
    BY DEF ReadStatus
  <2> QED  BY <1>0, <2>1, NoStatusIs DEF Status, NoStatus
<1>3. Typed'
  BY <1>0, <1>1, <1>2 DEF Typed, BridgeTyped, CountsTyped, bridge, others, counts
<1>4. TokensOK' /\ SessionsOK' /\ SharedOK'
  BY <1>0, <1>1, <1>2 DEF IInv, TokensOK, SessionsOK, SharedOK, Wanted, bridge, others, counts
<1>5. PendingOK'
  <2>1. client.pending = 0
    BY <1>0 DEF IInv, PendingOK
  <2> QED  BY <1>1, <2>1, ConnectionBounds DEF IInv, PendingOK, bridge, others
<1>6. SequencesOK' /\ ReadsOK' /\ ClearHolds'
  BY <1>0, <1>1, <1>2
  DEF IInv, SequencesOK, ReadsOK, ClearHolds, Connected, ConfirmationIsCurrent, bridge, others, counts
<1> QED  BY <1>3, <1>4, <1>5, <1>6 DEF IInv

\* The bridge answers with the confirmation of the snapshot it holds.
LEMMA AcknowledgementKeeps ==
  ASSUME IInv, Acknowledgement
  PROVE  IInv'
<1>0. Typed /\ status \in Status /\ status.token \in Nat /\ status.token # 0 /\ inst \in Instance
  BY TypesOf DEF IInv, Acknowledgement, SessionsOK
<1>1. /\ UNCHANGED <<client, op, due, alarm, bridge, others, issued>>
      /\ \/ /\ status' = [status EXCEPT !.at = "answered", !.seq = inst.seq,
                           !.got = IF status.token # inst.token THEN "denied" ELSE inst.ack]
            /\ UNCHANGED faults
         \/ status' = NoStatus /\ Fault
  BY DEF Acknowledgement
<1>2. CASE status' = NoStatus /\ Fault
  <2>1. faults' \in 0 .. MaxConnFaults /\ faults' # 0
    BY <1>0, <1>2 DEF Typed, CountsTyped, Fault
  <2>2. Typed'
    BY <1>0, <1>1, <1>2, <2>1, NoStatusIs DEF Typed, BridgeTyped, CountsTyped, bridge, others
  <2>3. TokensOK' /\ SessionsOK' /\ SharedOK' /\ PendingOK'
    BY <1>0, <1>1, <1>2, NoStatusIs, TypesOf
    DEF IInv, TokensOK, SessionsOK, SharedOK, Wanted, PendingOK, bridge, others
  <2>4. SequencesOK' /\ ReadsOK' /\ ClearHolds'
    BY <1>1, <2>1 DEF IInv, SequencesOK, ReadsOK, ClearHolds, Connected, bridge, others
  <2> QED  BY <2>2, <2>3, <2>4 DEF IInv
<1>3. CASE /\ status' = [status EXCEPT !.at = "answered", !.seq = inst.seq,
                           !.got = IF status.token # inst.token THEN "denied" ELSE inst.ack]
           /\ UNCHANGED faults
  <2>1. PICK g : g = IF status.token # inst.token THEN "denied" ELSE inst.ack
    OBVIOUS
  <2>2. g \in Contents \cup {"late", "denied"}
    BY <1>0, <2>1 DEF Instance
  <2>3. /\ status' \in Status /\ status'.at = "answered" /\ status'.token = status.token
        /\ status'.seq = inst.seq /\ status'.got = g
    BY <1>0, <1>3, <2>1, <2>2 DEF Status, Instance
  <2>4. Typed'
    BY <1>0, <1>1, <1>3, <2>3 DEF Typed, BridgeTyped, CountsTyped, bridge, others
  <2>5. TokensOK' /\ SessionsOK' /\ SharedOK' /\ PendingOK'
    BY <1>0, <1>1, <1>3, <2>3
    DEF IInv, TokensOK, SessionsOK, SharedOK, Wanted, PendingOK, bridge, others
  <2>6. SequencesOK'
    BY <1>1, <1>3, <2>1, <2>3 DEF IInv, SequencesOK, bridge, others
  <2>7. ReadsOK'
    BY <1>1, <1>3, <2>1, <2>3
    DEF IInv, ReadsOK, SequencesOK, ConfirmationIsCurrent, bridge, others
  <2>8. ClearHolds'
    BY <1>1 DEF IInv, ClearHolds, Connected, bridge, others
  <2> QED  BY <2>4, <2>5, <2>6, <2>7, <2>8 DEF IInv
<1> QED  BY <1>1, <1>2, <1>3

\* What is shown was read before, and the state is read again: the sequence tells.
LEMMA FinishStatusKeeps ==
  ASSUME IInv, FinishStatus
  PROVE  IInv'
<1>0. Typed /\ client \in Client /\ status \in Status /\ status.at = "answered"
  BY TypesOf DEF IInv, FinishStatus
<1>1. /\ UNCHANGED <<client, op, due, alarm, bridge, dead, agent, wanted, counts>>
      /\ \/ /\ status' = [status EXCEPT !.at = "save", !.saves = WithoutCredentials(client, TRUE, TRUE)]
            /\ UNCHANGED told
         \/ status' = NoStatus /\ UNCHANGED told
         \/ /\ status' = NoStatus
            /\ told' = [read |-> status.got, shared |-> client.snap.shared]
            /\ status.got \notin {"denied", None} /\ client.token = status.token
            /\ client.snap.shared # None /\ client.seq = status.seq
  BY DEF FinishStatus
<1>2. /\ status' \in Status /\ status'.token \in {status.token, 0} /\ status'.at \in {"idle", "save"}
      /\ status'.at = "save" => Gone(status'.saves) /\ status'.saves.session <= client.session
      /\ (status'.seq = status.seq /\ status'.got = status.got) \/ status'.token = 0
  <2>1. CASE status' = [status EXCEPT !.at = "save", !.saves = WithoutCredentials(client, TRUE, TRUE)]
    <3>1. PICK c : c = WithoutCredentials(client, TRUE, TRUE)
      OBVIOUS
    <3>2. Gone(c) /\ c.session = client.session
      BY <1>0, <3>1, WithoutIs
    <3>3. c \in Client /\ c.session <= client.session
      BY <1>0, <3>2 DEF Gone, Client
    <3> QED  BY <1>0, <2>1, <3>1, <3>2, <3>3 DEF Status
  <2>2. CASE status' = NoStatus
    BY <2>2, NoStatusIs
  <2> QED  BY <1>1, <2>1, <2>2
<1>3. Typed'
  BY <1>0, <1>1, <1>2 DEF Typed, BridgeTyped, CountsTyped, bridge, counts
<1>4. TokensOK' /\ SharedOK'
  BY <1>0, <1>1, <1>2, TypesOf DEF IInv, TokensOK, SharedOK, Wanted, bridge, counts
<1>5. SessionsOK'
  BY <1>1, <1>2 DEF IInv, SessionsOK
<1>6. PendingOK'
  BY <1>1, <1>2 DEF IInv, PendingOK, bridge
<1>7. SequencesOK' /\ ClearHolds'
  BY <1>0, <1>1, <1>2 DEF IInv, SequencesOK, ClearHolds, Connected, bridge, counts
<1>8. ReadsOK'
  <2>1. faults = 0 => told'.read \in {told'.shared, "late"}
    <3>1. CASE UNCHANGED told
      BY <3>1 DEF IInv, ReadsOK, ConfirmationIsCurrent
    <3>2. CASE /\ told' = [read |-> status.got, shared |-> client.snap.shared]
               /\ status.got \notin {"denied", None} /\ client.token = status.token
               /\ client.snap.shared # None /\ client.seq = status.seq
      <4>1. client.token # 0
        BY <1>0, <3>2 DEF IInv, SessionsOK
      <4> QED  BY <1>0, <3>2, <4>1 DEF IInv, ReadsOK
    <3> QED  BY <1>1, <3>1, <3>2
  <2> QED  BY <1>1, <1>2, <2>1 DEF IInv, ReadsOK, ConfirmationIsCurrent, bridge, counts
<1> QED  BY <1>3, <1>4, <1>5, <1>6, <1>7, <1>8 DEF IInv

\* The agent reads what the bridge holds.
LEMMA ReadCaptureKeeps ==
  ASSUME IInv, ReadCapture
  PROVE  IInv'
<1>0. Typed /\ inst \in Instance /\ inst.of # None /\ inst.token \in Nat
  BY TypesOf DEF IInv, ReadCapture
<1>1. UNCHANGED <<extension, bridge, dead, wanted, told, counts>>
  BY DEF ReadCapture
<1>2. /\ agent' \in Read /\ agent'.of = inst.of /\ agent'.seq = inst.seq /\ agent'.token = inst.token
  BY <1>0 DEF ReadCapture, Read, Instance
<1>3. Typed'
  BY <1>0, <1>1, <1>2 DEF Typed, BridgeTyped, CountsTyped, extension, bridge, counts
<1>4. TokensOK' /\ SessionsOK' /\ SharedOK' /\ ClearHolds'
  BY <1>1, <1>2 DEF IInv, TokensOK, SessionsOK, SharedOK, Wanted, ClearHolds, Connected,
                    extension, bridge, counts
<1>5. PendingOK'
  BY <1>0, <1>1, <1>2 DEF IInv, PendingOK, extension, bridge
<1>6. SequencesOK' /\ ReadsOK'
  BY <1>1, <1>2 DEF IInv, SequencesOK, ReadsOK, ConfirmationIsCurrent, extension, bridge, counts
<1> QED  BY <1>3, <1>4, <1>5, <1>6 DEF IInv

\* It confirms what it read: of the instance it read it from, or late.
LEMMA AcknowledgeCaptureReadKeeps ==
  ASSUME IInv, AcknowledgeCaptureRead
  PROVE  IInv'
<1>0. Typed /\ inst \in Instance /\ agent \in Read /\ agent.of # None
  BY TypesOf DEF IInv, AcknowledgeCaptureRead
<1>1. UNCHANGED <<extension, reqs, trusts, dead, wanted, told, counts>>
  BY DEF AcknowledgeCaptureRead
<1>2. agent' \in Read /\ agent'.of = None /\ agent'.token = 0 /\ agent'.seq = 0
  BY DEF AcknowledgeCaptureRead, NoRead, Read, Contents
<1>3. \/ inst' = inst
      \/ /\ inst.of # None /\ inst.seq = agent.seq
         /\ inst' = [inst EXCEPT !.ack = IF agent.token = inst.token THEN agent.of ELSE "late"]
  BY DEF AcknowledgeCaptureRead
<1>4. /\ inst' \in Instance /\ inst'.token = inst.token /\ inst'.seq = inst.seq
      /\ inst'.of = inst.of
      /\ \/ inst'.ack = inst.ack
         \/ inst'.ack = "late"
         \/ /\ inst'.ack = agent.of /\ inst.of # None /\ inst.seq = agent.seq
            /\ agent.token = inst.token
  <2>1. PICK a : a = IF agent.token = inst.token THEN agent.of ELSE "late"
    OBVIOUS
  <2>2. a \in Contents \cup {"late"}
    BY <1>0, <2>1 DEF Read
  <2>3. CASE inst' = [inst EXCEPT !.ack = a] /\ inst.of # None /\ inst.seq = agent.seq
    <3>1. /\ inst' \in Instance /\ inst'.token = inst.token /\ inst'.seq = inst.seq
          /\ inst'.of = inst.of /\ inst'.ack = a
      BY <1>0, <2>2, <2>3 DEF Instance
    <3> QED  BY <2>1, <2>3, <3>1
  <2> QED  BY <1>0, <1>3, <2>1, <2>3
<1>5. Typed'
  BY <1>0, <1>1, <1>2, <1>4 DEF Typed, BridgeTyped, CountsTyped, extension, counts
<1>6. TokensOK' /\ SessionsOK' /\ SharedOK' /\ ClearHolds'
  BY <1>0, <1>1, <1>2, <1>4, TypesOf
  DEF IInv, TokensOK, SessionsOK, SharedOK, Wanted, ClearHolds, Connected, extension, counts
<1>7. PendingOK'
  BY <1>1, <1>2, <1>4 DEF IInv, PendingOK, extension
<1>8. SequencesOK'
  BY <1>0, <1>1, <1>2, <1>4, TypesOf DEF IInv, SequencesOK, extension, counts
<1>9. ReadsOK'
  BY <1>0, <1>1, <1>2, <1>4 DEF IInv, ReadsOK, ConfirmationIsCurrent, extension, counts
<1> QED  BY <1>5, <1>6, <1>7, <1>8, <1>9 DEF IInv

-----------------------------------------------------------------------------
(* The steps that withdraw, share, and take a token.                       *)

\* The bridge drops the capture; the tombstone goes when the client hears of it.
LEMMA DeleteKeeps ==
  ASSUME IInv, Delete
  PROVE  IInv'
<1>0. /\ Typed /\ client \in Client /\ op \in Operation /\ inst \in Instance
      /\ due \in BOOLEAN /\ faults \in 0 .. MaxConnFaults
  BY TypesOf DEF IInv, Typed, CountsTyped
<1>1. /\ UNCHANGED <<status, alarm, others, reqs, trusts, issued>>
      /\ inst' = inst \/ inst' = IF Authorized THEN [inst EXCEPT !.of = None, !.seq = 0, !.ack = None] ELSE inst
      /\ \/ /\ client' = client /\ due' = due
            /\ inst' = inst \/ Fault \/ (Authorized /\ client.token # op.token)
         \/ Save(Denied(client)) /\ inst' = inst
         \/ /\ client.token = op.token /\ Authorized /\ Save(Cleared(client))
            /\ inst' = [inst EXCEPT !.of = None, !.seq = 0, !.ack = None]
      /\ UNCHANGED faults \/ Fault
  BY DEF Delete, Exchange, Clears, bridge
<1>2. /\ client' \in Client /\ client'.session = client.session
      /\ \/ client' = client /\ (inst' = inst \/ Fault \/ inst.token # client.token)
         \/ client'.token = 0 /\ client'.pending = 0 /\ client'.snap = Nothing
         \/ /\ client' = Cleared(client) /\ client.token = inst.token
            /\ inst' = [inst EXCEPT !.of = None, !.seq = 0, !.ack = None]
  <2>1. CASE client' = Denied(client) /\ inst' = inst
    BY <1>0, <2>1, DeniedIs DEF Gone
  <2>3. CASE client' = client /\ (inst' = inst \/ Fault \/ (Authorized /\ client.token # op.token))
    BY <1>0, <2>3 DEF Authorized
  <2>2. CASE /\ client' = Cleared(client) /\ client.token = op.token /\ Authorized
             /\ inst' = [inst EXCEPT !.of = None, !.seq = 0, !.ack = None]
    <3>1. Cleared(client) \in Client /\ Cleared(client).session = client.session
      BY <1>0, ClearedIs
    <3> QED  BY <2>2, <3>1 DEF Authorized
  <2> QED  BY <1>0, <1>1, <2>1, <2>2, <2>3 DEF Save
<1>3. /\ inst' \in Instance /\ inst'.token = inst.token
      /\ \/ inst' = inst
         \/ inst'.of = None /\ inst'.seq = 0 /\ inst'.ack = None
  <2>1. PICK e : e = [inst EXCEPT !.of = None, !.seq = 0, !.ack = None]
    OBVIOUS
  <2>2. e \in Instance /\ e.token = inst.token /\ e.of = None /\ e.seq = 0 /\ e.ack = None
    BY <1>0, <2>1 DEF Instance, Contents
  <2>3. inst' = inst \/ inst' = e
    BY <1>1, <2>1
  <2> QED  BY <1>0, <2>2, <2>3
<1>4. /\ op' \in Operation /\ op'.at \in {"idle", "read"} /\ op'.token \in {op.token, 0}
  BY <1>0, NoOperationIs DEF Delete, Operation
<1>5. due' \in BOOLEAN
  BY <1>0, <1>1 DEF Save
<1>6. faults' \in 0 .. MaxConnFaults /\ (faults' = 0 => faults = 0)
  BY <1>0, <1>1 DEF Fault
<1>7. Typed'
  BY <1>0, <1>1, <1>2, <1>3, <1>4, <1>5, <1>6 DEF Typed, BridgeTyped, CountsTyped, others
<1>8. /\ client' \in Client /\ client'.token \in {client.token, 0} /\ client'.pending \in {client.pending, 0}
      /\ client'.snap \in {client.snap, Nothing}
  BY <1>0, <1>2, ClearedIs
<1>9. TokensOK'
  <2>1. IssuedOld
    BY <1>0, <1>1, <1>3 DEF IssuedOld
  <2> QED  BY <1>0, <1>1, <1>4, <1>7, <1>8, <2>1, TokensKept DEF IInv, others
<1>10. SessionsOK' /\ SharedOK'
  BY <1>1, <1>2, <1>4, <1>8, NothingIs DEF IInv, SessionsOK, SharedOK, Wanted, others
<1>11. PendingOK'
  <2>1. client'.pending # 0 => client'.token = 0
    BY <1>0, <1>2, <1>8, ClearedIs DEF IInv, PendingOK
  <2> QED  BY <1>1, <1>3, <1>4, <1>8, <2>1, ConnectionBounds DEF IInv, PendingOK, others
<1>12. SequencesOK' /\ ReadsOK' /\ ClearHolds'
  <2>1. CASE client' = client /\ (inst' = inst \/ Fault \/ inst.token # client.token)
    <3>1. SequencesOK'
      <4>1. Fault => faults' # 0
        BY <1>0 DEF Fault
      <4> QED  BY <1>0, <1>1, <1>3, <1>6, <2>1, <4>1, TypesOf DEF IInv, SequencesOK, others
    <3>2. ReadsOK'
      BY <1>0, <1>1, <1>3, <1>6, <2>1 DEF IInv, ReadsOK, ConfirmationIsCurrent, others
    <3>3. ClearHolds'
      BY <1>1, <1>3, <2>1 DEF IInv, ClearHolds, Connected, others
    <3> QED  BY <3>1, <3>2, <3>3
  <2>2. CASE client'.token = 0
    BY <1>0, <1>1, <1>3, <1>6, <2>2
    DEF IInv, SequencesOK, ReadsOK, ClearHolds, Connected, ConfirmationIsCurrent, others
  <2>3. CASE /\ client' = Cleared(client) /\ client.token = inst.token
             /\ inst' = [inst EXCEPT !.of = None, !.seq = 0, !.ack = None]
    <3>1. /\ client'.token = client.token /\ client'.seq = client.seq
          /\ client'.snap.shared = None
      BY <1>0, <2>3, ClearedIs, NothingIs
    <3>2. inst'.of = None /\ inst'.seq = 0 /\ inst'.ack = None
      BY <1>0, <2>3 DEF Instance
    <3> QED  BY <1>0, <1>1, <1>3, <1>6, <3>1, <3>2, TypesOf
             DEF IInv, SequencesOK, ReadsOK, ClearHolds, Connected, ConfirmationIsCurrent, others
  <2> QED  BY <1>2, <2>1, <2>2, <2>3
<1> QED  BY <1>7, <1>9, <1>10, <1>11, <1>12 DEF IInv

\* What a snapshot on its way does to the bridge.
Puts == [inst EXCEPT !.of = op.of, !.seq = client.seq + 1, !.ack = None,
                     !.whole = client.cap = "whole"]

\* The instance with the snapshot that was sent.
LEMMA PutsIs ==
  ASSUME Typed
  PROVE  /\ Puts \in Instance /\ Puts.token = inst.token /\ Puts.of = op.of
         /\ Puts.seq = client.seq + 1 /\ Puts.ack = None
<1>1. /\ inst \in Instance /\ op.of \in Contents /\ client.seq + 1 \in Nat
  BY TypesOf
<1>2. PICK w \in BOOLEAN : w = (client.cap = "whole")
  OBVIOUS
<1>3. PICK x \in Contents : x = op.of
  BY <1>1
<1>4. PICK n \in Nat : n = client.seq + 1
  BY <1>1
<1>5. PICK e : e = [inst EXCEPT !.of = x, !.seq = n, !.ack = None, !.whole = w]
  OBVIOUS
<1>6. e \in Instance /\ e.token = inst.token /\ e.of = x /\ e.seq = n /\ e.ack = None
  BY <1>1, <1>5 DEF Instance, Contents
<1>7. Puts = e
  BY <1>2, <1>3, <1>4, <1>5 DEF Puts
<1> QED  BY <1>3, <1>4, <1>6, <1>7

\* The bridge has the snapshot, and the client knows or a fault is counted.
LEMMA PutSharesKeeps ==
  ASSUME IInv, UNCHANGED <<status, alarm, others, reqs, trusts, issued>>,
         op.at = "put", Authorized, client.token = op.token, ~client.clear,
         inst' = Puts, due' \in BOOLEAN,
         op' \in Operation, op'.at \in {"idle", "read", "beat"}, op'.token \in {op.token, 0},
         \/ client' = Published(client) /\ UNCHANGED faults
         \/ client' = client /\ Fault
  PROVE  IInv'
<1>0. /\ Typed /\ client \in Client /\ op \in Operation /\ faults \in 0 .. MaxConnFaults
      /\ client.token # 0 /\ client.token = inst.token /\ client.pending = 0
      /\ op.of \in Wanted \ {None} /\ client.seq \in Nat /\ client.token \in Nat
  BY TypesOf DEF IInv, Typed, CountsTyped, Authorized, PendingOK, SharedOK
<1>1. /\ inst' \in Instance /\ inst'.token = inst.token /\ inst'.of = op.of
      /\ inst'.seq = client.seq + 1 /\ inst'.ack = None
  BY <1>0, PutsIs
<1>2. /\ client' \in Client /\ client'.token = client.token /\ client'.pending = 0
      /\ client'.session = client.session /\ client'.clear = client.clear
      /\ client'.snap.latest = client.snap.latest /\ client'.snap.panel = client.snap.panel
      /\ client'.snap.own = client.snap.own
      /\ \/ client' = client /\ Fault
         \/ client'.seq = client.seq + 1 /\ client'.snap.shared = op.of /\ UNCHANGED faults
  <2>1. PICK d : d = Published(client)
    OBVIOUS
  <2>2. /\ d \in Client /\ d.seq = client.seq + 1 /\ d.snap.shared = op.of
        /\ d.snap.latest = client.snap.latest /\ d.snap.panel = client.snap.panel
        /\ d.snap.own = client.snap.own /\ d.clear = client.clear
        /\ d.token = client.token /\ d.pending = client.pending /\ d.session = client.session
    BY <1>0, <2>1, PublishedIs
  <2> QED  BY <1>0, <2>1, <2>2
<1>3. faults' \in 0 .. MaxConnFaults /\ (faults' = 0 => faults = 0 /\ UNCHANGED faults /\ ~Fault)
  BY <1>0, <1>2 DEF Fault
<1>4. Typed'
  BY <1>1, <1>2, <1>3 DEF IInv, Typed, BridgeTyped, CountsTyped, others
<1>5. TokensOK'
  <2>1. IssuedOld
    BY <1>0, <1>1 DEF IssuedOld
  <2> QED  BY <1>0, <1>2, <1>4, <2>1, TokensKept DEF IInv, others
<1>6. SessionsOK' /\ SharedOK'
  BY <1>2 DEF IInv, SessionsOK, SharedOK, Wanted, others
<1>7. PendingOK'
  BY <1>0, <1>1, <1>2, ConnectionBounds DEF IInv, PendingOK
<1>8. SequencesOK'
  <2>1. SUFFICES ASSUME faults' = 0  PROVE SequencesOK'
    BY DEF SequencesOK
  <2>2. client'.seq = client.seq + 1 /\ client'.snap.shared = op.of /\ faults = 0
    BY <1>2, <1>3, <2>1
  <2>3. /\ client.token = agent.token => agent.seq <= client.seq
        /\ client.token = status.token /\ status.got # "denied" => status.seq <= client.seq
        /\ agent.seq \in Nat /\ status.seq \in Nat
    BY <1>0, <2>2, TypesOf DEF IInv, SequencesOK
  <2> QED  BY <1>0, <1>1, <1>2, <2>2, <2>3 DEF SequencesOK, others
<1>9. ReadsOK'
  <2>1. SUFFICES ASSUME faults' = 0  PROVE ReadsOK'
    BY DEF ReadsOK
  <2>2. client'.seq = client.seq + 1 /\ client'.snap.shared = op.of /\ faults = 0
    BY <1>2, <1>3, <2>1
  <2>3. /\ client.token = agent.token => agent.seq <= client.seq
        /\ client.token = status.token /\ status.got # "denied" => status.seq <= client.seq
        /\ agent.seq \in Nat /\ status.seq \in Nat
    BY <1>0, <2>2, TypesOf DEF IInv, SequencesOK
  <2> QED  BY <1>0, <1>1, <1>2, <2>2, <2>3 DEF IInv, ReadsOK, ConfirmationIsCurrent, others
<1>10. ClearHolds'
  BY <1>0, <1>1 DEF ClearHolds, Wanted, others
<1> QED  BY <1>4, <1>5, <1>6, <1>7, <1>8, <1>9, <1>10 DEF IInv

\* The bridge has nothing new.
LEMMA PutQuietKeeps ==
  ASSUME IInv, UNCHANGED <<status, alarm, others, bridge, issued>>,
         due' \in BOOLEAN,
         op' \in Operation, op'.at \in {"idle", "read", "beat"}, op'.token \in {op.token, 0},
         client' = client \/ client' = Denied(client),
         UNCHANGED faults \/ Fault
  PROVE  IInv'
<1>c. /\ client' \in Client /\ client'.session = client.session
      /\ client' = client \/ (Gone(client') /\ client'.token = 0 /\ client'.pending = 0)
      /\ client'.snap.latest \in {client.snap.latest, None}
      /\ client'.snap.panel \in {client.snap.panel, None}
      /\ client'.snap.own \in {client.snap.own, None}
  BY DeniedIs, GoneIs DEF IInv, Typed
<1>f. /\ faults' \in 0 .. MaxConnFaults /\ (faults' = 0 => faults = 0)
  BY DEF IInv, Typed, CountsTyped, Fault
<1>1. Typed'
  BY <1>c, <1>f DEF IInv, Typed, BridgeTyped, CountsTyped, bridge, others
<1>2. SessionsOK' /\ SharedOK'
  BY <1>c DEF IInv, SessionsOK, SharedOK, Wanted, others
<1>3. TokensOK'
  <2>1. IssuedOld
    BY DEF IssuedOld, bridge
  <2>2. client'.token \in {client.token, 0}
    BY <1>c
  <2> QED  BY <1>1, <2>1, <2>2, TokensKept DEF IInv, others
<1>4. ClientOld /\ InstOld /\ ReadersOld /\ FaultsKept
  BY <1>c, <1>f DEF ClientOld, InstOld, ReadersOld, FaultsKept, bridge, others
<1>5. PendingOld
  BY <1>c DEF IInv, PendingOK, PendingOld, bridge
<1> QED  BY <1>1, <1>2, <1>3, <1>4, <1>5, Kept

\* A snapshot is sent, or was overtaken by a clear or another connection.
LEMMA PutKeeps ==
  ASSUME IInv, Put
  PROVE  IInv'
<1>0. op \in Operation /\ due \in BOOLEAN
  BY DEF IInv, Typed
<1>1. /\ UNCHANGED <<status, alarm, others>> /\ op.at = "put"
      /\ op' = NoOperation \/ \E at \in {"read", "beat"} : op' = [op EXCEPT !.at = at]
  BY DEF Put
<1>2. op' \in Operation /\ op'.at \in {"idle", "read", "beat"} /\ op'.token \in {op.token, 0}
  BY <1>0, <1>1, NoOperationIs DEF Operation
<1>3. \/ /\ client' = client \/ client' = Denied(client)
         /\ due' = due \/ due' = (due \/ client' # client)
         /\ UNCHANGED <<bridge, issued>> /\ (UNCHANGED faults \/ Fault)
      \/ /\ ~Withdrawn /\ Authorized /\ inst' = Puts /\ UNCHANGED <<reqs, trusts, issued>>
         /\ due' = due \/ due' = (due \/ client' # client)
         /\ \/ client' = Published(client) /\ UNCHANGED faults
            \/ client' = client /\ Fault
  BY DEF Put, Exchange, Publishes, Puts, Accepts, Save, bridge, counts
<1>4. due' \in BOOLEAN
  BY <1>0, <1>3
<1>5. CASE /\ client' = client \/ client' = Denied(client)
           /\ UNCHANGED <<bridge, issued>> /\ (UNCHANGED faults \/ Fault)
  BY <1>1, <1>2, <1>4, <1>5, PutQuietKeeps
<1>6. CASE /\ ~Withdrawn /\ Authorized /\ inst' = Puts /\ UNCHANGED <<reqs, trusts, issued>>
           /\ \/ client' = Published(client) /\ UNCHANGED faults
              \/ client' = client /\ Fault
  BY <1>1, <1>2, <1>4, <1>6, PutSharesKeeps DEF Withdrawn
<1> QED  BY <1>3, <1>5, <1>6

\* The bridge notes that an approval was collected.
LEMMA CollectedIs ==
  ASSUME NEW b, Older(b), NEW r \in ConnRequests,
         NEW c, c = IF b.reqs[r].status = "approved" THEN [b EXCEPT !.reqs[r].delivered = TRUE] ELSE b
  PROVE  Older(c)
<1>1. CASE b.reqs[r].status # "approved"
  BY <1>1
<1>2. CASE b.reqs[r].status = "approved"
  <2>1. PICK R : R = [b.reqs EXCEPT ![r].delivered = TRUE]
    OBVIOUS
  <2>2. b \in Bridges /\ b.reqs \in [ConnRequests -> Request]
    BY DEF Older, Bridges
  <2>3. PICK q \in Request : q = b.reqs[r]
    BY <2>2
  <2>4. PICK p : p = [q EXCEPT !.delivered = TRUE]
    OBVIOUS
  <2>5. p \in Request /\ p.token = q.token /\ p.status = q.status
    BY <2>4 DEF Request
  <2>6. R = [b.reqs EXCEPT ![r] = p]
    BY <2>1, <2>3, <2>4
  <2>7. /\ R \in [ConnRequests -> Request]
        /\ \A o \in ConnRequests : R[o].token = b.reqs[o].token /\ R[o].status = b.reqs[o].status
    BY <2>2, <2>3, <2>5, <2>6
  <2>8. c = [b EXCEPT !.reqs = R]
    BY <1>2, <2>1
  <2>9. c = [inst |-> b.inst, reqs |-> R, trusts |-> b.trusts]
    BY <2>2, <2>8 DEF Bridges
  <2>10. c \in Bridges /\ c.inst = b.inst /\ c.reqs = R
    <3>1. PICK n \in Instance : n = b.inst
      BY <2>2 DEF Bridges
    <3>2. PICK T \in [1 .. MaxBrowserSessions -> Nat] : T = b.trusts
      BY <2>2 DEF Bridges
    <3>3. PICK Q \in [ConnRequests -> Request] : Q = R
      BY <2>7
    <3>4. c = [inst |-> n, reqs |-> Q, trusts |-> T]
      BY <2>9, <3>1, <3>2, <3>3
    <3>5. [inst |-> n, reqs |-> Q, trusts |-> T] \in Bridges
      BY ONLY <3>1 DEF Bridges
    <3>6. c.inst = n /\ c.reqs = Q
      BY <3>4
    <3> QED  BY <3>1, <3>3, <3>4, <3>5, <3>6
  <2> QED  BY <2>7, <2>10 DEF Older
<1> QED  BY <1>1, <1>2

\* The client takes the token, which nobody had before.
LEMMA TokenTakenKeeps ==
  ASSUME IInv, UNCHANGED <<status, alarm, others, issued, faults>>,
         BridgeTyped', InstOld, IssuedOld, due' \in BOOLEAN,
         op' \in Operation, op'.at = "refreshed", op'.token = op.token,
         NEW r \in ConnRequests, client.pending = r, reqs[r].status = "approved",
         NEW q \in Request, q.token = reqs[r].token, client' = WithToken(q)
  PROVE  IInv'
<1>0. /\ Typed /\ client \in Client /\ client.token = 0
      /\ q.token \in Nat /\ q.token \notin {0, agent.token, status.token}
      /\ q.token = inst.token => inst.of = None /\ inst.seq = 0
      /\ q.token <= issued /\ issued \in Nat
  BY TypesOf, ConnectionBounds DEF IInv, PendingOK, TokensOK, Request
<1>1. /\ client' \in Client /\ client'.seq = 0 /\ client'.snap.shared = None
      /\ client'.snap.latest = client.snap.latest /\ client'.snap.panel = client.snap.panel
      /\ client'.snap.own = client.snap.own /\ client'.clear = client.clear
      /\ client'.token = q.token /\ client'.pending = 0 /\ client'.session = client.session
  BY <1>0, WithTokenIs
<1>2. Typed'
  BY <1>0, <1>1 DEF Typed, CountsTyped, others
<1>3. q.token = inst'.token => inst'.of = None /\ inst'.seq = 0
  BY <1>0 DEF InstOld
<1>4. TokensOK'
  <2>1. /\ op.token <= issued /\ op.token \in Nat /\ status.token <= issued
        /\ agent.token <= issued /\ inst.token <= issued
        /\ \A o \in ConnRequests : reqs[o].token <= issued
    BY DEF IInv, TokensOK, Typed, Operation
  <2> QED  BY <1>0, <1>1, <2>1 DEF TokensOK, IssuedOld, others
<1>5. SessionsOK' /\ SharedOK'
  BY <1>1 DEF IInv, SessionsOK, SharedOK, Wanted, others
<1>6. PendingOK'
  BY <1>1, ConnectionBounds DEF IInv, PendingOK, InstOld
<1>7. SequencesOK'
  BY <1>0, <1>1, <1>3 DEF SequencesOK, others
<1>8. ReadsOK'
  BY <1>0, <1>1 DEF IInv, ReadsOK, InstOld, ConfirmationIsCurrent, others
<1>9. ClearHolds'
  BY <1>1, <1>3 DEF ClearHolds
<1> QED  BY <1>2, <1>4, <1>5, <1>6, <1>7, <1>8, <1>9 DEF IInv

\* It takes none: the request is not approved, or not its own, or is gone.
LEMMA PollQuietKeeps ==
  ASSUME IInv, UNCHANGED <<status, others, issued>>,
         BridgeTyped', InstOld, IssuedOld, due' \in BOOLEAN, alarm' \in BOOLEAN,
         \A o \in ConnRequests :
           reqs'[o].status = "approved" => reqs[o].status = "approved" /\ reqs'[o].token = reqs[o].token,
         op' \in Operation, op'.at \in {"idle", "refreshed"}, op'.token \in {op.token, 0},
         client' = client \/ (Gone(client') /\ client'.session = client.session),
         UNCHANGED faults \/ Fault
  PROVE  IInv'
<1>c. /\ client' \in Client /\ client'.session = client.session
      /\ client' = client \/ (client'.token = 0 /\ client'.pending = 0)
      /\ client'.snap.latest \in {client.snap.latest, None}
      /\ client'.snap.panel \in {client.snap.panel, None}
      /\ client'.snap.own \in {client.snap.own, None}
  BY GoneIs DEF IInv, Typed
<1>f. /\ faults' \in 0 .. MaxConnFaults /\ (faults' = 0 => faults = 0)
  BY DEF IInv, Typed, CountsTyped, Fault
<1>1. Typed'
  BY <1>c, <1>f DEF IInv, Typed, CountsTyped, others
<1>2. SessionsOK' /\ SharedOK'
  BY <1>c DEF IInv, SessionsOK, SharedOK, Wanted, others
<1>3. TokensOK'
  <2>1. client'.token \in {client.token, 0}
    BY <1>c
  <2> QED  BY <1>1, <2>1, TokensKept DEF IInv, others
<1>4. ClientOld /\ ReadersOld /\ FaultsKept
  BY <1>c, <1>f DEF ClientOld, ReadersOld, FaultsKept, others
<1>5. PendingOld
  BY <1>c DEF IInv, PendingOK, PendingOld
<1> QED  BY <1>1, <1>2, <1>3, <1>4, <1>5, Kept

\* The poll of a request: the approval is collected, pending or gone.
LEMMA PollRequestKeeps ==
  ASSUME IInv, PollRequest
  PROVE  IInv'
<1>0. /\ Typed /\ BridgeTyped /\ client \in Client /\ op \in Operation /\ op.req \in ConnRequests
      /\ due \in BOOLEAN /\ alarm \in BOOLEAN
  BY DEF IInv, Typed, SessionsOK, PollRequest, Operation
<1>1. PICK r \in ConnRequests : r = op.req
  BY <1>0
<1>2. PICK b : b = Pruned({})
  OBVIOUS
<1>3. Older(b) /\ b.reqs \in [ConnRequests -> Request]
  BY <1>0, <1>2, PrunedIs DEF Older, Bridges
<1>4. PICK q \in Request : q = b.reqs[r]
  BY <1>3
<1>5. PICK c : c = IF b.reqs[r].status = "approved" THEN [b EXCEPT !.reqs[r].delivered = TRUE] ELSE b
  OBVIOUS
<1>6. Older(c)
  BY <1>3, <1>5, CollectedIs
<1>7. /\ UNCHANGED <<status, others>>
      /\ \/ /\ Holds(c) /\ UNCHANGED <<issued, faults>>
            /\ \/ /\ Save(WithoutCredentials(client, TRUE, TRUE)) /\ UNCHANGED alarm
                  /\ op' = [op EXCEPT !.at = "refreshed"]
               \/ op' = [op EXCEPT !.at = "refreshed"] /\ UNCHANGED <<client, due, alarm>>
               \/ /\ q.status = "approved" /\ client.pending = r
                  /\ Save(WithToken(q)) /\ UNCHANGED alarm
                  /\ op' = [op EXCEPT !.at = "refreshed"]
               \/ Throws /\ UNCHANGED <<client, due>>
         \/ /\ Holds(c) /\ UNCHANGED issued /\ Fault
            /\ op' = [op EXCEPT !.at = "refreshed"] /\ UNCHANGED <<client, due, alarm>>
         \/ /\ UNCHANGED <<bridge, issued>> /\ Fault
            /\ op' = [op EXCEPT !.at = "refreshed"] /\ UNCHANGED <<client, due, alarm>>
  BY <1>1, <1>2, <1>4, <1>5 DEF PollRequest, Exchange
<1>8. UNCHANGED issued /\ (Holds(c) \/ UNCHANGED bridge)
  BY <1>7
<1>9. /\ BridgeTyped' /\ InstOld /\ IssuedOld
      /\ \A o \in ConnRequests :
           reqs'[o].status = "approved" => reqs[o].status = "approved" /\ reqs'[o].token = reqs[o].token
  <2>1. CASE Holds(c)
    BY <1>0, <1>6, <1>8, <2>1, OlderIs
  <2>2. CASE UNCHANGED bridge
    BY <1>0, <1>8, <2>2 DEF bridge, BridgeTyped, InstOld, IssuedOld
  <2> QED  BY <1>8, <2>1, <2>2
<1>10. op' \in Operation /\ op'.at \in {"idle", "refreshed"} /\ op'.token \in {op.token, 0}
  <2>1. op' = [op EXCEPT !.at = "refreshed"] \/ op' = NoOperation
    BY <1>7 DEF Throws, Done
  <2> QED  BY <1>0, <2>1, NoOperationIs DEF Operation
<1>11. due' \in BOOLEAN
  BY <1>0, <1>7 DEF Save
<1>12. alarm' \in BOOLEAN
  BY <1>0, <1>7 DEF Throws
<1>13. CASE /\ q.status = "approved" /\ client.pending = r /\ client' = WithToken(q)
            /\ UNCHANGED <<alarm, faults>> /\ op' = [op EXCEPT !.at = "refreshed"]
  <2>1. reqs[r].status = "approved" /\ q.token = reqs[r].token
    BY <1>3, <1>4, <1>13 DEF Older
  <2>2. op'.at = "refreshed" /\ op'.token = op.token
    BY <1>0, <1>13 DEF Operation
  <2> QED  BY <1>7, <1>8, <1>9, <1>10, <1>11, <1>13, <2>1, <2>2, TokenTakenKeeps
<1>14. CASE /\ client' = client \/ client' = WithoutCredentials(client, TRUE, TRUE)
            /\ UNCHANGED faults \/ Fault
  <2>1. client' = client \/ (Gone(client') /\ client'.session = client.session)
    BY <1>0, <1>14, WithoutIs
  <2> QED  BY <1>7, <1>8, <1>9, <1>10, <1>11, <1>12, <1>14, <2>1, PollQuietKeeps
<1> QED  BY <1>7, <1>13, <1>14 DEF Save

-----------------------------------------------------------------------------
(* The theorems.                                                           *)

\* The invariant holds at the start, and every step keeps it.
LEMMA InitKeeps == ConnectionInit => IInv
<1> SUFFICES ASSUME ConnectionInit  PROVE IInv
  OBVIOUS
<1>1. Typed
  <2>1. client \in Client /\ op \in Operation /\ status \in Status
    BY FreshIs, NoOperationIs, NoStatusIs DEF ConnectionInit
  <2>2. BridgeTyped
    BY NoneIs DEF ConnectionInit, BridgeTyped
  <2>3. agent \in Read
    BY DEF ConnectionInit, NoRead, Read, Contents
  <2>4. dead = {} /\ wanted = {} /\ due = FALSE /\ alarm = FALSE
    BY DEF ConnectionInit
  <2>5. CountsTyped
    BY ConnectionBounds DEF ConnectionInit, CountsTyped
  <2> QED  BY <2>1, <2>2, <2>3, <2>4, <2>5 DEF Typed
<1>2. /\ client.token = 0 /\ client.pending = 0 /\ client.snap = Nothing
      /\ op.at = "idle" /\ op.token = 0 /\ status.at = "idle" /\ status.token = 0
      /\ agent.token = 0 /\ agent.of = None
      /\ inst.token = 0 /\ inst.of = None /\ inst.seq = 0 /\ inst.ack = None
      /\ \A r \in ConnRequests : reqs[r].token = 0
      /\ told.read = None /\ told.shared = None /\ issued = 0
  BY FreshIs, NoOperationIs, NoStatusIs, NoneIs DEF ConnectionInit, NoRead
<1>3. TokensOK /\ SessionsOK /\ SharedOK
  BY <1>2, NothingIs DEF TokensOK, SessionsOK, SharedOK, Wanted
<1>4. PendingOK /\ SequencesOK /\ ReadsOK /\ ClearHolds
  BY <1>2, ConnectionBounds
  DEF PendingOK, SequencesOK, ReadsOK, ClearHolds, Connected, ConfirmationIsCurrent
<1> QED  BY <1>1, <1>3, <1>4 DEF IInv

LEMMA NextKeeps == IInv /\ [ConnectionNext]_connectionVars => IInv'
<1> SUFFICES ASSUME IInv, [ConnectionNext]_connectionVars  PROVE IInv'
  OBVIOUS
<1>1. ASSUME NEW r \in ConnRequests, Ask(r)  PROVE IInv'
  BY <1>1, AskKeeps
<1>2. CASE PollRequest
  BY <1>2, PollRequestKeeps
<1>3. CASE Refreshed
  BY <1>3, RefreshedKeeps
<1>4. CASE ReadConfirmation
  BY <1>4, ReadConfirmationKeeps
<1>5. CASE Put
  BY <1>5, PutKeeps
<1>6. CASE Beat
  BY <1>6, BeatKeeps
<1>7. CASE Delete
  BY <1>7, DeleteKeeps
<1>8. CASE ProbeCapability
  BY <1>8, ProbeKeeps
<1>9. ASSUME NEW mode \in Modes, CreateConnectionRequest(mode)  PROVE IInv'
  BY <1>9, CreateKeeps
<1>10. CASE RefreshConnection
  BY <1>10, RefreshConnectionKeeps
<1>11. CASE HandleAlarm
  BY <1>11, HandleAlarmKeeps
<1>12. ASSUME NEW source \in {"panel", "session"}, Withdraw(source)  PROVE IInv'
  BY <1>12, WithdrawKeeps
<1>13. ASSUME NEW source \in {"panel", "session"}, NEW v \in Versions, Publish(source, v)  PROVE IInv'
  BY <1>13, PublishKeeps
<1>14. CASE ClearSharedCapture
  BY <1>14, ClearSharedCaptureKeeps
<1>15. CASE Disconnect
  BY <1>15, DisconnectKeeps
<1>16. CASE ReadStatus
  BY <1>16, ReadStatusKeeps
<1>17. CASE Acknowledgement
  BY <1>17, AcknowledgementKeeps
<1>18. CASE FinishStatus
  BY <1>18, FinishStatusKeeps
<1>19. CASE SaveStatus
  BY <1>19, SaveStatusKeeps
<1>20. CASE HandleStorageChanged
  BY <1>20, HandleStorageChangedKeeps
<1>21. CASE WorkerRestarts
  BY <1>21, WorkerRestartsKeeps
<1>22. ASSUME NEW r \in ConnRequests, ApproveConnectionRequest(r)  PROVE IInv'
  BY <1>22, ApproveKeeps
<1>23. ASSUME NEW r \in ConnRequests, RejectConnectionApproval(r)  PROVE IInv'
  BY <1>23, RejectKeeps
<1>24. ASSUME NEW r \in ConnRequests, RequestExpires(r)  PROVE IInv'
  BY <1>24, RequestExpiresKeeps
<1>25. CASE ReadCapture
  BY <1>25, ReadCaptureKeeps
<1>26. CASE AcknowledgeCaptureRead
  BY <1>26, AcknowledgeCaptureReadKeeps
<1>27. CASE BridgeRestarts
  BY <1>27, BridgeRestartsKeeps
<1>28. CASE UNCHANGED connectionVars
  <2>1. UNCHANGED <<client, op, status, due, alarm, inst, reqs, trusts, dead, agent, wanted, told,
                    issued, faults>>
    BY <1>28 DEF connectionVars, extension, bridge, others, counts
  <2>2. Typed' /\ TokensOK' /\ SessionsOK' /\ PendingOK' /\ SharedOK'
    BY <2>1 DEF IInv, Typed, BridgeTyped, CountsTyped, TokensOK, SessionsOK, PendingOK, SharedOK, Wanted
  <2>3. SequencesOK' /\ ReadsOK' /\ ClearHolds'
    BY <2>1 DEF IInv, SequencesOK, ReadsOK, ClearHolds, Connected, ConfirmationIsCurrent
  <2> QED  BY <2>2, <2>3 DEF IInv
<1> QED  BY <1>1, <1>2, <1>3, <1>4, <1>5, <1>6, <1>7, <1>8, <1>9, <1>10, <1>11, <1>12, <1>13, <1>14,
            <1>15, <1>16, <1>17, <1>18, <1>19, <1>20, <1>21, <1>22, <1>23, <1>24, <1>25, <1>26,
            <1>27, <1>28 DEF ConnectionNext, ConnectionWork

\* The types, and what relates the two sides of a connection: tokens are taken
\* once, a snapshot that is on its way is wanted, and the sequences of a connection
\* never run ahead of the client's (local-agent-bridge.ts:362, :427, :591).
THEOREM ConnectionInvariant == ConnectionSpec => []IInv
BY InitKeeps, NextKeeps, PTL DEF ConnectionSpec

\* Whatever requests and answers are lost and whoever restarts, a capture that was
\* cleared is not on the bridge when the clear is no longer owed (local-agent-bridge.ts:1162,
\* :616), and as long as every share was answered, "the agent read this" is said of the
\* snapshot that is shared (local-agent-bridge.ts:591).
THEOREM ConnectionSafe == ConnectionSpec => []ConnectionIsSafe
<1>1. IInv => ConnectionIsSafe
  <2>1. ReadsOK => ConfirmationIsCurrent
    BY DEF ReadsOK, ConfirmationIsCurrent
  <2> QED  BY <2>1 DEF IInv, ConnectionIsSafe
<1> QED  BY <1>1, ConnectionInvariant, PTL
=============================================================================
