------------------------------ MODULE DeviceHub ------------------------------
(***************************************************************************)
(* The connection of one enrolled device to the manager: the handler of    *)
(* every WebSocket and the hub (manager/device.go), the requests that HTTP *)
(* handlers send through it (manager/session.go), revocation               *)
(* (manager/http.go, manager/enrollment.go), and the agent on the device   *)
(* (manager/cmd/device/main.go), which serves requests in bounded workers  *)
(* and dials again when its connection ends.  The hub's mutex is let go    *)
(* across every database call and every read and write.                    *)
(*                                                                         *)
(* A connection is used once, a request is sent once.  Media streams, the  *)
(* acks of heartbeats, the content of requests and malformed messages are  *)
(* left out; whatever has a deadline may pass it at any moment.            *)
(***************************************************************************)
EXTENDS Integers, Sequences, FiniteSets

CONSTANTS
    Conns,    \* connections the agent dials, one after the other
    Reqs,     \* requests of the manager's HTTP API
    Slots,    \* requests per device, workers of the agent (8 in the code)
    None      \* no connection, no request

ASSUME HubAssumption ==
    /\ Slots \in Nat \ {0}
    /\ None \notin Conns \cup Reqs

VARIABLES
    revoke,   \* the revocation of the device: no, stored in its row, or done
    live,     \* live[id] of the hub: the registered connection
    phase,    \* the handler of each connection
    sock,     \* connections the manager has not closed
    ready,    \* registered connections with a broker and a recent heartbeat (broker, last)
    pending,  \* requests in liveDevice.pending, of each connection
    mail,     \* requests with a reply in their channel
    out,      \* each request
    via,      \* the connection each request is bound to
    up, down, \* messages of each connection, to the manager and to the agent
    agent,    \* the connection that the agent's connect serves
    busy,     \* requests that hold a worker of the agent
    replied   \* those of them that have been answered

row == <<revoke>>
hub == <<live, sock, ready>>
requests == <<pending, mail, out, via>>
device == <<agent, busy, replied>>
vars == <<revoke, live, phase, sock, ready, pending, mail, out, via, up, down, device>>

Message == [type : {"heartbeat", "response"}, req : Reqs \cup {None}]
Heartbeat == [type |-> "heartbeat", req |-> None]
Response(r) == [type |-> "response", req |-> r]

TypeOK ==
    /\ revoke \in {"no", "stored", "done"}
    /\ live \in Conns \cup {None}
    /\ phase \in [Conns -> {"none", "upgraded", "reading", "beating", "ending", "ended"}]
    /\ sock \in SUBSET Conns /\ ready \in SUBSET Conns
    /\ pending \in [Conns -> SUBSET Reqs]
    /\ mail \in SUBSET Reqs
    /\ out \in [Reqs -> {"idle", "sending", "waiting", "ok", "failed"}]
    /\ via \in [Reqs -> Conns \cup {None}]
    /\ up \in [Conns -> Seq(Message)]
    /\ down \in [Conns -> Seq(Reqs)]
    /\ agent \in Conns \cup {None}
    /\ busy \in SUBSET Reqs /\ Cardinality(busy) <= Slots
    /\ replied \in SUBSET busy

Init ==
    /\ revoke = "no" /\ live = None
    /\ phase = [d \in Conns |-> "none"]
    /\ sock = {} /\ ready = {}
    /\ pending = [d \in Conns |-> {}] /\ mail = {}
    /\ out = [r \in Reqs |-> "idle"]
    /\ via = [r \in Reqs |-> None]
    /\ up = [d \in Conns |-> <<>>] /\ down = [d \in Conns |-> <<>>]
    /\ agent = None /\ busy = {} /\ replied = {}

-----------------------------------------------------------------------------
(* The manager's handler of a connection *)

Goto(d, p) == phase' = [phase EXCEPT ![d] = p]

\* The agent dials; the row of its certificate is claimed and not revoked.
Connect(d) ==
    /\ agent = None /\ phase[d] = "none"
    /\ revoke = "no"
    /\ Goto(d, "upgraded")
    /\ sock' = sock \cup {d}
    /\ agent' = d
    /\ UNCHANGED <<row, live, ready, requests, up, down, busy, replied>>

\* Mutation of Register: the connection it replaces stays open.
RegisterQuietly(d) ==
    /\ phase[d] = "upgraded"
    /\ Goto(d, "reading")
    /\ live' = d
    /\ ready' = ready \ {live}
    /\ UNCHANGED <<row, sock, requests, up, down, device>>

\* The connection replaces the one before it, which is closed; its entry and what that knew of
\* heartbeats are gone.
Register(d) ==
    /\ phase[d] = "upgraded"
    /\ Goto(d, "reading")
    /\ live' = d
    /\ sock' = sock \ {live} /\ ready' = ready \ {live}
    /\ UNCHANGED <<row, requests, up, down, device>>

Deliver(d, r) == mail' = IF live = d /\ r \in pending[d] THEN mail \cup {r} ELSE mail

\* Mutation of Read: a heartbeat does not look at the row.
ReadUnchecked(d) ==
    /\ phase[d] = "reading" /\ up[d] # <<>>
    /\ IF Head(up[d]).type = "heartbeat"
       THEN Goto(d, "beating") /\ UNCHANGED mail
       ELSE Deliver(d, Head(up[d]).req) /\ UNCHANGED phase
    /\ up' = [up EXCEPT ![d] = Tail(@)]
    /\ UNCHANGED <<row, hub, pending, out, via, down, device>>

\* A heartbeat updates the row unless it is revoked; a response goes to its request.
Read(d) ==
    /\ phase[d] = "reading" /\ up[d] # <<>>
    /\ IF Head(up[d]).type = "heartbeat"
       THEN Goto(d, IF revoke = "no" THEN "beating" ELSE "ending") /\ UNCHANGED mail
       ELSE Deliver(d, Head(up[d]).req) /\ UNCHANGED phase
    /\ up' = [up EXCEPT ![d] = Tail(@)]
    /\ UNCHANGED <<row, hub, pending, out, via, down, device>>

\* The row is updated: the heartbeat counts if the connection is still the registered one.
Beaten(d) ==
    /\ phase[d] = "beating"
    /\ IF live = d
       THEN Goto(d, "reading") /\ ready' \in {ready \cup {d}, ready \ {d}}
       ELSE Goto(d, "ending") /\ UNCHANGED ready
    /\ UNCHANGED <<row, live, sock, requests, up, down, device>>

\* 45 seconds without a heartbeat.
Stale(d) ==
    /\ d \in ready /\ ready' = ready \ {d}
    /\ UNCHANGED <<row, live, phase, sock, requests, up, down, device>>

\* The read fails: the connection is closed at one of its ends.
ReadFails(d) ==
    /\ phase[d] = "reading" /\ (d \notin sock \/ agent # d)
    /\ Goto(d, "ending")
    /\ UNCHANGED <<row, hub, requests, up, down, device>>

\* The read deadline passes, the certificate ends, or a message is not acceptable.
GiveUp(d) ==
    /\ phase[d] = "reading"
    /\ Goto(d, "ending")
    /\ UNCHANGED <<row, hub, requests, up, down, device>>

\* Mutation of Unregister: whatever is registered goes.
UnregisterAnyone(d) ==
    /\ phase[d] = "ending"
    /\ Goto(d, "ended")
    /\ live' = None
    /\ sock' = sock \ {d} /\ ready' = ready \ {d}
    /\ up' = [up EXCEPT ![d] = <<>>]
    /\ UNCHANGED <<row, requests, down, device>>

\* The handler's deferred calls: done is closed before, the connection after it.
Unregister(d) ==
    /\ phase[d] = "ending"
    /\ Goto(d, "ended")
    /\ live' = IF live = d THEN None ELSE live
    /\ sock' = sock \ {d} /\ ready' = ready \ {d}
    /\ up' = [up EXCEPT ![d] = <<>>]
    /\ UNCHANGED <<row, requests, down, device>>

-----------------------------------------------------------------------------
(* Revocation *)

\* Store.Revoke.
Revoke ==
    /\ revoke = "no" /\ revoke' = "stored"
    /\ UNCHANGED <<hub, phase, requests, up, down, device>>

\* Hub.Disconnect, and the operator is told.
Disconnect ==
    /\ revoke = "stored" /\ revoke' = "done"
    /\ live' = None
    /\ sock' = sock \ {live} /\ ready' = ready \ {live}
    /\ UNCHANGED <<phase, requests, up, down, device>>

-----------------------------------------------------------------------------
(* Requests *)

\* Mutation of Request: as many as there are.
RequestUnbounded(r) ==
    /\ out[r] = "idle" /\ live # None /\ live \in ready
    /\ out' = [out EXCEPT ![r] = "sending"]
    /\ via' = [via EXCEPT ![r] = live]
    /\ pending' = [pending EXCEPT ![live] = @ \cup {r}]
    /\ UNCHANGED <<row, hub, phase, mail, up, down, device>>

\* request is bound to the connection registered now.
Request(r) ==
    /\ out[r] = "idle" /\ live # None /\ live \in ready
    /\ Cardinality(pending[live]) < Slots
    /\ out' = [out EXCEPT ![r] = "sending"]
    /\ via' = [via EXCEPT ![r] = live]
    /\ pending' = [pending EXCEPT ![live] = @ \cup {r}]
    /\ UNCHANGED <<row, hub, phase, mail, up, down, device>>

\* The request is written; when the agent is gone it is lost.
Write(r) ==
    /\ out[r] = "sending" /\ via[r] \in sock
    /\ out' = [out EXCEPT ![r] = "waiting"]
    /\ down' = IF agent = via[r] THEN [down EXCEPT ![via[r]] = Append(@, r)] ELSE down
    /\ UNCHANGED <<row, hub, phase, pending, mail, via, up, device>>

\* request returns, and forgets its channel.
Return(r, result) ==
    /\ out' = [out EXCEPT ![r] = result]
    /\ pending' = [pending EXCEPT ![via[r]] = @ \ {r}]
    /\ mail' = mail \ {r}
    /\ UNCHANGED <<row, hub, phase, via, up, down, device>>

\* A reply counts only while its connection is the registered one.
Answered(r) ==
    /\ out[r] = "waiting" /\ r \in mail
    /\ Return(r, IF live = via[r] THEN "ok" ELSE "failed")

\* Mutation of CutOff: only a device without any connection interrupts a request.
CutOffOffline(r) ==
    /\ out[r] = "waiting" /\ live = None
    /\ Return(r, "failed")

\* The handler of the connection has ended (done).
CutOff(r) ==
    /\ out[r] = "waiting" /\ phase[via[r]] \in {"ending", "ended"}
    /\ Return(r, "failed")

\* The write fails, or the client of the API is gone or has waited too long.
Abandon(r) ==
    /\ out[r] \in {"sending", "waiting"}
    /\ Return(r, "failed")

-----------------------------------------------------------------------------
(* The agent *)

\* A heartbeat; one at a time is on its way.
Beat ==
    /\ agent \in sock
    /\ \A i \in DOMAIN up[agent] : up[agent][i] # Heartbeat
    /\ up' = [up EXCEPT ![agent] = Append(@, Heartbeat)]
    /\ UNCHANGED <<row, hub, phase, requests, down, device>>

\* connect returns: the connection is gone, or a message is not acceptable.
Leave ==
    /\ agent # None
    /\ agent' = None /\ busy' = {} /\ replied' = {}
    /\ down' = [down EXCEPT ![agent] = <<>>]
    /\ UNCHANGED <<row, hub, phase, requests, up>>

\* The next request gets a worker.
Take(r) ==
    /\ agent # None /\ down[agent] # <<>> /\ r = Head(down[agent])
    /\ Cardinality(busy) < Slots
    /\ busy' = busy \cup {r}
    /\ down' = [down EXCEPT ![agent] = Tail(@)]
    /\ UNCHANGED <<row, hub, phase, requests, up, agent, replied>>

\* The next request finds every worker taken: connect returns.
Refuse ==
    /\ agent # None /\ down[agent] # <<>> /\ Cardinality(busy) >= Slots
    /\ Leave

\* A worker writes its result.
Answer(r) ==
    /\ r \in busy \ replied /\ agent \in sock
    /\ up' = [up EXCEPT ![agent] = Append(@, Response(r))]
    /\ replied' = replied \cup {r}
    /\ UNCHANGED <<row, hub, phase, requests, down, agent, busy>>

\* And is free after that.
Free(r) ==
    /\ r \in replied
    /\ busy' = busy \ {r} /\ replied' = replied \ {r}
    /\ UNCHANGED <<row, hub, phase, requests, up, down, agent>>

-----------------------------------------------------------------------------
Handler(d) ==
    \/ Connect(d) \/ Register(d) \/ Read(d) \/ Beaten(d) \/ Stale(d)
    \/ ReadFails(d) \/ GiveUp(d) \/ Unregister(d)

Serve(r) ==
    \/ Request(r) \/ Write(r) \/ Answered(r) \/ CutOff(r) \/ Abandon(r)
    \/ Take(r) \/ Answer(r) \/ Free(r)

Next ==
    \/ \E d \in Conns : Handler(d)
    \/ \E r \in Reqs : Serve(r)
    \/ Revoke \/ Disconnect
    \/ Beat \/ Leave \/ Refuse

Spec == Init /\ [][Next]_vars

\* A read of a closed connection returns, the database answers, deferred calls run, and
\* request looks at done.  Nothing is assumed of the agent, of clients or of their deadlines.
Fairness ==
    /\ \A d \in Conns : WF_vars(ReadFails(d) \/ Beaten(d) \/ Unregister(d))
    /\ \A r \in Reqs : WF_vars(CutOff(r))

FairSpec == Spec /\ Fairness

-----------------------------------------------------------------------------
(* Safety *)

Serving(d) == phase[d] \in {"reading", "beating"}

\* What is registered has a handler that will unregister it, and a handler that serves
\* without being registered, because it was replaced or revoked, has lost its connection:
\* no two connections of a device are served at once (device.go DeviceHandler, Disconnect).
HubMatchesHandlers ==
    /\ live # None => Serving(live) \/ phase[live] = "ending"
    /\ \A d \in Conns : Serving(d) /\ live # d => d \notin sock

\* Once the operator is told that the device is revoked, the hub accepts no request for it,
\* writes none that it accepted before, and counts no reply, however a connection or a
\* heartbeat was under way.  What was written before may still run on the device: its request
\* fails (device.go, http.go, session.go).
RevokedIsOff ==
    revoke = "done" =>
        /\ live # None => live \notin ready
        /\ \A r \in Reqs : out[r] \in {"sending", "waiting"} => via[r] \notin sock \cup {live}

\* The hub remembers exactly the requests somebody waits for, at most Slots of a connection
\* (session.go request).
Waiting(d) == {r \in Reqs : via[r] = d /\ out[r] \in {"sending", "waiting"}}
PendingIsInUse ==
    \A d \in Conns : pending[d] = Waiting(d) /\ Cardinality(pending[d]) <= Slots

\* "A connection epoch prevents an old disconnect from marking a replacement connection
\* offline" (docs/milestones/M3-internal-manager.md): a registered connection goes when its
\* own handler ends, another replaces it, or the device is revoked (device.go).
ReplacementStays ==
    [][\A d \in Conns : live = d /\ live' # d =>
          \/ phase[d] = "ending"
          \/ live' # None /\ phase[live'] = "upgraded"
          \/ revoke' # revoke]_vars

(* Liveness *)

\* "Replacement, revocation and disconnect terminate pending requests"
\* (contracts/manager-session-bridge.md), and not only their deadline (session.go request).
InterruptedEnds ==
    \A r \in Reqs : out[r] = "waiting" /\ live # via[r] ~> out[r] # "waiting"
=============================================================================
