--------------------------- MODULE DeviceHubProofs ---------------------------
(* Proofs about DeviceHub, for any number of connections and requests and   *)
(* any limit on what runs at once.                                           *)
EXTENDS DeviceHub, TLAPS, FiniteSetTheorems

-----------------------------------------------------------------------------
(* Types *)

\* What is counted is finite, although Reqs need not be.
Counted == IsFiniteSet(busy) /\ \A d \in Conns : IsFiniteSet(pending[d])

Typed == TypeOK /\ Counted

\* A member more is at most one more to count.
LEMMA OneMore ==
    ASSUME NEW S, NEW x, IsFiniteSet(S), Cardinality(S) < Slots
    PROVE  IsFiniteSet(S \cup {x}) /\ Cardinality(S \cup {x}) <= Slots
<1>1. Cardinality(S) \in Nat
  BY FS_CardinalityType
<1>2. /\ IsFiniteSet(S \cup {x})
      /\ Cardinality(S \cup {x}) = Cardinality(S) \/ Cardinality(S \cup {x}) = Cardinality(S) + 1
  BY FS_AddElement
<1>3. QED
  BY <1>1, <1>2, HubAssumption

\* And one fewer at most as many.
LEMMA OneFewer ==
    ASSUME NEW S, NEW x, IsFiniteSet(S), Cardinality(S) <= Slots
    PROVE  IsFiniteSet(S \ {x}) /\ Cardinality(S \ {x}) <= Slots
<1>1. Cardinality(S) \in Nat
  BY FS_CardinalityType
<1>2. /\ IsFiniteSet(S \ {x})
      /\ Cardinality(S \ {x}) = Cardinality(S) \/ Cardinality(S \ {x}) = Cardinality(S) - 1
  BY FS_RemoveElement
<1>3. QED
  BY <1>1, <1>2, HubAssumption

LEMMA NothingToCount == IsFiniteSet({}) /\ Cardinality({}) <= Slots
BY FS_EmptySet, HubAssumption

LEMMA AppendType ==
    ASSUME NEW T, NEW s \in Seq(T), NEW x \in T
    PROVE  Append(s, x) \in Seq(T)
OBVIOUS

LEMMA TypedAtFirst == Init => Typed
BY NothingToCount DEF Init, Typed, TypeOK, Counted

LEMMA HandlerType ==
    ASSUME Typed, NEW d \in Conns, Handler(d)
    PROVE  Typed'
<1> USE DEF Typed, TypeOK, Counted, row, hub, requests, device, Goto
<1>1. CASE Connect(d)
  BY <1>1 DEF Connect
<1>2. CASE Register(d)
  BY <1>2 DEF Register
<1>3. CASE Read(d)
  <2>1. Head(up[d]) \in Message /\ Tail(up[d]) \in Seq(Message)
    BY <1>3 DEF Read
  <2>2. mail' \in SUBSET Reqs
    BY <1>3, <2>1 DEF Read, Deliver
  <2>3. phase' \in [Conns -> {"none", "upgraded", "reading", "beating", "ending", "ended"}]
    BY <1>3 DEF Read
  <2>4. up' \in [Conns -> Seq(Message)]
    BY <1>3, <2>1 DEF Read
  <2>5. QED
    BY <1>3, <2>2, <2>3, <2>4 DEF Read
<1>4. CASE Beaten(d)
  <2>1. phase' \in [Conns -> {"none", "upgraded", "reading", "beating", "ending", "ended"}]
    BY <1>4 DEF Beaten
  <2>2. ready' \in SUBSET Conns
    BY <1>4 DEF Beaten
  <2>3. QED
    BY <1>4, <2>1, <2>2 DEF Beaten
<1>5. CASE Stale(d)
  BY <1>5 DEF Stale
<1>6. CASE ReadFails(d)
  BY <1>6 DEF ReadFails
<1>7. CASE GiveUp(d)
  BY <1>7 DEF GiveUp
<1>8. CASE Unregister(d)
  BY <1>8 DEF Unregister
<1>9. QED
  BY <1>1, <1>2, <1>3, <1>4, <1>5, <1>6, <1>7, <1>8 DEF Handler

LEMMA ReturnType ==
    ASSUME Typed, NEW r \in Reqs, NEW result \in {"ok", "failed"}, Return(r, result)
    PROVE  Typed'
<1>1. \A d \in Conns : pending'[d] = pending[d] \/ pending'[d] = pending[d] \ {r}
  BY DEF Typed, TypeOK, Return
<1>2. \A d \in Conns : IsFiniteSet(pending'[d])
  BY <1>1, FS_RemoveElement DEF Typed, Counted
<1>3. pending' \in [Conns -> SUBSET Reqs]
  BY DEF Typed, TypeOK, Return
<1>4. QED
  BY <1>2, <1>3 DEF Typed, TypeOK, Counted, Return, row, hub, device

LEMMA ServeType ==
    ASSUME Typed, NEW r \in Reqs, Serve(r)
    PROVE  Typed'
<1> USE DEF Typed, TypeOK, Counted, row, hub, requests, device
<1>1. CASE Request(r)
  <2>1. live \in Conns
    BY <1>1 DEF Request
  <2>2. IsFiniteSet(pending[live] \cup {r})
    BY <2>1, FS_AddElement
  <2>3. pending' = [pending EXCEPT ![live] = pending[live] \cup {r}]
    BY <1>1 DEF Request
  <2>4. \A d \in Conns : IsFiniteSet(pending'[d])
    BY <2>1, <2>2, <2>3
  <2>5. QED
    BY <1>1, <2>1, <2>3, <2>4 DEF Request
<1>2. CASE Write(r)
  <2>1. via[r] \in Conns
    BY <1>2 DEF Write
  <2>2. Append(down[via[r]], r) \in Seq(Reqs)
    BY <2>1, AppendType
  <2>3. down' \in [Conns -> Seq(Reqs)]
    BY <1>2, <2>1, <2>2 DEF Write
  <2>4. QED
    BY <1>2, <2>3 DEF Write
<1>3. CASE Answered(r)
  BY <1>3, ReturnType DEF Answered
<1>4. CASE CutOff(r)
  BY <1>4, ReturnType DEF CutOff
<1>5. CASE Abandon(r)
  BY <1>5, ReturnType DEF Abandon
<1>6. CASE Take(r)
  <2>1. IsFiniteSet(busy \cup {r}) /\ Cardinality(busy \cup {r}) <= Slots
    BY <1>6, OneMore DEF Take
  <2>2. agent \in Conns /\ Tail(down[agent]) \in Seq(Reqs)
    BY <1>6 DEF Take
  <2>3. QED
    BY <1>6, <2>1, <2>2 DEF Take
<1>7. CASE Answer(r)
  <2>1. agent \in Conns
    BY <1>7 DEF Answer
  <2>2. Response(r) \in Message
    BY DEF Response, Message
  <2>3. Append(up[agent], Response(r)) \in Seq(Message)
    BY <2>1, <2>2, AppendType
  <2>4. QED
    BY <1>7, <2>1, <2>3 DEF Answer
<1>8. CASE Free(r)
  <2>1. IsFiniteSet(busy \ {r}) /\ Cardinality(busy \ {r}) <= Slots
    BY OneFewer
  <2>2. QED
    BY <1>8, <2>1 DEF Free
<1>9. QED
  BY <1>1, <1>2, <1>3, <1>4, <1>5, <1>6, <1>7, <1>8 DEF Serve

LEMMA LeaveType ==
    ASSUME Typed, Leave
    PROVE  Typed'
<1>1. agent \in Conns /\ <<>> \in Seq(Reqs)
  BY DEF Typed, TypeOK, Leave
<1>2. busy' = {} /\ IsFiniteSet(busy') /\ Cardinality(busy') <= Slots
  BY NothingToCount DEF Leave
<1>3. QED
  BY <1>1, <1>2 DEF Typed, TypeOK, Counted, Leave, row, hub, requests

LEMMA TypedAlways == Spec => []Typed
<1>1. Typed /\ [Next]_vars => Typed'
  <2> SUFFICES ASSUME Typed, [Next]_vars PROVE Typed'
    OBVIOUS
  <2>1. ASSUME NEW d \in Conns, Handler(d) PROVE Typed'
    BY <2>1, HandlerType
  <2>2. ASSUME NEW r \in Reqs, Serve(r) PROVE Typed'
    BY <2>2, ServeType
  <2>3. CASE Revoke \/ Disconnect
    BY <2>3 DEF Typed, TypeOK, Counted, Revoke, Disconnect, row, hub, requests, device
  <2>4. CASE Beat
    <3>1. agent \in Conns /\ Heartbeat \in Message
      BY <2>4 DEF Typed, TypeOK, Beat, Heartbeat, Message
    <3>2. Append(up[agent], Heartbeat) \in Seq(Message)
      BY <3>1, AppendType DEF Typed, TypeOK
    <3>3. QED
      BY <2>4, <3>1, <3>2 DEF Typed, TypeOK, Counted, Beat, row, hub, requests, device
  <2>5. CASE Leave \/ Refuse
    BY <2>5, LeaveType DEF Refuse
  <2>6. CASE UNCHANGED vars
    BY <2>6 DEF Typed, TypeOK, Counted, vars, row, hub, requests, device
  <2>7. QED
    BY <2>1, <2>2, <2>3, <2>4, <2>5, <2>6 DEF Next
<1>2. QED
  BY <1>1, TypedAtFirst, PTL DEF Spec

\* The hub, its handlers and the agent keep their types, and the agent never has more
\* workers than slots (main.go workers).
THEOREM HubTypeCorrect == Spec => []TypeOK
<1>1. Typed => TypeOK
  BY DEF Typed
<1>2. QED
  BY <1>1, TypedAlways, PTL

-----------------------------------------------------------------------------
(* Connections.  Once a device is revoked, two things keep a connection that *)
(* was checked before from coming to life: nothing is known of it until its  *)
(* first heartbeat, and that heartbeat finds the row revoked or, if it found *)
(* it in time, finds the connection gone from the hub.                       *)

Fresh ==
    \A d \in Conns : phase[d] \in {"none", "upgraded"} =>
        d \notin ready /\ \A r \in Reqs : via[r] # d

Off ==
    revoke = "done" /\ live # None =>
        /\ phase[live] # "beating" /\ live \notin ready
        /\ \A r \in Reqs : out[r] \in {"sending", "waiting"} => via[r] # live

\* What was registered and is not any more is closed, whether or not its handler has seen it.
Closed == \A d \in Conns : phase[d] \in {"ending", "ended"} /\ live # d => d \notin sock

Sent == \A r \in Reqs : out[r] \in {"sending", "waiting"} => via[r] # None

HubInv == HubMatchesHandlers /\ Fresh /\ Off /\ Closed /\ Sent

LEMMA HubInvAtFirst == Init => HubInv
BY HubAssumption DEF Init, HubInv, HubMatchesHandlers, Fresh, Off, Closed, Sent, Serving

\* The connections and what is bound to them decide HubInv.
LEMMA HubInvUnchanged ==
    ASSUME HubInv, UNCHANGED <<row, hub, phase, out, via>>
    PROVE  HubInv'
BY DEF HubInv, HubMatchesHandlers, Fresh, Off, Closed, Sent, Serving, row, hub

LEMMA HandlerHubInv ==
    ASSUME TypeOK, HubInv, NEW d \in Conns, Handler(d)
    PROVE  HubInv'
<1> USE HubAssumption DEF TypeOK, HubInv, HubMatchesHandlers, Fresh, Off, Closed, Sent, Serving,
                          row, hub, requests, Goto
<1>1. CASE Connect(d)
  BY <1>1 DEF Connect
<1>2. CASE Register(d)
  BY <1>2 DEF Register
<1>3. CASE Read(d)
  BY <1>3 DEF Read
<1>4. CASE Beaten(d)
  BY <1>4 DEF Beaten
<1>5. CASE Stale(d)
  BY <1>5 DEF Stale
<1>6. CASE ReadFails(d)
  BY <1>6 DEF ReadFails
<1>7. CASE GiveUp(d)
  BY <1>7 DEF GiveUp
<1>8. CASE Unregister(d)
  BY <1>8 DEF Unregister
<1>9. QED
  BY <1>1, <1>2, <1>3, <1>4, <1>5, <1>6, <1>7, <1>8 DEF Handler

LEMMA ServeHubInv ==
    ASSUME TypeOK, HubInv, NEW r \in Reqs, Serve(r)
    PROVE  HubInv'
<1>1. CASE Request(r)
  BY <1>1
  DEF Request, TypeOK, HubInv, HubMatchesHandlers, Fresh, Off, Closed, Sent, Serving, row,
      hub
<1>2. CASE Write(r)
  BY <1>2
  DEF Write, TypeOK, HubInv, HubMatchesHandlers, Fresh, Off, Closed, Sent, Serving, row,
      hub
<1>3. ASSUME NEW result \in {"ok", "failed"}, Return(r, result) PROVE HubInv'
  BY <1>3
  DEF Return, TypeOK, HubInv, HubMatchesHandlers, Fresh, Off, Closed, Sent, Serving, row,
      hub
<1>4. CASE Answered(r) \/ CutOff(r) \/ Abandon(r)
  BY <1>3, <1>4 DEF Answered, CutOff, Abandon
<1>5. CASE Take(r) \/ Answer(r) \/ Free(r)
  BY <1>5, HubInvUnchanged DEF Take, Answer, Free, requests
<1>6. QED
  BY <1>1, <1>2, <1>4, <1>5 DEF Serve

LEMMA HubInvAlways == Spec => []HubInv
<1>1. TypeOK /\ HubInv /\ [Next]_vars => HubInv'
  <2> SUFFICES ASSUME TypeOK, HubInv, [Next]_vars PROVE HubInv'
    OBVIOUS
  <2>1. ASSUME NEW d \in Conns, Handler(d) PROVE HubInv'
    BY <2>1, HandlerHubInv
  <2>2. ASSUME NEW r \in Reqs, Serve(r) PROVE HubInv'
    BY <2>2, ServeHubInv
  <2>3. CASE Revoke
    BY <2>3
    DEF Revoke, HubInv, HubMatchesHandlers, Fresh, Off, Closed, Sent, Serving, hub, requests
  <2>4. CASE Disconnect
    <3>1. live' = None /\ ready' \subseteq ready /\ UNCHANGED <<phase, out, via>>
      BY <2>4 DEF Disconnect, requests
    <3>2. sock' = sock \ {live}
      BY <2>4 DEF Disconnect
    <3>3. HubMatchesHandlers'
      BY <3>1, <3>2, HubAssumption DEF HubInv, HubMatchesHandlers, Serving
    <3>4. QED
      BY <3>1, <3>2, <3>3 DEF HubInv, Fresh, Off, Closed, Sent
  <2>5. CASE Beat \/ Leave \/ Refuse \/ UNCHANGED vars
    BY <2>5, HubInvUnchanged DEF Beat, Leave, Refuse, vars, row, hub, requests
  <2>6. QED
    BY <2>1, <2>2, <2>3, <2>4, <2>5 DEF Next
<1>2. QED
  BY <1>1, HubInvAtFirst, HubTypeCorrect, PTL DEF Spec

\* A registered connection has a handler that will unregister it, and what serves without
\* being registered is closed (device.go DeviceHandler).
THEOREM HubAlwaysMatchesHandlers == Spec => []HubMatchesHandlers
<1>1. HubInv => HubMatchesHandlers
  BY DEF HubInv
<1>2. QED
  BY <1>1, HubInvAlways, PTL

\* Once the operator has been told that a device is revoked, the hub accepts no request for
\* it, writes none and counts no reply (device.go, http.go, session.go).
THEOREM RevokedStaysOff == Spec => []RevokedIsOff
<1>1. TypeOK /\ HubInv => RevokedIsOff
  <2> SUFFICES ASSUME TypeOK, HubInv, revoke = "done",
                      NEW r \in Reqs, out[r] \in {"sending", "waiting"}
               PROVE  via[r] \notin sock \cup {live}
    BY DEF HubInv, Off, RevokedIsOff
  <2>1. via[r] \in Conns
    BY DEF TypeOK, HubInv, Sent
  <2>2. via[r] # live
    BY <2>1, HubAssumption DEF HubInv, Off
  <2>3. phase[via[r]] \in {"reading", "beating", "ending", "ended"}
    BY <2>1 DEF TypeOK, HubInv, Fresh
  <2>4. via[r] \notin sock
    BY <2>1, <2>2, <2>3 DEF HubInv, HubMatchesHandlers, Closed, Serving
  <2>5. QED
    BY <2>2, <2>4
<1>2. QED
  BY <1>1, HubInvAlways, HubTypeCorrect, PTL

\* A late end of an old connection never takes its replacement out of the hub (device.go).
THEOREM ReplacementAlwaysStays == Spec => ReplacementStays
<1> DEFINE Stays == \A d \in Conns : live = d /\ live' # d =>
                       \/ phase[d] = "ending"
                       \/ live' # None /\ phase[live'] = "upgraded"
                       \/ revoke' # revoke
<1>1. [Next]_vars => Stays
  <2> SUFFICES ASSUME [Next]_vars PROVE Stays
    OBVIOUS
  <2>1. CASE live' = live
    BY <2>1
  <2>2. ASSUME NEW d \in Conns, Register(d) PROVE Stays
    BY <2>2, HubAssumption DEF Register
  <2>3. ASSUME NEW d \in Conns, Unregister(d) PROVE Stays
    BY <2>3 DEF Unregister
  <2>4. CASE Disconnect
    BY <2>4 DEF Disconnect
  <2>5. ASSUME NEW d \in Conns, Handler(d) PROVE Stays
    BY <2>1, <2>2, <2>3, <2>5 DEF Handler, Connect, Read, Beaten, Stale, ReadFails, GiveUp, hub
  <2>6. ASSUME NEW r \in Reqs, Serve(r) PROVE live' = live
    BY <2>6 DEF Serve, Request, Write, Answered, CutOff, Abandon, Return, Take, Answer, Free,
                hub
  <2>7. CASE Revoke \/ Beat \/ Leave \/ Refuse \/ UNCHANGED vars
    BY <2>1, <2>7 DEF Revoke, Beat, Leave, Refuse, vars, hub
  <2>8. QED
    BY <2>1, <2>4, <2>5, <2>6, <2>7 DEF Next
<1>2. QED
  BY <1>1, PTL DEF Spec, ReplacementStays

-----------------------------------------------------------------------------
(* Requests *)

LEMMA PendingUnchanged ==
    ASSUME PendingIsInUse, UNCHANGED <<pending, out, via>>
    PROVE  PendingIsInUse'
BY DEF PendingIsInUse, Waiting

LEMMA RequestPending ==
    ASSUME Typed, HubInv, PendingIsInUse, NEW r \in Reqs, Request(r)
    PROVE  PendingIsInUse'
<1>1. live \in Conns /\ Cardinality(pending[live]) < Slots
  BY DEF Typed, TypeOK, Request
<1>2. Cardinality(pending[live] \cup {r}) <= Slots
  BY <1>1, OneMore DEF Typed, Counted
<1>3. /\ pending' = [pending EXCEPT ![live] = pending[live] \cup {r}]
      /\ out' = [out EXCEPT ![r] = "sending"] /\ via' = [via EXCEPT ![r] = live]
      /\ out[r] = "idle"
  BY DEF Request
<1>4. ASSUME NEW d \in Conns PROVE pending'[d] = Waiting(d)'
  <2>1. pending[d] = Waiting(d)
    BY DEF PendingIsInUse
  <2>2. CASE d = live
    BY <1>1, <1>3, <2>1, <2>2 DEF Waiting, Typed, TypeOK
  <2>3. CASE d # live
    BY <1>1, <1>3, <2>1, <2>3 DEF Waiting, Typed, TypeOK
  <2>4. QED
    BY <2>2, <2>3
<1>5. ASSUME NEW d \in Conns PROVE Cardinality(pending'[d]) <= Slots
  BY <1>1, <1>2, <1>3 DEF PendingIsInUse, Typed, TypeOK
<1>6. QED
  BY <1>4, <1>5 DEF PendingIsInUse

LEMMA ReturnPending ==
    ASSUME Typed, PendingIsInUse, NEW r \in Reqs, NEW result \in {"ok", "failed"},
           Return(r, result)
    PROVE  PendingIsInUse'
<1>1. /\ pending' = [pending EXCEPT ![via[r]] = pending[via[r]] \ {r}]
      /\ out' = [out EXCEPT ![r] = result] /\ via' = via
  BY DEF Return
<1>2. ASSUME NEW d \in Conns PROVE pending'[d] = Waiting(d)' /\ Cardinality(pending'[d]) <= Slots
  <2>1. pending[d] = Waiting(d) /\ Cardinality(pending[d]) <= Slots /\ IsFiniteSet(pending[d])
    BY DEF PendingIsInUse, Typed, Counted
  <2>2. CASE d = via[r]
    <3>1. pending'[d] = pending[d] \ {r}
      BY <1>1, <2>2 DEF Typed, TypeOK
    <3>2. pending'[d] = Waiting(d)'
      BY <1>1, <2>1, <3>1 DEF Waiting, Typed, TypeOK
    <3>3. QED
      BY <2>1, <3>1, <3>2, OneFewer
  <2>3. CASE d # via[r]
    BY <1>1, <2>1, <2>3 DEF Waiting, Typed, TypeOK
  <2>4. QED
    BY <2>2, <2>3
<1>3. QED
  BY <1>2 DEF PendingIsInUse

\* The hub remembers exactly the requests that somebody waits for, within the limit
\* (session.go request).
THEOREM PendingAlwaysInUse == Spec => []PendingIsInUse
<1>1. Init => PendingIsInUse
  BY NothingToCount DEF Init, PendingIsInUse, Waiting
<1>2. Typed /\ HubInv /\ PendingIsInUse /\ [Next]_vars => PendingIsInUse'
  <2> SUFFICES ASSUME Typed, HubInv, PendingIsInUse, [Next]_vars PROVE PendingIsInUse'
    OBVIOUS
  <2>1. ASSUME NEW d \in Conns, Handler(d) PROVE PendingIsInUse'
    BY <2>1, PendingUnchanged DEF Handler, Connect, Register, Read, Beaten, Stale, ReadFails,
                                  GiveUp, Unregister, requests
  <2>2. ASSUME NEW r \in Reqs, Serve(r) PROVE PendingIsInUse'
    <3>1. CASE Request(r)
      BY <3>1, RequestPending
    <3>2. CASE Write(r)
      BY <3>2 DEF Write, PendingIsInUse, Waiting, Typed, TypeOK
    <3>3. CASE Answered(r) \/ CutOff(r) \/ Abandon(r)
      BY <3>3, ReturnPending DEF Answered, CutOff, Abandon
    <3>4. CASE Take(r) \/ Answer(r) \/ Free(r)
      BY <3>4, PendingUnchanged DEF Take, Answer, Free, requests
    <3>5. QED
      BY <2>2, <3>1, <3>2, <3>3, <3>4 DEF Serve
  <2>3. CASE Revoke \/ Disconnect \/ Beat \/ Leave \/ Refuse \/ UNCHANGED vars
    BY <2>3, PendingUnchanged DEF Revoke, Disconnect, Beat, Leave, Refuse, vars, requests
  <2>4. QED
    BY <2>1, <2>2, <2>3 DEF Next
<1>3. QED
  BY <1>1, <1>2, TypedAlways, HubInvAlways, PTL DEF Spec
=============================================================================
