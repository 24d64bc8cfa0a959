----------------------------- MODULE DeviceCore -----------------------------
(***************************************************************************)
(* The device worker: Core (device/core/src/core.rs) behind the socket     *)
(* server (device/core/src/server.rs).  Connections of several UIDs open   *)
(* sessions, lease control of the one desktop, and inject input through a  *)
(* backend.  One mutex serialises the worker, but a connection may be      *)
(* cancelled, and time may pass, in the middle of a request.               *)
(*                                                                         *)
(* Instants are countdowns: a deadline is the number of ticks left before  *)
(* it, 0 once it has passed, NoTimer when unset.  Snapshots, topology and  *)
(* the numbering of inputs are left out: a request that fails one of those *)
(* checks is answered with an error here, like any other refused request.  *)
(***************************************************************************)
EXTENDS Integers, FiniteSets

CONSTANTS
    Conns,       \* connections the server can hold at once
    Uids,        \* local accounts
    Uid,         \* Uid[c]: the peer credential of connection c
    Permission,  \* Permission[u]: what u may do and the backend can do
    Sids,        \* session identifiers
    Msgs,        \* message identifiers a client may send more than once
    LeaseTicks,  \* LEASE, in ticks
    Retention,   \* RETENTION, in ticks
    MaxOpen,     \* open sessions per UID (2 in the code)
    MaxCached,   \* remembered results per UID (256 in the code)
    None         \* no connection, session, account or message

Permissions == {"view", "control", "resize"}

ASSUME ConstantsAssumption ==
    /\ Uid \in [Conns -> Uids]
    /\ Permission \in [Uids -> SUBSET Permissions]
    /\ LeaseTicks \in Nat \ {0}
    /\ Retention \in Nat \ {0}
    /\ MaxOpen \in Nat /\ MaxCached \in Nat
    /\ None \notin Conns \cup Uids \cup Sids \cup Msgs

VARIABLES
    conn,        \* conn[c]: absent, live, or cancelled (its flag is set)
    policies,    \* UIDs that still have a policy
    sessions,    \* the sessions map
    lease,       \* the control lease
    faulted,     \* control is shut because a release failed
    held,        \* the backend holds some key or button down
    lastRelease, \* how the backend's last release_all went
    cache,       \* remembered results of the safe requests
    work         \* who holds the core mutex, and in which phase of which request

control == <<lease, faulted, held, lastRelease>>
vars == <<conn, policies, sessions, lease, faulted, held, lastRelease, cache, work>>

NoTimer == -1
NoSession == [state |-> "absent", uid |-> None, conns |-> {}, retain |-> NoTimer]
NoLease == [conn |-> None, session |-> None, ttl |-> 0]
NoEntry == [op |-> "none", session |-> None, ttl |-> 0]
Idle == [conn |-> None, phase |-> "idle", session |-> None, msg |-> None]

Session == [state : {"open", "closed"}, uid : Uids, conns : SUBSET Conns,
            retain : NoTimer..Retention]
Lease == [conn : Conns, session : Sids, ttl : 0..LeaseTicks]
Keys == Uids \X (Sids \cup {None}) \X Msgs
Entry == [op : {"open", "close", "resize"}, session : Sids \cup {None}, ttl : 0..Retention]
Work == [conn : Conns, phase : {"entered", "input", "resize"},
         session : Sids \cup {None}, msg : Msgs \cup {None}]

TypeOK ==
    /\ conn \in [Conns -> {"absent", "live", "cancelled"}]
    /\ policies \in SUBSET Uids
    /\ sessions \in [Sids -> Session \cup {NoSession}]
    /\ lease \in Lease \cup {NoLease}
    /\ faulted \in BOOLEAN
    /\ held \in BOOLEAN
    /\ lastRelease \in {"done", "failed"}
    /\ cache \in [Keys -> Entry \cup {NoEntry}]
    /\ work \in Work \cup {Idle}

Init ==
    /\ conn = [c \in Conns |-> "absent"]
    /\ policies = Uids
    /\ sessions = [s \in Sids |-> NoSession]
    /\ lease = NoLease
    /\ faulted = FALSE
    /\ held = FALSE
    /\ lastRelease = "done"
    /\ cache = [k \in Keys |-> NoEntry]
    /\ work = Idle

-----------------------------------------------------------------------------
(* Leases and the backend's held input *)

Leased == lease.conn # None

\* Backend::release_all with h held: all of it is up, or the call fails and leaves some down.
ReleaseAll(h) ==
    \/ held' = FALSE /\ lastRelease' = "done"
    \/ held' \in {h, FALSE} /\ lastRelease' = "failed"

\* Mutation of Release: a failed release is forgotten, as input.reset forgets it.
ReleaseUnfaulted(h) ==
    /\ lease' = NoLease
    /\ ReleaseAll(h)
    /\ UNCHANGED faulted

\* Core::release with h held: drop the lease, and fault control when the backend cannot let go.
Release(h) ==
    /\ lease' = NoLease
    /\ ReleaseAll(h)
    /\ faulted' = (faulted \/ lastRelease' = "failed")

ReleaseIf(lost) == IF lost THEN Release(held) ELSE UNCHANGED control

-----------------------------------------------------------------------------
(* Time and maintenance *)

Elapse(t) == IF t > 0 THEN t - 1 ELSE t

\* Time passes, whoever holds the mutex.
Tick ==
    /\ lease' = [lease EXCEPT !.ttl = Elapse(@)]
    /\ sessions' = [s \in Sids |-> [sessions[s] EXCEPT !.retain = Elapse(@)]]
    /\ cache' = [k \in Keys |-> [cache[k] EXCEPT !.ttl = Elapse(@)]]
    /\ UNCHANGED <<conn, policies, faulted, held, lastRelease, work>>

\* Mutation of Lapsed: a lease ends only with its session.
LapsedWithSession == Leased /\ sessions[lease.session].retain = 0

\* The lease has run out, or its session is about to be forgotten.
Lapsed == Leased /\ (lease.ttl = 0 \/ sessions[lease.session].retain = 0)

\* Core::maintain: end what has run out, and release input that was held under it.
Maintained ==
    /\ ReleaseIf(Lapsed)
    /\ sessions' = [s \in Sids |-> IF sessions[s].retain = 0 THEN NoSession ELSE sessions[s]]
    /\ cache' = [k \in Keys |-> IF cache[k].ttl = 0 THEN NoEntry ELSE cache[k]]

\* Mutation of Maintain: the timer does not take the mutex.
MaintainUnlocked ==
    /\ Maintained
    /\ UNCHANGED <<conn, policies, work>>

\* The server's 25 ms timer, when try_lock finds the mutex free.
Maintain ==
    /\ work = Idle
    /\ Maintained
    /\ UNCHANGED <<conn, policies, work>>

-----------------------------------------------------------------------------
(* Connections *)

\* Server::run accepts a peer whose UID has a policy, which it looks up under the mutex.
Accept(c) ==
    /\ conn[c] = "absent" /\ work = Idle /\ Uid[c] \in policies
    /\ conn' = [conn EXCEPT ![c] = "live"]
    /\ UNCHANGED <<policies, sessions, control, cache, work>>

\* The monitor sees the peer gone, or the handler stops: a read or write timeout, a bad
\* frame, a shutdown.  Nothing waits for a request in progress.
Cancel(c) ==
    /\ conn[c] = "live"
    /\ conn' = [conn EXCEPT ![c] = "cancelled"]
    /\ UNCHANGED <<policies, sessions, control, cache, work>>

\* Mutation of Departed: only the session being controlled is left.
DepartedController(c, s) ==
    IF lease.session # s THEN sessions[s] ELSE [sessions[s] EXCEPT !.conns = @ \ {c}]

\* Session s without connection c; the last to leave starts the retention.
Departed(c, s) ==
    LET rest == sessions[s].conns \ {c}
    IN  [sessions[s] EXCEPT
            !.conns = rest,
            !.retain = IF rest = {} /\ @ = NoTimer /\ sessions[s].state # "absent"
                       THEN Retention ELSE @]

\* Core::disconnect, the last thing a connection's handler does.
Disconnect(c) ==
    /\ conn[c] = "cancelled" /\ work = Idle
    /\ conn' = [conn EXCEPT ![c] = "absent"]
    /\ ReleaseIf(lease.conn = c)
    /\ sessions' = [s \in Sids |-> Departed(c, s)]
    /\ UNCHANGED <<policies, cache, work>>

\* Core::revoke_uid.
RevokeUid(u) ==
    /\ work = Idle /\ u \in policies
    /\ policies' = policies \ {u}
    /\ ReleaseIf(Leased /\ sessions[lease.session].uid = u)
    /\ sessions' = [s \in Sids |-> IF sessions[s].uid = u THEN NoSession ELSE sessions[s]]
    /\ cache' = [k \in Keys |-> IF k[1] = u THEN NoEntry ELSE cache[k]]
    /\ UNCHANGED <<conn, work>>

-----------------------------------------------------------------------------
(* A request: Core::process takes the mutex, maintains, then serves it *)

Enter(c) ==
    /\ conn[c] # "absent" /\ work = Idle
    /\ Maintained
    /\ work' = [conn |-> c, phase |-> "entered", session |-> None, msg |-> None]
    /\ UNCHANGED <<conn, policies>>

Entered(c) == work.conn = c /\ work.phase = "entered"

\* The checks before dispatch: not cancelled, and the UID has a policy.
Serving(c) == Entered(c) /\ conn[c] = "live" /\ Uid[c] \in policies

\* Any reply that changes nothing: unauthorized, describe, an unknown or closed session,
\* a foreign one, a replayed session.open.
Answer(c) ==
    /\ Entered(c)
    /\ work' = Idle
    /\ UNCHANGED <<conn, policies, sessions, control, cache>>

\* Core::bound lets c use the open session s, and keeps s for as long as c stays.
Bound(c, s) == Serving(c) /\ sessions[s].state = "open" /\ sessions[s].uid = Uid[c]
Bind(c, s) ==
    sessions' = [sessions EXCEPT ![s].conns = @ \cup {c}, ![s].retain = NoTimer]

\* A request on session s that is answered without another effect: every refusal after
\* bound, a screenshot, a release with no lease, a replayed result.
AnswerBound(c, s) ==
    /\ Bound(c, s)
    /\ Bind(c, s)
    /\ work' = Idle
    /\ UNCHANGED <<conn, policies, control, cache>>

Known(k) == cache[k].op # "none"

\* A safe request runs unless its result is remembered or its UID has too many of them.
Runs(u, s, m) ==
    /\ m # None => ~Known(<<u, s, m>>)
    /\ Cardinality({k \in Keys : k[1] = u /\ Known(k)}) < MaxCached

\* Mutation of CacheLife: a result outlives a retained session.
CacheLifeLonger == Retention + 1

CacheLife == Retention

\* The reply of a safe request, an error too, is remembered under its message id.
Remember(u, s, m, op, opened) ==
    cache' = IF m = None THEN cache
             ELSE [cache EXCEPT ![<<u, s, m>>] =
                      [op |-> op, session |-> opened, ttl |-> CacheLife]]

\* No session, lease or remembered result still speaks of s: a new identifier.
Unused(s) ==
    /\ sessions[s] = NoSession
    /\ \A k \in Keys : Known(k) => k[2] # s

OpenCount(u) == Cardinality({s \in Sids : sessions[s].state = "open" /\ sessions[s].uid = u})

OpenSession(c, m) ==
    /\ Serving(c) /\ Runs(Uid[c], None, m)
    /\ IF Permission[Uid[c]] # {} /\ OpenCount(Uid[c]) < MaxOpen
       THEN \E s \in Sids :
               /\ Unused(s)
               /\ sessions' = [sessions EXCEPT ![s] =
                     [state |-> "open", uid |-> Uid[c], conns |-> {c}, retain |-> NoTimer]]
               /\ Remember(Uid[c], None, m, "open", s)
       ELSE /\ UNCHANGED sessions
            /\ Remember(Uid[c], None, m, "open", None)
    /\ work' = Idle
    /\ UNCHANGED <<conn, policies, control>>

\* Mutation of CloseSession: the lease on the session survives it.
CloseKeepingLease(c, s, m) ==
    /\ Serving(c) /\ sessions[s].state # "absent" /\ sessions[s].uid = Uid[c]
    /\ sessions' = [sessions EXCEPT ![s].state = "closed", ![s].retain = Retention]
    /\ work' = Idle
    /\ UNCHANGED <<conn, policies, control, cache>>

\* session.close, also of a session already closed (bound does not bind to that one).
CloseSession(c, s, m) ==
    /\ Serving(c) /\ sessions[s].state # "absent" /\ sessions[s].uid = Uid[c]
    /\ Runs(Uid[c], s, m)
    /\ ReleaseIf(lease.session = s)
    /\ sessions' = [sessions EXCEPT
          ![s].conns = IF sessions[s].state = "open" THEN @ \cup {c} ELSE @,
          ![s].state = "closed",
          ![s].retain = Retention]
    /\ Remember(Uid[c], s, m, "close", None)
    /\ work' = Idle
    /\ UNCHANGED <<conn, policies>>

-----------------------------------------------------------------------------
(* Control *)

\* Core::require.
Allowed(c, p) == p \in Permission[Uid[c]] /\ ~faulted

\* Core::guard: the lease is c's, on s, under the quoted identifier, and has not run out.
Guarded(c, s) ==
    /\ lease.conn = c /\ lease.session = s
    /\ conn[c] = "live" /\ lease.ttl > 0

Acquire(c, s) ==
    /\ Bound(c, s) /\ Allowed(c, "control") /\ ~Leased
    /\ lease' = [conn |-> c, session |-> s, ttl |-> LeaseTicks]
    /\ Bind(c, s)
    /\ work' = Idle
    /\ UNCHANGED <<conn, policies, faulted, held, lastRelease, cache>>

Renew(c, s) ==
    /\ Bound(c, s) /\ Allowed(c, "control") /\ Guarded(c, s)
    /\ lease' = [lease EXCEPT !.ttl = LeaseTicks]
    /\ Bind(c, s)
    /\ work' = Idle
    /\ UNCHANGED <<conn, policies, faulted, held, lastRelease, cache>>

ReleaseControl(c, s) ==
    /\ Bound(c, s) /\ Guarded(c, s)
    /\ Release(held)
    /\ Bind(c, s)
    /\ work' = Idle
    /\ UNCHANGED <<conn, policies, cache>>

\* input.reset: a failure is reported to the client, and neither faults nor ends the lease.
ResetInput(c, s) ==
    /\ Bound(c, s) /\ Allowed(c, "control") /\ Guarded(c, s)
    /\ ReleaseAll(held)
    /\ Bind(c, s)
    /\ work' = Idle
    /\ UNCHANGED <<conn, policies, lease, faulted, cache>>

\* input.pointer, input.key, input.text up to the call of the backend.
BeginInput(c, s) ==
    /\ Bound(c, s) /\ Allowed(c, "control") /\ Guarded(c, s)
    /\ Bind(c, s)
    /\ work' = [work EXCEPT !.phase = "input", !.session = s]
    /\ UNCHANGED <<conn, policies, control, cache>>

\* Backend::inject returns.  It checks the guard before each OS action, so it succeeds only
\* while the guard holds; a failure may leave part of the input done, and ends the lease.
FinishInput(c) ==
    /\ work.conn = c /\ work.phase = "input"
    /\ \/ /\ Guarded(c, work.session)
          /\ held' \in BOOLEAN
          /\ UNCHANGED <<lease, faulted, lastRelease>>
       \/ \E h \in BOOLEAN : Release(h)
    /\ work' = Idle
    /\ UNCHANGED <<conn, policies, sessions, cache>>

\* display.resize refused after bound: the refusal is remembered.
RefuseResize(c, s, m) ==
    /\ Bound(c, s) /\ Runs(Uid[c], s, m)
    /\ Bind(c, s)
    /\ Remember(Uid[c], s, m, "resize", None)
    /\ work' = Idle
    /\ UNCHANGED <<conn, policies, control>>

\* display.resize up to the call of the backend: held input goes first.  When it does not
\* go, the error is remembered, and neither faults nor ends the lease.
BeginResize(c, s, m) ==
    /\ Bound(c, s) /\ Runs(Uid[c], s, m) /\ Allowed(c, "resize") /\ Guarded(c, s)
    /\ ReleaseAll(held)
    /\ Bind(c, s)
    /\ IF lastRelease' = "done"
       THEN /\ work' = [work EXCEPT !.phase = "resize", !.session = s, !.msg = m]
            /\ UNCHANGED cache
       ELSE /\ work' = Idle
            /\ Remember(Uid[c], s, m, "resize", None)
    /\ UNCHANGED <<conn, policies, lease, faulted>>

\* Backend::resize returns, with any outcome; the topology it leaves is not modelled here.
FinishResize(c) ==
    /\ work.conn = c /\ work.phase = "resize"
    /\ Remember(Uid[c], work.session, work.msg, "resize", None)
    /\ work' = Idle
    /\ UNCHANGED <<conn, policies, sessions, control>>

-----------------------------------------------------------------------------
Request(c) ==
    \/ Enter(c) \/ Answer(c)
    \/ \E m \in Msgs \cup {None} : OpenSession(c, m)
    \/ \E s \in Sids, m \in Msgs \cup {None} :
          CloseSession(c, s, m) \/ RefuseResize(c, s, m) \/ BeginResize(c, s, m)
    \/ \E s \in Sids :
          \/ AnswerBound(c, s) \/ Acquire(c, s) \/ Renew(c, s)
          \/ ReleaseControl(c, s) \/ ResetInput(c, s) \/ BeginInput(c, s)
    \/ FinishInput(c) \/ FinishResize(c)

Next ==
    \/ \E c \in Conns : Accept(c) \/ Cancel(c) \/ Disconnect(c) \/ Request(c)
    \/ \E u \in Uids : RevokeUid(u)
    \/ Maintain \/ Tick

Spec == Init /\ [][Next]_vars

\* The clock runs, the server's timer and cleanup get the mutex in the end, and whoever
\* holds it replies: the backend's calls are bounded.
Served(c) == work.conn = c /\ Request(c)
Fairness ==
    /\ WF_vars(Tick) /\ WF_vars(Maintain)
    /\ \A c \in Conns : WF_vars(Served(c)) /\ WF_vars(Disconnect(c))

FairSpec == Spec /\ Fairness

-----------------------------------------------------------------------------
(* Safety *)

\* Keys or buttons stay down only under a lease, or after a failed release that has shut
\* control for good: no path that ends a lease (expiry, disconnect, revocation, close,
\* release, failed injection) forgets the desktop (core.rs release and its callers).
HeldInputIsOwned == held => Leased \/ (faulted /\ lastRelease = "failed")

\* Whoever has the lease is still connected, bound to an open session of its own authorised
\* account, and control is not faulted: nothing that takes one of those away (disconnect,
\* revoke_uid, session.close, maintain) leaves the lease behind.
LeaseIsBacked ==
    Leased =>
        /\ ~faulted
        /\ conn[lease.conn] # "absent"
        /\ Uid[lease.conn] \in policies
        /\ "control" \in Permission[Uid[lease.conn]]
        /\ sessions[lease.session].state = "open"
        /\ sessions[lease.session].uid = Uid[lease.conn]
        /\ lease.conn \in sessions[lease.session].conns

\* A session is kept by present connections of its own account only, and an open one is on
\* its retention countdown exactly when nobody is left: none leaks, none dies under a user
\* (core.rs bound, disconnect).
RetentionMatchesUse ==
    \A s \in Sids :
        /\ \A c \in sessions[s].conns : conn[c] # "absent" /\ Uid[c] = sessions[s].uid
        /\ sessions[s].state = "open" =>
              (sessions[s].conns = {} <=> sessions[s].retain # NoTimer)
        /\ sessions[s].state = "closed" => sessions[s].retain # NoTimer

\* A remembered session.open names a session the worker still knows: a retry is never told
\* of one that has been forgotten (core.rs process cache against maintain, revoke_uid).
OpenReplayNamesSession ==
    \A k \in Keys : cache[k].op = "open" /\ cache[k].session # None =>
        /\ sessions[cache[k].session].state # "absent"
        /\ sessions[cache[k].session].uid = k[1]

\* What makes it inductive: a retained session is forgotten no earlier than the result.
Names(k, s) ==
    /\ sessions[s].state # "absent" /\ sessions[s].uid = k[1]
    /\ sessions[s].retain # NoTimer => cache[k].ttl <= sessions[s].retain
OpenReplayInv ==
    \A k \in Keys : cache[k].op = "open" /\ cache[k].session # None => Names(k, cache[k].session)

\* While an injection or a resize is with the backend the lease it was admitted under is in
\* place: expiry, cancellation and other clients wait for it (core.rs guard; server.rs lock).
InjectionIsCovered ==
    work.phase \in {"input", "resize"} =>
        /\ lease.conn = work.conn /\ lease.session = work.session
        /\ ~faulted /\ Uid[work.conn] \in policies
        /\ sessions[work.session].state = "open"

\* Whoever is being served is still connected: its handler disconnects after the reply.
ServedIsPresent == work # Idle => conn[work.conn] # "absent"

\* Together these are inductive: expiry needs RetentionMatchesUse to leave a leased session
\* alone, the release paths need LeaseIsBacked, and a finishing request InjectionIsCovered.
SafetyInv ==
    /\ HeldInputIsOwned /\ LeaseIsBacked /\ RetentionMatchesUse
    /\ InjectionIsCovered /\ ServedIsPresent

\* The worker keeps the control contract.
Contract == INSTANCE ControlContract
              WITH Client <- Conns, Nobody <- None,
                   owner <- lease.conn, dirty <- held, locked <- faulted
ControlIsKept == Contract!Spec

\* "A failed release faults control closed" (device/core/README.md), whoever asked for it.
FailedReleaseFaults == lastRelease = "failed" => faulted

(* Liveness *)

\* A lease nobody renews ends, whatever its holder and the other clients do: its input is
\* let go with it, by HeldInputIsOwned (core.rs maintain).
ExpiredLeaseEnds == Leased /\ lease.ttl = 0 ~> ~Leased

\* A session its last connection has left is forgotten unless somebody comes back to it or
\* closes it (core.rs disconnect, maintain).
Abandoned(s) == sessions[s].state = "open" /\ sessions[s].conns = {}
AbandonedSessionEnds ==
    \A s \in Sids : Abandoned(s) ~> ~Abandoned(s)
=============================================================================
