-------------------------- MODULE DeviceCoreProofs --------------------------
(* What DeviceCore's runs check on small instances, proved for any number of *)
(* connections, accounts, sessions and message identifiers.                  *)
EXTENDS DeviceCore, TLAPS

\* The state that the lease's record and Release's callers share keeps its type.
LEMMA ReleaseType ==
    ASSUME TypeOK, NEW h \in BOOLEAN, Release(h)
    PROVE  /\ lease' \in Lease \cup {NoLease}
           /\ faulted' \in BOOLEAN /\ held' \in BOOLEAN
           /\ lastRelease' \in {"done", "failed"}
BY DEF TypeOK, Release, ReleaseAll

LEMMA ReleaseIfType ==
    ASSUME TypeOK, NEW lost \in BOOLEAN, ReleaseIf(lost)
    PROVE  /\ lease' \in Lease \cup {NoLease}
           /\ faulted' \in BOOLEAN /\ held' \in BOOLEAN
           /\ lastRelease' \in {"done", "failed"}
<1>1. CASE lost
  BY <1>1, ReleaseType DEF ReleaseIf, TypeOK
<1>2. CASE ~lost
  BY <1>2 DEF ReleaseIf, TypeOK, control
<1>3. QED
  BY <1>1, <1>2

LEMMA BindType ==
    ASSUME TypeOK, NEW c \in Conns, NEW s \in Sids, Bound(c, s), Bind(c, s)
    PROVE  sessions' \in [Sids -> Session \cup {NoSession}]
<1>1. sessions[s] \in Session
  BY DEF TypeOK, Bound, NoSession
<1>2. NoTimer \in NoTimer..Retention
  BY ConstantsAssumption DEF NoTimer
<1>3. [sessions[s] EXCEPT !.conns = @ \cup {c}, !.retain = NoTimer] \in Session
  BY <1>1, <1>2 DEF Session
<1>4. sessions' = [sessions EXCEPT ![s] =
                     [sessions[s] EXCEPT !.conns = @ \cup {c}, !.retain = NoTimer]]
  BY DEF Bind, TypeOK
<1>5. QED
  BY <1>3, <1>4 DEF TypeOK

LEMMA MaintainedType ==
    ASSUME TypeOK, Maintained
    PROVE  /\ sessions' \in [Sids -> Session \cup {NoSession}]
           /\ lease' \in Lease \cup {NoLease}
           /\ faulted' \in BOOLEAN /\ held' \in BOOLEAN
           /\ lastRelease' \in {"done", "failed"}
           /\ cache' \in [Keys -> Entry \cup {NoEntry}]
<1>1. Lapsed \in BOOLEAN
  BY DEF Lapsed, Leased
<1>2. ReleaseIf(Lapsed)
  BY DEF Maintained
<1>3. QED
  BY <1>1, <1>2, ReleaseIfType DEF Maintained, TypeOK

LEMMA RememberType ==
    ASSUME TypeOK, NEW u \in Uids, NEW s \in Sids \cup {None}, NEW m \in Msgs \cup {None},
           NEW op \in {"open", "close", "resize"}, NEW opened \in Sids \cup {None},
           Remember(u, s, m, op, opened)
    PROVE  cache' \in [Keys -> Entry \cup {NoEntry}]
BY ConstantsAssumption DEF TypeOK, Remember, CacheLife, Keys, Entry

LEMMA TimersType ==
    /\ NoTimer \in NoTimer..Retention /\ Retention \in NoTimer..Retention
    /\ \A t \in NoTimer..Retention : Elapse(t) \in NoTimer..Retention
    /\ \A t \in 0..Retention : Elapse(t) \in 0..Retention
    /\ \A t \in 0..LeaseTicks : Elapse(t) \in 0..LeaseTicks
BY ConstantsAssumption DEF NoTimer, Elapse

-----------------------------------------------------------------------------
LEMMA TickType == TypeOK /\ Tick => TypeOK'
<1> SUFFICES ASSUME TypeOK, Tick PROVE TypeOK'
  OBVIOUS
<1>1. lease' \in Lease \cup {NoLease}
  BY TimersType DEF TypeOK, Tick, Lease, NoLease, Elapse
<1>2. ASSUME NEW s \in Sids
      PROVE [sessions[s] EXCEPT !.retain = Elapse(@)] \in Session \cup {NoSession}
  <2>1. CASE sessions[s] = NoSession
    BY <2>1 DEF NoSession, Elapse, NoTimer
  <2>2. CASE sessions[s] \in Session
    BY <2>2, TimersType DEF Session
  <2>3. QED
    BY <2>1, <2>2 DEF TypeOK
<1>3. ASSUME NEW k \in Keys
      PROVE [cache[k] EXCEPT !.ttl = Elapse(@)] \in Entry \cup {NoEntry}
  <2>1. CASE cache[k] = NoEntry
    BY <2>1 DEF NoEntry, Elapse
  <2>2. CASE cache[k] \in Entry
    BY <2>2, TimersType DEF Entry
  <2>3. QED
    BY <2>1, <2>2 DEF TypeOK
<1>4. QED
  BY <1>1, <1>2, <1>3 DEF TypeOK, Tick

LEMMA DisconnectType ==
    ASSUME TypeOK, NEW c \in Conns, Disconnect(c) PROVE TypeOK'
<1>1. ASSUME NEW s \in Sids PROVE Departed(c, s) \in Session \cup {NoSession}
  <2>1. CASE sessions[s] = NoSession
    <3>1. {} \ {c} = {}
      OBVIOUS
    <3>2. NoSession.state = "absent" /\ NoSession.conns = {} /\ NoSession.retain = NoTimer
      BY DEF NoSession
    <3>3. Departed(c, s) = [NoSession EXCEPT !.conns = {}, !.retain = NoTimer]
      BY <2>1, <3>1, <3>2 DEF Departed
    <3>4. QED
      BY <3>3 DEF NoSession
  <2>2. CASE sessions[s] \in Session
    <3> DEFINE rest == sessions[s].conns \ {c}
               retain == IF rest = {} /\ sessions[s].retain = NoTimer
                            /\ sessions[s].state # "absent"
                         THEN Retention ELSE sessions[s].retain
    <3>1. rest \in SUBSET Conns /\ retain \in NoTimer..Retention
      BY <2>2, TimersType DEF Session
    <3>2. Departed(c, s) = [sessions[s] EXCEPT !.conns = rest, !.retain = retain]
      BY DEF Departed
    <3> HIDE DEF rest, retain
    <3>3. QED
      BY <2>2, <3>1, <3>2 DEF Session
  <2>3. QED
    BY <2>1, <2>2 DEF TypeOK
<1>2. (lease.conn = c) \in BOOLEAN /\ ReleaseIf(lease.conn = c)
  BY DEF Disconnect
<1>3. QED
  BY <1>1, <1>2, ReleaseIfType DEF TypeOK, Disconnect

LEMMA RevokeType ==
    ASSUME TypeOK, NEW u \in Uids, RevokeUid(u) PROVE TypeOK'
<1>1. ReleaseIf(Leased /\ sessions[lease.session].uid = u)
  BY DEF RevokeUid
<1>2. (Leased /\ sessions[lease.session].uid = u) \in BOOLEAN
  BY DEF Leased
<1>3. QED
  BY <1>1, <1>2, ReleaseIfType DEF TypeOK, RevokeUid

LEMMA OpenType ==
    ASSUME TypeOK, NEW c \in Conns, NEW m \in Msgs \cup {None}, OpenSession(c, m)
    PROVE TypeOK'
<1>1. Uid[c] \in Uids
  BY ConstantsAssumption
<1>2. [state |-> "open", uid |-> Uid[c], conns |-> {c}, retain |-> NoTimer] \in Session
  BY <1>1, TimersType DEF Session
<1>3. cache' \in [Keys -> Entry \cup {NoEntry}]
  BY <1>1, RememberType DEF OpenSession
<1>4. sessions' \in [Sids -> Session \cup {NoSession}]
  BY <1>2 DEF OpenSession, TypeOK
<1>5. QED
  BY <1>3, <1>4 DEF TypeOK, OpenSession, control

LEMMA CloseType ==
    ASSUME TypeOK, NEW c \in Conns, NEW s \in Sids, NEW m \in Msgs \cup {None},
           CloseSession(c, s, m)
    PROVE TypeOK'
<1>1. Uid[c] \in Uids
  BY ConstantsAssumption
<1>2. cache' \in [Keys -> Entry \cup {NoEntry}]
  BY <1>1, RememberType DEF CloseSession
<1>3. sessions[s] \in Session
  BY DEF TypeOK, CloseSession, NoSession
<1>4. sessions' \in [Sids -> Session \cup {NoSession}]
  <2> DEFINE who == IF sessions[s].state = "open" THEN sessions[s].conns \cup {c}
                    ELSE sessions[s].conns
             closed == [sessions[s] EXCEPT !.conns = who, !.state = "closed",
                                           !.retain = Retention]
  <2>1. who \in SUBSET Conns
    BY <1>3 DEF Session
  <2>2. closed \in Session
    <3> HIDE DEF who
    <3>1. QED
      BY <1>3, <2>1, TimersType DEF Session
  <2>3. sessions' = [sessions EXCEPT ![s] = closed]
    BY DEF CloseSession, TypeOK
  <2>4. QED
    BY <2>2, <2>3 DEF TypeOK
<1>5. (lease.session = s) \in BOOLEAN /\ ReleaseIf(lease.session = s)
  BY DEF CloseSession
<1>6. QED
  BY <1>2, <1>4, <1>5, ReleaseIfType DEF TypeOK, CloseSession

LEMMA BeginResizeType ==
    ASSUME TypeOK, NEW c \in Conns, NEW s \in Sids, NEW m \in Msgs \cup {None},
           BeginResize(c, s, m)
    PROVE TypeOK'
<1>1. Uid[c] \in Uids
  BY ConstantsAssumption
<1>2. sessions' \in [Sids -> Session \cup {NoSession}]
  BY BindType DEF BeginResize
<1>3. held' \in BOOLEAN /\ lastRelease' \in {"done", "failed"}
  BY DEF BeginResize, ReleaseAll, TypeOK
<1>4. work \in Work
  BY ConstantsAssumption DEF BeginResize, Bound, Serving, Entered, TypeOK, Idle
<1>5. cache' \in [Keys -> Entry \cup {NoEntry}] /\ work' \in Work \cup {Idle}
  <2>1. CASE lastRelease' = "done"
    <3>1. [work EXCEPT !.phase = "resize", !.session = s, !.msg = m] \in Work
      BY <1>4 DEF Work
    <3>2. QED
      BY <2>1, <3>1 DEF BeginResize, TypeOK
  <2>2. CASE lastRelease' # "done"
    BY <1>1, <2>2, RememberType DEF BeginResize
  <2>3. QED
    BY <2>1, <2>2
<1>6. QED
  BY <1>2, <1>3, <1>5 DEF TypeOK, BeginResize

\* Every action keeps the types.
LEMMA NextType == TypeOK /\ [Next]_vars => TypeOK'
<1> SUFFICES ASSUME TypeOK, [Next]_vars PROVE TypeOK'
  OBVIOUS
<1>1. ASSUME NEW c \in Conns, Accept(c) PROVE TypeOK'
  BY <1>1 DEF Accept, TypeOK, control
<1>2. ASSUME NEW c \in Conns, Cancel(c) PROVE TypeOK'
  BY <1>2 DEF Cancel, TypeOK, control
<1>3. ASSUME NEW c \in Conns, Enter(c) PROVE TypeOK'
  <2>1. work' \in Work
    BY <1>3 DEF Enter, Work
  <2>2. QED
    BY <1>3, <2>1, MaintainedType DEF Enter, TypeOK
<1>4. ASSUME NEW c \in Conns, Answer(c) PROVE TypeOK'
  BY <1>4 DEF Answer, TypeOK, control
<1>5. ASSUME NEW c \in Conns, NEW s \in Sids,
             AnswerBound(c, s) \/ Acquire(c, s) \/ Renew(c, s) \/ ReleaseControl(c, s)
             \/ ResetInput(c, s) \/ BeginInput(c, s)
      PROVE TypeOK'
  <2>1. sessions' \in [Sids -> Session \cup {NoSession}]
    BY <1>5, BindType
       DEF AnswerBound, Acquire, Renew, ReleaseControl, ResetInput, BeginInput
  <2>2. CASE AnswerBound(c, s)
    BY <2>1, <2>2 DEF AnswerBound, TypeOK, control
  <2>3. CASE Acquire(c, s)
    <3>1. [conn |-> c, session |-> s, ttl |-> LeaseTicks] \in Lease
      BY ConstantsAssumption DEF Lease
    <3>2. QED
      BY <2>1, <2>3, <3>1 DEF Acquire, TypeOK
  <2>4. CASE Renew(c, s)
    <3>1. lease \in Lease
      BY <2>4, ConstantsAssumption DEF Renew, Guarded, TypeOK, NoLease
    <3>2. LeaseTicks \in 0..LeaseTicks
      BY ConstantsAssumption
    <3>3. QED
      BY <2>1, <2>4, <3>1, <3>2 DEF Renew, TypeOK, Lease
  <2>5. CASE ReleaseControl(c, s)
    <3>1. held \in BOOLEAN /\ Release(held)
      BY <2>5 DEF ReleaseControl, TypeOK
    <3>2. QED
      BY <2>1, <2>5, <3>1, ReleaseType DEF ReleaseControl, TypeOK
  <2>6. CASE ResetInput(c, s)
    BY <2>1, <2>6 DEF ResetInput, ReleaseAll, TypeOK
  <2>7. CASE BeginInput(c, s)
    <3>1. work \in Work
      BY <2>7, ConstantsAssumption DEF BeginInput, Bound, Serving, Entered, TypeOK, Idle
    <3>2. QED
      BY <2>1, <2>7, <3>1 DEF BeginInput, TypeOK, control, Work
  <2>8. QED
    BY <1>5, <2>2, <2>3, <2>4, <2>5, <2>6, <2>7
<1>6. ASSUME NEW c \in Conns, FinishInput(c) PROVE TypeOK'
  <2>1. CASE UNCHANGED <<lease, faulted, lastRelease>> /\ held' \in BOOLEAN
    BY <1>6, <2>1 DEF FinishInput, TypeOK
  <2>2. CASE \E h \in BOOLEAN : Release(h)
    BY <1>6, <2>2, ReleaseType DEF FinishInput, TypeOK
  <2>3. QED
    BY <1>6, <2>1, <2>2 DEF FinishInput
<1>7. ASSUME NEW c \in Conns, NEW s \in Sids, NEW m \in Msgs \cup {None},
             RefuseResize(c, s, m)
      PROVE TypeOK'
  <2>1. Uid[c] \in Uids
    BY ConstantsAssumption
  <2>2. QED
    BY <1>7, <2>1, BindType, RememberType DEF RefuseResize, TypeOK, control
<1>8. ASSUME NEW c \in Conns, FinishResize(c) PROVE TypeOK'
  <2>1. Uid[c] \in Uids
    BY ConstantsAssumption
  <2>2. work.session \in Sids \cup {None} /\ work.msg \in Msgs \cup {None}
    BY DEF TypeOK, Work, Idle
  <2>3. cache' \in [Keys -> Entry \cup {NoEntry}]
    BY <1>8, <2>1, <2>2, RememberType DEF FinishResize
  <2>4. QED
    BY <1>8, <2>3 DEF FinishResize, TypeOK, control
<1>9. CASE Maintain
  BY <1>9, MaintainedType DEF Maintain, TypeOK
<1>10. CASE Tick
  BY <1>10, TickType
<1>11. CASE UNCHANGED vars
  BY <1>11 DEF vars, TypeOK
<1>12. QED
  BY <1>1, <1>2, <1>3, <1>4, <1>5, <1>6, <1>7, <1>8, <1>9, <1>10, <1>11,
     DisconnectType, RevokeType, OpenType, CloseType, BeginResizeType DEF Next, Request

\* The worker's state always has the shape its types say: timers in range, a lease or none,
\* remembered results only of safe requests (core.rs Core).
THEOREM TypeCorrect == Spec => []TypeOK
<1>1. Init => TypeOK
  BY ConstantsAssumption DEF Init, TypeOK
<1>2. QED
  BY <1>1, NextType, PTL DEF Spec

-----------------------------------------------------------------------------
(* The safety invariant.  Each lemma is one action, or the actions that     *)
(* disturb the same conjuncts.                                              *)

LEMMA LeaseShape ==
    ASSUME TypeOK
    PROVE  /\ Leased => lease \in Lease /\ lease.conn \in Conns /\ lease.session \in Sids
           /\ ~Leased => lease = NoLease
           /\ NoLease.conn = None /\ NoLease.session = None
           /\ Idle.conn = None /\ Idle.phase = "idle"
           /\ work # Idle => work \in Work /\ work.conn \in Conns
           /\ None \notin Conns /\ None \notin Sids /\ None \notin Uids
BY ConstantsAssumption DEF TypeOK, Lease, NoLease, Leased, Idle, Work

\* Losing a lease keeps what the invariant says of held input.
LEMMA ReleaseHeld ==
    ASSUME TypeOK, HeldInputIsOwned, NEW lost \in BOOLEAN, ReleaseIf(lost), lost => Leased
    PROVE  /\ HeldInputIsOwned'
           /\ lost => lease' = NoLease
           /\ ~lost => UNCHANGED control
<1>1. CASE lost
  BY <1>1 DEF ReleaseIf, Release, ReleaseAll, HeldInputIsOwned, TypeOK
<1>2. CASE ~lost
  BY <1>2 DEF ReleaseIf, HeldInputIsOwned, control, Leased
<1>3. QED
  BY <1>1, <1>2

LEMMA MaintainedSafe ==
    ASSUME TypeOK, SafetyInv, Maintained, UNCHANGED <<conn, policies>>
    PROVE  HeldInputIsOwned' /\ LeaseIsBacked' /\ RetentionMatchesUse'
<1>1. /\ HeldInputIsOwned'
      /\ Lapsed => lease' = NoLease
      /\ ~Lapsed => UNCHANGED control
  BY ReleaseHeld DEF Maintained, SafetyInv, Lapsed, Leased
<1>2. RetentionMatchesUse'
  BY DEF Maintained, SafetyInv, RetentionMatchesUse, NoSession, NoTimer
<1>3. LeaseIsBacked'
  <2>1. CASE Lapsed
    BY <1>1, <2>1, LeaseShape DEF LeaseIsBacked, Leased
  <2>2. CASE ~Lapsed
    <3>1. Leased => sessions'[lease.session] = sessions[lease.session]
      BY <2>2, LeaseShape DEF Maintained, Lapsed
    <3>2. QED
      BY <1>1, <2>2, <3>1 DEF LeaseIsBacked, Leased, SafetyInv, control
  <2>3. QED
    BY <2>1, <2>2
<1>4. QED
  BY <1>1, <1>2, <1>3

LEMMA TickSafe == TypeOK /\ SafetyInv /\ Tick => SafetyInv'
<1> SUFFICES ASSUME TypeOK, SafetyInv, Tick PROVE SafetyInv'
  OBVIOUS
<1>1. /\ lease'.conn = lease.conn /\ lease'.session = lease.session
  BY DEF Tick, TypeOK, Lease, NoLease
<1>2. ASSUME NEW s \in Sids
      PROVE /\ sessions'[s].state = sessions[s].state /\ sessions'[s].uid = sessions[s].uid
            /\ sessions'[s].conns = sessions[s].conns
            /\ sessions'[s].retain = NoTimer <=> sessions[s].retain = NoTimer
  <2>1. sessions'[s] = [sessions[s] EXCEPT !.retain = Elapse(@)]
    BY DEF Tick
  <2>2. sessions[s] \in Session \/ sessions[s] = NoSession
    BY DEF TypeOK
  <2>3. sessions[s].retain \in NoTimer..Retention
    BY <2>2, TimersType DEF Session, NoSession
  <2>4. Elapse(sessions[s].retain) = NoTimer <=> sessions[s].retain = NoTimer
    BY <2>3, ConstantsAssumption DEF Elapse, NoTimer
  <2>5. QED
    BY <2>1, <2>2, <2>4 DEF Session, NoSession
<1>3. HeldInputIsOwned'
  BY <1>1 DEF Tick, SafetyInv, HeldInputIsOwned, Leased
<1>4. LeaseIsBacked'
  BY <1>1, <1>2, LeaseShape DEF Tick, SafetyInv, LeaseIsBacked, Leased
<1>5. RetentionMatchesUse'
  BY <1>2 DEF Tick, SafetyInv, RetentionMatchesUse
<1>6. InjectionIsCovered' /\ ServedIsPresent'
  BY <1>1, <1>2, LeaseShape
     DEF Tick, SafetyInv, InjectionIsCovered, ServedIsPresent, Leased
<1>7. QED
  BY <1>3, <1>4, <1>5, <1>6 DEF SafetyInv

LEMMA DisconnectSafe ==
    ASSUME TypeOK, SafetyInv, NEW c \in Conns, Disconnect(c)
    PROVE  SafetyInv'
<1>1. /\ HeldInputIsOwned'
      /\ lease.conn = c => lease' = NoLease
      /\ lease.conn # c => UNCHANGED control
  BY ReleaseHeld, LeaseShape DEF Disconnect, SafetyInv, Leased
<1>2. ASSUME NEW s \in Sids
      PROVE /\ sessions'[s].state = sessions[s].state /\ sessions'[s].uid = sessions[s].uid
            /\ sessions'[s].conns = sessions[s].conns \ {c}
            /\ sessions[s].retain # NoTimer => sessions'[s].retain = sessions[s].retain
            /\ sessions[s].retain = NoTimer /\ sessions[s].state = "open" =>
                 (sessions'[s].retain # NoTimer <=> sessions'[s].conns = {})
  <2>1. sessions'[s] = Departed(c, s)
    BY DEF Disconnect
  <2>2. sessions[s] \in Session \/ sessions[s] = NoSession
    BY DEF TypeOK
  <2>3. Retention # NoTimer
    BY ConstantsAssumption DEF NoTimer
  <2>4. QED
    BY <2>1, <2>2, <2>3 DEF Departed, Session, NoSession
<1>3. RetentionMatchesUse'
  BY <1>2 DEF SafetyInv, RetentionMatchesUse, Disconnect, TypeOK
<1>4. LeaseIsBacked'
  BY <1>1, <1>2, LeaseShape
     DEF SafetyInv, LeaseIsBacked, Leased, Disconnect, TypeOK, control
<1>5. InjectionIsCovered' /\ ServedIsPresent'
  BY LeaseShape DEF Disconnect, InjectionIsCovered, ServedIsPresent
<1>6. QED
  BY <1>1, <1>3, <1>4, <1>5 DEF SafetyInv

LEMMA RevokeSafe ==
    ASSUME TypeOK, SafetyInv, NEW u \in Uids, RevokeUid(u)
    PROVE  SafetyInv'
<1>1. /\ HeldInputIsOwned'
      /\ Leased /\ sessions[lease.session].uid = u => lease' = NoLease
      /\ ~(Leased /\ sessions[lease.session].uid = u) => UNCHANGED control
  BY ReleaseHeld DEF RevokeUid, SafetyInv
<1>2. RetentionMatchesUse'
  BY DEF RevokeUid, SafetyInv, RetentionMatchesUse, NoSession
<1>3. LeaseIsBacked'
  <2>1. CASE Leased /\ sessions[lease.session].uid = u
    BY <1>1, <2>1, LeaseShape DEF LeaseIsBacked, Leased
  <2>2. CASE ~Leased
    BY <1>1, <2>2 DEF LeaseIsBacked, Leased, control
  <2>3. CASE Leased /\ sessions[lease.session].uid # u
    <3>1. sessions'[lease.session] = sessions[lease.session]
      BY <2>3, LeaseShape DEF RevokeUid
    <3>2. QED
      BY <1>1, <2>3, <3>1 DEF LeaseIsBacked, Leased, SafetyInv, control, RevokeUid
  <2>4. QED
    BY <2>1, <2>2, <2>3
<1>4. InjectionIsCovered' /\ ServedIsPresent'
  BY LeaseShape DEF RevokeUid, InjectionIsCovered, ServedIsPresent
<1>5. QED
  BY <1>1, <1>2, <1>3, <1>4 DEF SafetyInv

LEMMA CloseSafe ==
    ASSUME TypeOK, SafetyInv, NEW c \in Conns, NEW s \in Sids, NEW m \in Msgs \cup {None},
           CloseSession(c, s, m)
    PROVE  SafetyInv'
<1>1. /\ HeldInputIsOwned'
      /\ lease.session = s => lease' = NoLease
      /\ lease.session # s => UNCHANGED control
  BY ReleaseHeld, LeaseShape DEF CloseSession, SafetyInv, Leased
<1>2. /\ sessions'[s].state = "closed" /\ sessions'[s].uid = sessions[s].uid
      /\ sessions'[s].retain = Retention
      /\ sessions'[s].conns \subseteq sessions[s].conns \cup {c}
  <2>1. sessions[s] \in Session
    BY DEF TypeOK, CloseSession, NoSession
  <2>2. QED
    BY <2>1 DEF CloseSession, TypeOK, Session
<1>3. \A t \in Sids \ {s} : sessions'[t] = sessions[t]
  BY DEF CloseSession, TypeOK
<1>4. RetentionMatchesUse'
  <2>1. Retention # NoTimer
    BY ConstantsAssumption DEF NoTimer
  <2>2. conn[c] # "absent" /\ Uid[c] = sessions[s].uid /\ UNCHANGED conn
    BY DEF CloseSession, Serving
  <2>3. QED
    BY <1>2, <1>3, <2>1, <2>2 DEF SafetyInv, RetentionMatchesUse
<1>5. LeaseIsBacked'
  BY <1>1, <1>3, LeaseShape
     DEF CloseSession, SafetyInv, LeaseIsBacked, Leased, control
<1>6. InjectionIsCovered' /\ ServedIsPresent'
  BY LeaseShape DEF CloseSession, InjectionIsCovered, ServedIsPresent
<1>7. QED
  BY <1>1, <1>4, <1>5, <1>6 DEF SafetyInv

\* Binding connection c to its open session s disturbs nothing else about any session.
LEMMA BindSafe ==
    ASSUME TypeOK, SafetyInv, NEW c \in Conns, NEW s \in Sids, Bound(c, s), Bind(c, s),
           UNCHANGED <<conn, policies>>
    PROVE  /\ RetentionMatchesUse'
           /\ \A t \in Sids : /\ sessions'[t].state = sessions[t].state
                              /\ sessions'[t].uid = sessions[t].uid
                              /\ sessions[t].conns \subseteq sessions'[t].conns
           /\ c \in sessions'[s].conns
<1>1. sessions[s] \in Session
  BY DEF TypeOK, Bound, NoSession
<1>2. /\ sessions'[s].state = sessions[s].state /\ sessions'[s].uid = sessions[s].uid
      /\ sessions'[s].conns = sessions[s].conns \cup {c}
      /\ sessions'[s].retain = NoTimer
  BY <1>1 DEF Bind, TypeOK, Session
<1>3. \A t \in Sids \ {s} : sessions'[t] = sessions[t]
  BY DEF Bind, TypeOK
<1>4. RetentionMatchesUse'
  BY <1>2, <1>3 DEF SafetyInv, RetentionMatchesUse, Bound, Serving
<1>5. QED
  BY <1>2, <1>3, <1>4

\* The requests on a bound session.
LEMMA BoundRequestSafe ==
    ASSUME TypeOK, SafetyInv, NEW c \in Conns, NEW s \in Sids, NEW m \in Msgs \cup {None},
           \/ AnswerBound(c, s) \/ Acquire(c, s) \/ Renew(c, s) \/ ReleaseControl(c, s)
           \/ ResetInput(c, s) \/ BeginInput(c, s) \/ RefuseResize(c, s, m)
           \/ BeginResize(c, s, m)
    PROVE  SafetyInv'
<1> USE DEF AnswerBound, Acquire, Renew, ReleaseControl, ResetInput, BeginInput,
            RefuseResize, BeginResize
<1>1. Bound(c, s) /\ Bind(c, s) /\ UNCHANGED <<conn, policies>>
  OBVIOUS
<1>2. /\ RetentionMatchesUse'
      /\ \A t \in Sids : /\ sessions'[t].state = sessions[t].state
                         /\ sessions'[t].uid = sessions[t].uid
                         /\ sessions[t].conns \subseteq sessions'[t].conns
      /\ c \in sessions'[s].conns
  BY <1>1, BindSafe
<1>3. /\ sessions[s].state = "open" /\ sessions[s].uid = Uid[c]
      /\ conn[c] = "live" /\ Uid[c] \in policies /\ work.conn = c /\ work # Idle
      /\ work \in Work
  BY <1>1, LeaseShape DEF Bound, Serving, Entered
<1>4. ASSUME UNCHANGED control PROVE HeldInputIsOwned' /\ LeaseIsBacked'
  BY <1>1, <1>2, <1>4, LeaseShape
     DEF SafetyInv, HeldInputIsOwned, LeaseIsBacked, Leased, control
<1>5. ASSUME work' = Idle PROVE InjectionIsCovered' /\ ServedIsPresent'
  BY <1>5, LeaseShape DEF InjectionIsCovered, ServedIsPresent
<1>6. CASE AnswerBound(c, s) \/ RefuseResize(c, s, m)
  BY <1>2, <1>4, <1>5, <1>6 DEF SafetyInv
<1>7. CASE Acquire(c, s)
  <2>1. lease' = [conn |-> c, session |-> s, ttl |-> LeaseTicks] /\ UNCHANGED <<faulted, held, lastRelease>>
    BY <1>7
  <2>2. LeaseIsBacked'
    BY <1>1, <1>2, <1>3, <1>7, <2>1 DEF LeaseIsBacked, Leased, Allowed
  <2>3. HeldInputIsOwned'
    BY <2>1, LeaseShape DEF HeldInputIsOwned, Leased
  <2>4. QED
    BY <1>2, <1>5, <1>7, <2>2, <2>3 DEF SafetyInv
<1>8. CASE Renew(c, s)
  <2>1. lease'.conn = lease.conn /\ lease'.session = lease.session
    BY <1>8, LeaseShape DEF Lease, Guarded, Leased
  <2>2. HeldInputIsOwned' /\ LeaseIsBacked'
    BY <1>1, <1>2, <1>8, <2>1, LeaseShape
       DEF SafetyInv, HeldInputIsOwned, LeaseIsBacked, Leased
  <2>3. QED
    BY <1>2, <1>5, <1>8, <2>2 DEF SafetyInv
<1>9. CASE ReleaseControl(c, s)
  <2>1. Leased /\ ReleaseIf(TRUE)
    BY <1>9, LeaseShape DEF Guarded, Leased, ReleaseIf
  <2>2. HeldInputIsOwned' /\ lease' = NoLease
    BY <2>1, ReleaseHeld DEF SafetyInv
  <2>3. LeaseIsBacked'
    BY <2>2, LeaseShape DEF LeaseIsBacked, Leased
  <2>4. QED
    BY <1>2, <1>5, <1>9, <2>2, <2>3 DEF SafetyInv
<1>10. CASE ResetInput(c, s)
  <2>1. Leased /\ UNCHANGED <<lease, faulted>>
    BY <1>10, LeaseShape DEF Guarded, Leased
  <2>2. HeldInputIsOwned' /\ LeaseIsBacked'
    BY <1>1, <1>2, <2>1, LeaseShape DEF SafetyInv, HeldInputIsOwned, LeaseIsBacked, Leased
  <2>3. QED
    BY <1>2, <1>5, <1>10, <2>2 DEF SafetyInv
<1>11. CASE BeginInput(c, s)
  <2>1. work'.phase = "input" /\ work'.conn = c /\ work'.session = s
    BY <1>3, <1>11 DEF Work
  <2>2. UNCHANGED control /\ lease.conn = c /\ lease.session = s /\ ~faulted
    BY <1>11 DEF Guarded, Allowed
  <2>3. InjectionIsCovered' /\ ServedIsPresent'
    BY <1>1, <1>2, <1>3, <2>1, <2>2 DEF InjectionIsCovered, ServedIsPresent, control
  <2>4. QED
    BY <1>2, <1>4, <2>2, <2>3 DEF SafetyInv
<1>12. CASE BeginResize(c, s, m)
  <2>1. /\ Leased /\ lease.conn = c /\ lease.session = s /\ ~faulted
        /\ UNCHANGED <<lease, faulted>>
    BY <1>12, LeaseShape DEF Guarded, Leased, Allowed
  <2>2. HeldInputIsOwned' /\ LeaseIsBacked'
    BY <1>1, <1>2, <2>1, LeaseShape DEF SafetyInv, HeldInputIsOwned, LeaseIsBacked, Leased
  <2>3. InjectionIsCovered' /\ ServedIsPresent'
    <3>1. CASE lastRelease' = "done"
      <4>1. work'.phase = "resize" /\ work'.conn = c /\ work'.session = s
        BY <1>3, <1>12, <3>1 DEF Work
      <4>2. QED
        BY <1>1, <1>2, <1>3, <2>1, <4>1 DEF InjectionIsCovered, ServedIsPresent
    <3>2. CASE lastRelease' # "done"
      BY <1>5, <1>12, <3>2
    <3>3. QED
      BY <3>1, <3>2
  <2>4. QED
    BY <1>2, <2>2, <2>3 DEF SafetyInv
<1>13. QED
  BY <1>6, <1>7, <1>8, <1>9, <1>10, <1>11, <1>12

LEMMA OpenSafe ==
    ASSUME TypeOK, SafetyInv, NEW c \in Conns, NEW m \in Msgs \cup {None}, OpenSession(c, m)
    PROVE  SafetyInv'
<1>1. \A s \in Sids : sessions'[s] = sessions[s]
         \/ /\ sessions[s] = NoSession /\ conn[c] # "absent"
            /\ sessions'[s] = [state |-> "open", uid |-> Uid[c], conns |-> {c},
                               retain |-> NoTimer]
  BY DEF OpenSession, Unused, Serving, TypeOK
<1>2. RetentionMatchesUse'
  BY <1>1 DEF OpenSession, SafetyInv, RetentionMatchesUse
<1>3. LeaseIsBacked' /\ HeldInputIsOwned'
  <2>1. Leased => sessions'[lease.session] = sessions[lease.session]
    BY <1>1, LeaseShape DEF SafetyInv, LeaseIsBacked, NoSession
  <2>2. QED
    BY <2>1 DEF OpenSession, SafetyInv, LeaseIsBacked, HeldInputIsOwned, Leased, control
<1>4. InjectionIsCovered' /\ ServedIsPresent'
  BY LeaseShape DEF OpenSession, InjectionIsCovered, ServedIsPresent
<1>5. QED
  BY <1>2, <1>3, <1>4 DEF SafetyInv

LEMMA FinishInputSafe ==
    ASSUME TypeOK, SafetyInv, NEW c \in Conns, FinishInput(c)
    PROVE  SafetyInv'
<1>1. Leased /\ ~faulted
  BY LeaseShape DEF FinishInput, SafetyInv, InjectionIsCovered, Leased
<1>2. HeldInputIsOwned' /\ LeaseIsBacked'
  <2>1. CASE UNCHANGED <<lease, faulted, lastRelease>>
    BY <1>1, <2>1 DEF FinishInput, SafetyInv, HeldInputIsOwned, LeaseIsBacked, Leased
  <2>2. CASE \E h \in BOOLEAN : Release(h)
    BY <2>2, LeaseShape DEF Release, ReleaseAll, HeldInputIsOwned, LeaseIsBacked, Leased
  <2>3. QED
    BY <2>1, <2>2 DEF FinishInput
<1>3. RetentionMatchesUse' /\ InjectionIsCovered' /\ ServedIsPresent'
  BY LeaseShape
     DEF FinishInput, SafetyInv, RetentionMatchesUse, InjectionIsCovered, ServedIsPresent
<1>4. QED
  BY <1>2, <1>3 DEF SafetyInv

LEMMA SafetyStep == TypeOK /\ SafetyInv /\ [Next]_vars => SafetyInv'
<1> SUFFICES ASSUME TypeOK, SafetyInv, [Next]_vars PROVE SafetyInv'
  OBVIOUS
<1> USE DEF SafetyInv, HeldInputIsOwned, LeaseIsBacked, RetentionMatchesUse,
            InjectionIsCovered, ServedIsPresent
<1>1. ASSUME NEW c \in Conns, Accept(c) PROVE SafetyInv'
  BY <1>1, LeaseShape DEF Accept, TypeOK, control, Leased
<1>2. ASSUME NEW c \in Conns, Cancel(c) PROVE SafetyInv'
  BY <1>2, LeaseShape DEF Cancel, TypeOK, control, Leased
<1>3. ASSUME NEW c \in Conns, Enter(c) PROVE SafetyInv'
  <2>1. HeldInputIsOwned' /\ LeaseIsBacked' /\ RetentionMatchesUse'
    BY <1>3, MaintainedSafe DEF Enter
  <2>2. InjectionIsCovered' /\ ServedIsPresent'
    BY <1>3 DEF Enter
  <2>3. QED
    BY <2>1, <2>2
<1>4. ASSUME NEW c \in Conns, Answer(c) PROVE SafetyInv'
  BY <1>4, LeaseShape DEF Answer, control, Leased
<1>5. ASSUME NEW c \in Conns, FinishResize(c) PROVE SafetyInv'
  BY <1>5, LeaseShape DEF FinishResize, control, Leased
<1>6. CASE Maintain
  <2>1. HeldInputIsOwned' /\ LeaseIsBacked' /\ RetentionMatchesUse'
    BY <1>6, MaintainedSafe DEF Maintain
  <2>2. InjectionIsCovered' /\ ServedIsPresent'
    BY <1>6, LeaseShape DEF Maintain
  <2>3. QED
    BY <2>1, <2>2
<1>7. CASE UNCHANGED vars
  BY <1>7 DEF vars, Leased
<1>8. QED
  <2> USE DEF Next, Request
  <2>1. None \in Msgs \cup {None}
    OBVIOUS
  <2>2. QED
    BY <1>1, <1>2, <1>3, <1>4, <1>5, <1>6, <1>7, <2>1, TickSafe, DisconnectSafe, RevokeSafe,
       CloseSafe, BoundRequestSafe, OpenSafe, FinishInputSafe

\* Ownership of held input, backing of the lease, retention of sessions and cover of
\* in-flight injections, together (core.rs).
THEOREM SafetyHolds == Spec => []SafetyInv
<1>1. Init => SafetyInv
  BY ConstantsAssumption
     DEF Init, SafetyInv, HeldInputIsOwned, LeaseIsBacked, RetentionMatchesUse,
         InjectionIsCovered, ServedIsPresent, Leased, NoLease, NoSession, Idle
<1>2. QED
  BY <1>1, SafetyStep, TypeCorrect, PTL DEF Spec

\* No key or button stays down after its lease, unless control is shut (core.rs release).
THEOREM HeldInputAlwaysOwned == Spec => []HeldInputIsOwned
BY SafetyHolds, PTL DEF SafetyInv

\* The lease is always that of a connected, authorised and bound holder (core.rs disconnect,
\* revoke_uid, session.close, maintain).
THEOREM LeaseAlwaysBacked == Spec => []LeaseIsBacked
BY SafetyHolds, PTL DEF SafetyInv

\* No session is kept for nobody, none counts down under a user (core.rs bound, disconnect).
THEOREM RetentionAlwaysMatchesUse == Spec => []RetentionMatchesUse
BY SafetyHolds, PTL DEF SafetyInv

\* An injection or resize in flight keeps the lease it was admitted under (core.rs guard).
THEOREM InjectionAlwaysCovered == Spec => []InjectionIsCovered
BY SafetyHolds, PTL DEF SafetyInv

-----------------------------------------------------------------------------
(* Refinement: every step of the worker is a step of the control contract,  *)
(* or leaves owner, held input and fault alone.                             *)

LEMMA ReleaseIsLose ==
    ASSUME TypeOK, NEW h \in BOOLEAN, Release(h), Leased PROVE Contract!Lose
BY LeaseShape DEF Contract!Lose, Release, ReleaseAll, TypeOK, Leased

LEMMA ReleaseIfContract ==
    ASSUME TypeOK, NEW lost \in BOOLEAN, ReleaseIf(lost), lost => Leased
    PROVE  [Contract!Next]_Contract!vars
<1>1. CASE lost
  BY <1>1, ReleaseIsLose DEF ReleaseIf, TypeOK, Contract!Next
<1>2. CASE ~lost
  BY <1>2 DEF ReleaseIf, control, Contract!vars
<1>3. QED
  BY <1>1, <1>2

LEMMA ContractStep ==
    TypeOK /\ SafetyInv /\ [Next]_vars => [Contract!Next]_Contract!vars
<1> SUFFICES ASSUME TypeOK, SafetyInv, [Next]_vars PROVE [Contract!Next]_Contract!vars
  OBVIOUS
<1> USE DEF SafetyInv
<1>1. ASSUME UNCHANGED control PROVE [Contract!Next]_Contract!vars
  BY <1>1 DEF control, Contract!vars
<1>2. ASSUME NEW lost \in BOOLEAN, ReleaseIf(lost), lost => Leased
      PROVE [Contract!Next]_Contract!vars
  BY <1>2, ReleaseIfContract
<1>3. ASSUME NEW c \in Conns, Disconnect(c) PROVE [Contract!Next]_Contract!vars
  BY <1>2, <1>3, LeaseShape DEF Disconnect, Leased
<1>4. ASSUME NEW u \in Uids, RevokeUid(u) PROVE [Contract!Next]_Contract!vars
  BY <1>2, <1>4 DEF RevokeUid
<1>5. ASSUME Maintained PROVE [Contract!Next]_Contract!vars
  BY <1>2, <1>5 DEF Maintained, Lapsed, Leased
<1>6. ASSUME NEW c \in Conns, NEW s \in Sids, NEW m \in Msgs \cup {None}, CloseSession(c, s, m)
      PROVE [Contract!Next]_Contract!vars
  BY <1>2, <1>6, LeaseShape DEF CloseSession, Leased
<1>7. ASSUME NEW c \in Conns, NEW s \in Sids, Acquire(c, s) PROVE [Contract!Next]_Contract!vars
  <2>1. lease.conn = None /\ lease'.conn = c /\ ~faulted /\ UNCHANGED <<held, faulted>>
    BY <1>7 DEF Acquire, Allowed, Leased
  <2>2. ~held
    BY <2>1 DEF HeldInputIsOwned, Leased
  <2>3. Contract!Grant(c)
    BY <2>1, <2>2, LeaseShape DEF Contract!Grant, TypeOK
  <2>4. QED
    BY <2>3 DEF Contract!Next
<1>8. ASSUME NEW c \in Conns, NEW s \in Sids, Renew(c, s) PROVE [Contract!Next]_Contract!vars
  <2>1. lease'.conn = lease.conn
    BY <1>8, LeaseShape DEF Renew, Guarded, Leased, Lease
  <2>2. QED
    BY <1>8, <2>1 DEF Renew, Contract!vars
<1>9. ASSUME NEW c \in Conns, NEW s \in Sids, ReleaseControl(c, s)
      PROVE [Contract!Next]_Contract!vars
  <2>1. Leased /\ ReleaseIf(TRUE)
    BY <1>9, LeaseShape DEF ReleaseControl, Guarded, Leased, ReleaseIf
  <2>2. QED
    BY <1>2, <2>1
<1>10. ASSUME Leased, ~faulted, UNCHANGED <<lease, faulted>>, held' \in BOOLEAN
       PROVE [Contract!Next]_Contract!vars
  BY <1>10 DEF Leased, Contract!Use, Contract!Next
<1>11. ASSUME NEW c \in Conns, NEW s \in Sids, NEW m \in Msgs \cup {None},
              ResetInput(c, s) \/ BeginResize(c, s, m)
       PROVE [Contract!Next]_Contract!vars
  BY <1>10, <1>11, LeaseShape
     DEF ResetInput, BeginResize, Guarded, Allowed, ReleaseAll, TypeOK, Leased
<1>12. ASSUME NEW c \in Conns, FinishInput(c) PROVE [Contract!Next]_Contract!vars
  <2>1. Leased /\ ~faulted
    BY <1>12, LeaseShape DEF FinishInput, InjectionIsCovered, Leased
  <2>2. CASE \E h \in BOOLEAN : Release(h)
    BY <2>1, <2>2, ReleaseIsLose DEF Contract!Next
  <2>3. CASE held' \in BOOLEAN /\ UNCHANGED <<lease, faulted, lastRelease>>
    BY <1>10, <2>1, <2>3
  <2>4. QED
    BY <1>12, <2>2, <2>3 DEF FinishInput
<1>13. ASSUME Tick PROVE [Contract!Next]_Contract!vars
  <2>1. lease'.conn = lease.conn
    BY <1>13 DEF Tick, TypeOK, Lease, NoLease
  <2>2. QED
    BY <1>13, <2>1 DEF Tick, Contract!vars
<1>14. CASE UNCHANGED vars
  BY <1>14 DEF vars, Contract!vars
<1>15. ASSUME NEW c \in Conns, Request(c) PROVE [Contract!Next]_Contract!vars
  <2>1. None \in Msgs \cup {None}
    OBVIOUS
  <2>2. CASE Enter(c)
    BY <1>5, <2>2 DEF Enter
  <2>3. CASE \/ Answer(c) \/ FinishResize(c)
             \/ \E m \in Msgs \cup {None} : OpenSession(c, m)
    BY <1>1, <2>3 DEF Answer, FinishResize, OpenSession
  <2>4. CASE \E s \in Sids, m \in Msgs \cup {None} :
                CloseSession(c, s, m) \/ RefuseResize(c, s, m) \/ BeginResize(c, s, m)
    BY <1>1, <1>6, <1>11, <2>4 DEF RefuseResize
  <2>5. CASE \E s \in Sids :
                \/ AnswerBound(c, s) \/ Acquire(c, s) \/ Renew(c, s)
                \/ ReleaseControl(c, s) \/ ResetInput(c, s) \/ BeginInput(c, s)
    BY <1>1, <1>7, <1>8, <1>9, <1>11, <2>1, <2>5 DEF AnswerBound, BeginInput
  <2>6. CASE FinishInput(c)
    BY <1>12, <2>6
  <2>7. QED
    BY <1>15, <2>2, <2>3, <2>4, <2>5, <2>6 DEF Request
<1>16. QED
  <2>1. CASE \E c \in Conns : Accept(c) \/ Cancel(c)
    BY <1>1, <2>1 DEF Accept, Cancel
  <2>2. QED
    BY <1>3, <1>4, <1>5, <1>13, <1>14, <1>15, <2>1 DEF Next, Maintain

\* The worker implements the control contract: one owner at a time, who starts clean
\* (core.rs, all of the lease handling).
THEOREM ControlAlwaysKept == Spec => ControlIsKept
<1>1. Init => Contract!Init
  BY DEF Init, Contract!Init, NoLease
<1>2. QED
  BY <1>1, ContractStep, TypeCorrect, SafetyHolds, PTL DEF Spec, ControlIsKept, Contract!Spec

-----------------------------------------------------------------------------
(* Remembered results against retained sessions                              *)

LEMMA EntryShape ==
    ASSUME TypeOK, NEW k \in Keys
    PROVE  /\ k[1] \in Uids
           /\ cache[k].op # "none" => cache[k] \in Entry
           /\ cache[k].op = "open" /\ cache[k].session # None =>
                 cache[k].session \in Sids /\ cache[k].ttl \in 0..Retention
           /\ NoEntry.op = "none" /\ NoEntry.session = None
BY DEF TypeOK, Keys, Entry, NoEntry

\* Sessions that keep account and presence, and whose countdown starts anew or does not
\* move, keep every remembered open.
LEMMA SameNames ==
    ASSUME TypeOK, OpenReplayInv, NEW k \in Keys,
           cache'[k] = cache[k] \/ cache'[k].op # "open" \/ cache'[k].session = None,
           \A s \in Sids : sessions[s].state # "absent" =>
              /\ sessions'[s].state # "absent" /\ sessions'[s].uid = sessions[s].uid
              /\ sessions'[s].retain \in {sessions[s].retain, NoTimer, Retention}
    PROVE  cache'[k].op = "open" /\ cache'[k].session # None => Names(k, cache[k].session)'
<1> SUFFICES ASSUME cache'[k].op = "open", cache'[k].session # None
             PROVE  Names(k, cache[k].session)'
  OBVIOUS
<1> DEFINE s == cache[k].session
<1>1. cache'[k] = cache[k] /\ s \in Sids /\ cache[k].ttl \in 0..Retention
  BY EntryShape
<1>2. Names(k, s)
  BY <1>1 DEF OpenReplayInv
<1>3. cache[k].ttl <= Retention
  BY <1>1, ConstantsAssumption
<1>4. QED
  BY <1>1, <1>2, <1>3 DEF Names

LEMMA RememberNames ==
    ASSUME TypeOK, NEW u \in Uids, NEW s \in Sids \cup {None}, NEW m \in Msgs \cup {None},
           NEW op \in {"open", "close", "resize"}, NEW opened \in Sids \cup {None},
           Remember(u, s, m, op, opened), NEW k \in Keys
    PROVE  \/ cache'[k] = cache[k]
           \/ /\ k = <<u, s, m>>
              /\ cache'[k].op = op /\ cache'[k].session = opened
              /\ cache'[k].ttl = Retention
BY DEF Remember, TypeOK, CacheLife

LEMMA OpenReplayStep == TypeOK /\ OpenReplayInv /\ [Next]_vars => OpenReplayInv'
<1> SUFFICES ASSUME TypeOK, OpenReplayInv, [Next]_vars, NEW k \in Keys,
                    cache'[k].op = "open", cache'[k].session # None
             PROVE  Names(k, cache[k].session)'
  BY DEF OpenReplayInv
<1>k. k[1] \in Uids /\ None \in Msgs \cup {None} /\ None \in Sids \cup {None}
      /\ NoEntry.op # "open"
  BY EntryShape DEF NoEntry
<1>u. \A c \in Conns : Uid[c] \in Uids
  BY ConstantsAssumption
<1>1. ASSUME UNCHANGED <<sessions, cache>> PROVE Names(k, cache[k].session)'
  BY <1>1 DEF OpenReplayInv, Names
<1>2. ASSUME Maintained PROVE Names(k, cache[k].session)'
  <2> DEFINE s == cache[k].session
  <2>1. cache'[k] = cache[k] /\ cache[k].ttl # 0
    BY <1>2, <1>k DEF Maintained
  <2>2. s \in Sids /\ cache[k].ttl \in 0..Retention /\ Names(k, s)
    BY <2>1, EntryShape DEF OpenReplayInv
  <2>3. sessions[s].retain # 0
    BY <2>1, <2>2, ConstantsAssumption DEF Names, NoTimer
  <2>4. sessions'[s] = sessions[s]
    BY <1>2, <2>2, <2>3 DEF Maintained
  <2>5. QED
    BY <2>1, <2>2, <2>4 DEF Names
<1>3. ASSUME NEW c \in Conns, Disconnect(c) PROVE Names(k, cache[k].session)'
  <2>1. \A s \in Sids : sessions[s].state # "absent" =>
           /\ sessions'[s].state # "absent" /\ sessions'[s].uid = sessions[s].uid
           /\ sessions'[s].retain \in {sessions[s].retain, NoTimer, Retention}
    <3> SUFFICES ASSUME NEW s \in Sids, sessions[s].state # "absent"
                 PROVE  /\ sessions'[s].state # "absent" /\ sessions'[s].uid = sessions[s].uid
                        /\ sessions'[s].retain \in {sessions[s].retain, NoTimer, Retention}
      OBVIOUS
    <3>1. sessions[s] \in Session /\ sessions'[s] = Departed(c, s)
      BY <1>3 DEF TypeOK, NoSession, Disconnect
    <3>2. QED
      BY <3>1 DEF Departed, Session
  <2>2. QED
    BY <1>3, <2>1, SameNames DEF Disconnect
<1>4. ASSUME NEW u \in Uids, RevokeUid(u) PROVE Names(k, cache[k].session)'
  <2>1. cache'[k] = cache[k] /\ k[1] # u
    BY <1>4, <1>k DEF RevokeUid
  <2>2. cache[k].session \in Sids /\ Names(k, cache[k].session)
    BY <2>1, EntryShape DEF OpenReplayInv
  <2>3. sessions'[cache[k].session] = sessions[cache[k].session]
    BY <1>4, <2>1, <2>2 DEF RevokeUid, Names
  <2>4. QED
    BY <2>1, <2>2, <2>3 DEF Names
<1>5. ASSUME Tick PROVE Names(k, cache[k].session)'
  <2> DEFINE s == cache[k].session
  <2>1. cache'[k] = [cache[k] EXCEPT !.ttl = Elapse(@)]
    BY <1>5 DEF Tick
  <2>2. cache[k] \in Entry /\ cache'[k].op = cache[k].op /\ cache'[k].session = s
        /\ cache'[k].ttl = Elapse(cache[k].ttl)
    BY <2>1 DEF TypeOK, Entry, NoEntry
  <2>3. s \in Sids /\ cache[k].ttl \in 0..Retention /\ Names(k, s)
    BY <2>2, EntryShape DEF OpenReplayInv
  <2>4. sessions[s] \in Session
    BY <2>3 DEF TypeOK, Names, NoSession
  <2>5. /\ sessions'[s].state = sessions[s].state /\ sessions'[s].uid = sessions[s].uid
        /\ sessions'[s].retain = Elapse(sessions[s].retain)
    BY <1>5, <2>3, <2>4 DEF Tick, Session
  <2>6. sessions[s].retain \in NoTimer..Retention
    BY <2>4 DEF Session
  <2>7. Elapse(sessions[s].retain) # NoTimer =>
           Elapse(cache[k].ttl) <= Elapse(sessions[s].retain)
    BY <2>3, <2>6, ConstantsAssumption DEF Elapse, NoTimer, Names
  <2>8. QED
    BY <2>2, <2>3, <2>5, <2>7 DEF Names
<1>6. ASSUME NEW c \in Conns, NEW s \in Sids, Bound(c, s), Bind(c, s),
             cache'[k] = cache[k] \/ cache'[k].op # "open" \/ cache'[k].session = None
      PROVE Names(k, cache[k].session)'
  <2>1. sessions[s] \in Session
    BY <1>6 DEF TypeOK, Bound, NoSession
  <2>2. \A t \in Sids : sessions[t].state # "absent" =>
           /\ sessions'[t].state # "absent" /\ sessions'[t].uid = sessions[t].uid
           /\ sessions'[t].retain \in {sessions[t].retain, NoTimer, Retention}
    BY <1>6, <2>1 DEF Bind, TypeOK, Session
  <2>3. QED
    BY <1>6, <2>2, SameNames
<1>7. ASSUME NEW c \in Conns, NEW s \in Sids, NEW m \in Msgs \cup {None},
             CloseSession(c, s, m)
      PROVE Names(k, cache[k].session)'
  <2>1. sessions[s] \in Session
    BY <1>7 DEF TypeOK, CloseSession, NoSession
  <2>2. \A t \in Sids : sessions[t].state # "absent" =>
           /\ sessions'[t].state # "absent" /\ sessions'[t].uid = sessions[t].uid
           /\ sessions'[t].retain \in {sessions[t].retain, NoTimer, Retention}
    BY <1>7, <2>1 DEF CloseSession, TypeOK, Session
  <2>3. cache'[k] = cache[k] \/ cache'[k].op = "close"
    BY <1>7, <1>u, RememberNames DEF CloseSession
  <2>4. QED
    BY <2>2, <2>3, SameNames
<1>8. ASSUME NEW c \in Conns, NEW s \in Sids, NEW m \in Msgs \cup {None},
             RefuseResize(c, s, m) \/ BeginResize(c, s, m)
      PROVE Names(k, cache[k].session)'
  <2>1. cache'[k] = cache[k] \/ cache'[k].op = "resize"
    BY <1>8, <1>u, RememberNames DEF RefuseResize, BeginResize
  <2>2. QED
    BY <1>6, <1>8, <2>1 DEF RefuseResize, BeginResize
<1>9. ASSUME NEW c \in Conns, NEW m \in Msgs \cup {None}, OpenSession(c, m)
      PROVE Names(k, cache[k].session)'
  <2> DEFINE kept == \A s \in Sids : sessions[s].state # "absent" => sessions'[s] = sessions[s]
  <2>1. CASE UNCHANGED sessions /\ Remember(Uid[c], None, m, "open", None)
    <3>1. cache'[k] = cache[k] \/ cache'[k].session = None
      BY <2>1 DEF Remember, TypeOK
    <3>2. QED
      BY <2>1, <3>1, SameNames
  <2>2. ASSUME NEW s \in Sids, Unused(s),
               sessions' = [sessions EXCEPT ![s] =
                  [state |-> "open", uid |-> Uid[c], conns |-> {c}, retain |-> NoTimer]],
               Remember(Uid[c], None, m, "open", s)
        PROVE  Names(k, cache[k].session)'
    <3>1. CASE cache'[k] = cache[k]
      <4>1. kept
        BY <2>2 DEF Unused, NoSession, TypeOK
      <4>2. QED
        BY <3>1, <4>1, SameNames
    <3>2. CASE k = <<Uid[c], None, m>>
               /\ cache'[k].session = s /\ cache'[k].ttl = Retention
      BY <2>2, <3>2 DEF Names, TypeOK
    <3>3. QED
      BY <2>2, <3>1, <3>2 DEF Remember, TypeOK, CacheLife
  <2>3. QED
    BY <1>9, <2>1, <2>2 DEF OpenSession
<1>10. ASSUME NEW c \in Conns, FinishResize(c) PROVE Names(k, cache[k].session)'
  <2>1. work.session \in Sids \cup {None} /\ work.msg \in Msgs \cup {None}
    BY DEF TypeOK, Work, Idle
  <2>2. cache'[k] = cache[k] \/ cache'[k].op = "resize"
    BY <1>10, <1>u, <2>1, RememberNames DEF FinishResize
  <2>3. QED
    BY <1>10, <2>2, SameNames DEF FinishResize
<1>11. ASSUME NEW c \in Conns, NEW s \in Sids,
              \/ AnswerBound(c, s) \/ Acquire(c, s) \/ Renew(c, s)
              \/ ReleaseControl(c, s) \/ ResetInput(c, s) \/ BeginInput(c, s)
       PROVE Names(k, cache[k].session)'
  BY <1>6, <1>11 DEF AnswerBound, Acquire, Renew, ReleaseControl, ResetInput, BeginInput
<1>12. ASSUME NEW c \in Conns, Accept(c) \/ Cancel(c) \/ Answer(c) \/ FinishInput(c)
       PROVE Names(k, cache[k].session)'
  BY <1>1, <1>12 DEF Accept, Cancel, Answer, FinishInput
<1>13. CASE UNCHANGED vars
  BY <1>1, <1>13 DEF vars
<1>14. CASE Maintain \/ \E c \in Conns : Enter(c)
  BY <1>2, <1>14 DEF Maintain, Enter
<1>15. QED
  BY <1>3, <1>4, <1>5, <1>7, <1>8, <1>9, <1>10, <1>11, <1>12, <1>13, <1>14
     DEF Next, Request

\* A remembered session.open always names a session still known, of the same account
\* (core.rs process against maintain, disconnect and revoke_uid).
THEOREM OpenReplayAlwaysNames == Spec => []OpenReplayNamesSession
<1>1. Init => OpenReplayInv
  BY DEF Init, OpenReplayInv, NoEntry
<1>2. OpenReplayInv => OpenReplayNamesSession
  BY DEF OpenReplayInv, OpenReplayNamesSession, Names
<1>3. QED
  BY <1>1, <1>2, OpenReplayStep, TypeCorrect, PTL DEF Spec
=============================================================================
