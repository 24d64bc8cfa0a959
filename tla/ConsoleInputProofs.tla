------------------------- MODULE ConsoleInputProofs -------------------------
(* What ConsoleInput's safety run checks, proved for any number of peers and  *)
(* codes, and any length of the lease and of its cap.                         *)
EXTENDS ConsoleInput, TLAPS

\* What every way of releasing the device does to it, by type.
LEMMA ResetType ==
    ASSUME TypeOK, NEW left \in SUBSET keys, Reset(left)
    PROVE  keys' \in SUBSET Codes /\ down' \in SUBSET Codes
BY DEF Reset, TypeOK

LEMMA ReleaseOwnedType ==
    ASSUME TypeOK, NEW p \in Peers, ReleaseOwned(p)
    PROVE  /\ owner' \in Peers \cup {None}
           /\ keys' \in SUBSET Codes /\ down' \in SUBSET Codes
           /\ stop' \in BOOLEAN
<1>1. CASE owner # p
  BY <1>1 DEF ReleaseOwned, device, TypeOK
<1>2. CASE owner = p
  BY <1>2, ResetType DEF ReleaseOwned, TypeOK
<1>3. QED
  BY <1>1, <1>2

LEMMA NextType == TypeOK /\ [Next]_vars => TypeOK'
<1> SUFFICES ASSUME TypeOK, [Next]_vars PROVE TypeOK'
  OBVIOUS
<1> USE DEF Phases
<1>1. ASSUME NEW p \in Peers, Connect(p) \/ Leave(p) \/ Claim(p) \/ Renew(p) PROVE TypeOK'
  BY <1>1 DEF Connect, Leave, Claim, Renew, Goto, device, TypeOK
<1>2. ASSUME NEW p \in Peers, ReadGuard(p) PROVE TypeOK'
  <2>1. LeaseTicks \in 0..LeaseTicks /\ CapTicks \in 0..CapTicks /\ 0 \in 0..CapTicks
    BY ConsoleAssumption
  <2>2. ttl' \in [Peers -> 0..LeaseTicks] /\ cap' \in [Peers -> 0..CapTicks]
    BY <1>2, <2>1 DEF ReadGuard, TypeOK
  <2>3. QED
    BY <1>2, <2>2 DEF ReadGuard, Goto, device, TypeOK
<1>3. ASSUME NEW p \in Peers, Admit(p) PROVE TypeOK'
  <2>1. Renewed(p) \in 0..LeaseTicks
    BY ConsoleAssumption DEF Renewed, TypeOK
  <2>2. ttl' \in [Peers -> 0..LeaseTicks]
    BY <1>3, <2>1 DEF Admit, TypeOK
  <2>3. QED
    BY <1>3, <2>2 DEF Admit, Goto, device, TypeOK
<1>4. ASSUME NEW p \in Peers, NEW from \in Phases, NEW next \in Phases, Reply(p, from, next)
      PROVE TypeOK'
  BY <1>4 DEF Reply, Goto, device, TypeOK
<1>5. ASSUME NEW p \in Peers, Execute(p) PROVE TypeOK'
  <2>1. keys' \in SUBSET Codes /\ down' \in SUBSET Codes
    <3>1. CASE UNCHANGED device
      BY <3>1 DEF device, TypeOK
    <3>2. CASE \E code \in Codes, to \in BOOLEAN : Put(code, to, TRUE) \/ Put(code, to, FALSE)
      BY <3>2 DEF Put, Change, TypeOK
    <3>3. CASE \E left \in SUBSET keys : Reset(left)
      BY <3>3, ResetType
    <3>4. QED
      BY <1>5, <3>1, <3>2, <3>3 DEF Execute
  <2>2. \E next \in Phases : Goto(p, next)
    BY <1>5 DEF Execute
  <2>3. QED
    BY <1>5, <2>1, <2>2 DEF Execute, Goto, TypeOK
<1>6. ASSUME NEW p \in Peers, ReleaseControl(p) PROVE TypeOK'
  BY <1>6, ResetType DEF ReleaseControl, Goto, TypeOK
<1>7. ASSUME NEW p \in Peers, Revoke(p) \/ StopSeen(p) \/ Close(p) PROVE TypeOK'
  <2>1. ReleaseOwned(p) /\ UNCHANGED <<ttl, cap, daemon, probe>>
    BY <1>7 DEF Revoke, StopSeen, Close
  <2>2. \E next \in Phases : Goto(p, next)
    BY <1>7 DEF Revoke, StopSeen, Close
  <2>3. QED
    BY <2>1, <2>2, ReleaseOwnedType DEF Goto, TypeOK
<1>8. CASE Tick
  <2>1. \A n \in Nat : \A t \in 0..n : (IF t > 0 THEN t - 1 ELSE 0) \in 0..n
    OBVIOUS
  <2>2. ttl' \in [Peers -> 0..LeaseTicks] /\ cap' \in [Peers -> 0..CapTicks]
    BY <1>8, <2>1, ConsoleAssumption DEF Tick, TypeOK
  <2>3. QED
    BY <1>8, <2>2 DEF Tick, device, TypeOK
<1>9. CASE Signal \/ Drain \/ Exit
  BY <1>9 DEF Signal, Drain, Exit, device, TypeOK
<1>10. CASE UNCHANGED vars
  BY <1>10 DEF vars, TypeOK
<1>11. QED
  BY <1>1, <1>2, <1>3, <1>4, <1>5, <1>6, <1>7, <1>8, <1>9, <1>10
     DEF Next, Proceed, Lapse, GuardLost

\* The daemon's state keeps its shape: leases in range, an owner or none (input-daemon.rs).
THEOREM ConsoleTypeCorrect == Spec => []TypeOK
<1>1. Init => TypeOK
  <2> SUFFICES ASSUME Init PROVE TypeOK
    OBVIOUS
  <2>1. 0 \in 0..LeaseTicks /\ 0 \in 0..CapTicks
    BY ConsoleAssumption
  <2>2. ttl \in [Peers -> 0..LeaseTicks] /\ cap \in [Peers -> 0..CapTicks]
    BY <2>1 DEF Init
  <2>3. phase \in [Peers -> Phases]
    BY DEF Init, Phases
  <2>4. QED
    BY <2>2, <2>3 DEF Init, TypeOK
<1>2. QED
  BY <1>1, NextType, PTL DEF Spec

-----------------------------------------------------------------------------
(* What goes with a step on the device                                       *)

\* However many of its codes fail, a reset leaves nothing down that it does not remember.
LEMMA ResetCovers ==
    ASSUME down \subseteq keys, NEW left \in SUBSET keys, Reset(left)
    PROVE  keys' = left /\ down' \subseteq keys'
BY DEF Reset

LEMMA ReleaseOwnedSafe ==
    ASSUME TypeOK, NothingLeftDown, NEW p \in Peers, ReleaseOwned(p)
    PROVE  /\ NothingLeftDown'
           /\ owner # p => owner' = owner
           /\ owner = p => owner' = None \/ (owner' = p /\ stop')
           /\ stop => stop'
           /\ owner = p /\ keys' = {} => owner' = None
<1>1. CASE owner # p
  BY <1>1 DEF ReleaseOwned, NothingLeftDown, device
<1>2. CASE owner = p
  BY <1>2, ResetCovers DEF ReleaseOwned, NothingLeftDown, TypeOK
<1>3. QED
  BY <1>1, <1>2

SafetyInv == ControlMatchesOwner /\ NothingLeftDown

LEMMA SafetyStep == TypeOK /\ SafetyInv /\ [Next]_vars => SafetyInv'
<1> SUFFICES ASSUME TypeOK, SafetyInv, [Next]_vars PROVE SafetyInv'
  OBVIOUS
<1> USE ConsoleAssumption DEF SafetyInv
<1>1. ASSUME UNCHANGED <<owner, keys, down>> PROVE NothingLeftDown'
  BY <1>1 DEF NothingLeftDown
<1>2. ASSUME NEW p \in Peers, NEW next \in Phases, Goto(p, next), UNCHANGED <<owner, stop>>,
             next \in Controlling => owner = p,
             owner = p => next \in Controlling \cup {"closing"} \/ stop
      PROVE ControlMatchesOwner'
  BY <1>2 DEF ControlMatchesOwner, Goto, TypeOK
<1>3. ASSUME NEW p \in Peers, Connect(p) \/ Leave(p) \/ ReadGuard(p) PROVE SafetyInv'
  <2>1. UNCHANGED <<owner, keys, down, stop>>
    BY <1>3 DEF Connect, Leave, ReadGuard, device
  <2>2. \E next \in {"idle", "closing", "claiming"} :
            Goto(p, next) /\ (owner = p => next = "closing" \/ stop)
    BY <1>3 DEF Connect, Leave, ReadGuard, ControlMatchesOwner, Controlling
  <2>3. QED
    BY <1>1, <1>2, <2>1, <2>2 DEF Controlling, Phases
<1>4. ASSUME NEW p \in Peers, Claim(p) PROVE SafetyInv'
  <2>1. CASE owner = None
    <3>1. owner' = p /\ Goto(p, "granted") /\ UNCHANGED <<keys, down, stop>>
      BY <1>4, <2>1 DEF Claim, device
    <3>2. \A q \in Peers : q # p => phase'[q] = phase[q] /\ phase[q] \notin Controlling
      BY <2>1, <3>1 DEF Goto, ControlMatchesOwner, TypeOK
    <3>3. phase'[p] = "granted"
      BY <3>1 DEF Goto, TypeOK
    <3>4. QED
      BY <3>1, <3>2, <3>3 DEF ControlMatchesOwner, NothingLeftDown, Controlling
  <2>2. CASE owner # None
    <3>1. UNCHANGED <<owner, keys, down, stop>>
      BY <1>4, <2>2 DEF Claim, device
    <3>2. \E next \in {"idle", "closing"} :
              Goto(p, next) /\ (owner = p => next = "closing" \/ stop)
      BY <1>4, <2>2 DEF Claim, ControlMatchesOwner, Controlling
    <3>3. QED
      BY <1>1, <1>2, <3>1, <3>2 DEF Controlling, Phases
  <2>3. QED
    BY <2>1, <2>2
<1>5. ASSUME NEW p \in Peers, Admit(p) \/ Renew(p) PROVE SafetyInv'
  <2>1. UNCHANGED <<owner, keys, down, stop>> /\ owner = p
    BY <1>5 DEF Admit, Renew, ControlMatchesOwner, Controlling, device
  <2>2. \E next \in Controlling : Goto(p, next)
    BY <1>5 DEF Admit, Renew, Controlling
  <2>3. QED
    BY <1>1, <1>2, <2>1, <2>2 DEF Controlling, Phases
<1>6. ASSUME NEW p \in Peers,
             \/ Reply(p, "granted", "active") \/ Reply(p, "acking", "active")
             \/ Reply(p, "released", "idle")
      PROVE SafetyInv'
  <2>1. UNCHANGED <<owner, keys, down, stop>>
    BY <1>6 DEF Reply, device
  <2>2. \E next \in {"active", "idle", "closing"} :
            /\ Goto(p, next)
            /\ next = "active" => phase[p] \in Controlling
            /\ next = "idle" => phase[p] = "released"
    BY <1>6 DEF Reply, Controlling
  <2>3. PICK next \in {"active", "idle", "closing"} :
            /\ Goto(p, next)
            /\ next = "active" => phase[p] \in Controlling
            /\ next = "idle" => phase[p] = "released"
    BY <2>2
  <2>4. next \in Controlling => owner = p
    BY <2>3 DEF Controlling, ControlMatchesOwner
  <2>5. owner = p => next \in Controlling \cup {"closing"} \/ stop
    BY <2>3 DEF Controlling, ControlMatchesOwner
  <2>6. QED
    BY <1>1, <1>2, <2>1, <2>3, <2>4, <2>5 DEF Phases
<1>7. ASSUME NEW p \in Peers, Execute(p) PROVE SafetyInv'
  <2>1. UNCHANGED <<owner, stop>> /\ owner = p
    BY <1>7 DEF Execute
  <2>2. \E next \in {"acking", "closing"} : Goto(p, next)
    BY <1>7 DEF Execute
  <2>3. down' \subseteq keys'
    <3>1. CASE UNCHANGED device
      BY <3>1 DEF NothingLeftDown, device
    <3>2. CASE \E code \in Codes, to \in BOOLEAN : Put(code, to, TRUE) \/ Put(code, to, FALSE)
      BY <3>2 DEF Put, Change, NothingLeftDown
    <3>3. CASE \E left \in SUBSET keys : Reset(left)
      BY <3>3, ResetCovers DEF NothingLeftDown
    <3>4. QED
      BY <1>7, <3>1, <3>2, <3>3 DEF Execute
  <2>4. NothingLeftDown'
    BY <2>1, <2>3 DEF NothingLeftDown
  <2>5. QED
    BY <1>2, <2>1, <2>2, <2>4 DEF Controlling, Phases
<1>8. ASSUME NEW p \in Peers, NEW next \in Phases, Goto(p, next), owner = p,
             \/ owner' = None
             \/ owner' = p /\ next = "closing"
             \/ owner' = p /\ stop',
             next \notin Controlling, stop => stop'
      PROVE ControlMatchesOwner'
  <2>1. \A q \in Peers : q # p => phase'[q] = phase[q] /\ phase[q] \notin Controlling
    BY <1>8 DEF Goto, ControlMatchesOwner, TypeOK
  <2>2. phase'[p] = next
    BY <1>8 DEF Goto, TypeOK
  <2>3. QED
    BY <1>8, <2>1, <2>2 DEF ControlMatchesOwner
<1>9. ASSUME NEW p \in Peers, ReleaseControl(p) PROVE SafetyInv'
  <2>1. PICK left \in SUBSET keys :
            /\ Reset(left)
            /\ owner' = IF left = {} THEN None ELSE owner
            /\ Goto(p, IF left = {} THEN "released" ELSE "closing")
    BY <1>9 DEF ReleaseControl
  <2>2. NothingLeftDown'
    BY <1>9, <2>1, ResetCovers DEF ReleaseControl, NothingLeftDown
  <2>3. UNCHANGED stop /\ owner = p
    BY <1>9 DEF ReleaseControl
  <2>4. QED
    BY <1>8, <2>1, <2>2, <2>3 DEF Controlling, Phases
<1>10. ASSUME NEW p \in Peers, Revoke(p) \/ StopSeen(p) \/ Close(p) PROVE SafetyInv'
  <2>1. ReleaseOwned(p)
    BY <1>10 DEF Revoke, StopSeen, Close
  <2>2. \E next \in {"closing", "idle", "absent"} : Goto(p, next)
    BY <1>10 DEF Revoke, StopSeen, Close
  <2>3. CASE owner = p
    BY <1>8, <2>1, <2>2, <2>3, ReleaseOwnedSafe DEF Controlling, Phases
  <2>4. CASE owner # p
    <3>1. UNCHANGED <<owner, stop>>
      BY <2>1, <2>4 DEF ReleaseOwned
    <3>2. QED
      BY <1>2, <2>1, <2>2, <2>4, <3>1, ReleaseOwnedSafe DEF Controlling, Phases
  <2>5. QED
    BY <2>3, <2>4
<1>11. CASE Exit
  BY <1>11 DEF Exit, ControlMatchesOwner, NothingLeftDown, Controlling
<1>12. CASE Tick \/ Signal \/ Drain \/ UNCHANGED vars
  BY <1>12 DEF Tick, Signal, Drain, vars, device, ControlMatchesOwner, NothingLeftDown
<1>13. QED
  BY <1>3, <1>4, <1>5, <1>6, <1>7, <1>9, <1>10, <1>11, <1>12
     DEF Next, Proceed, Lapse, GuardLost

\* The thread's Control and the shared owner agree, and nothing stays down that the device
\* has forgotten or that nobody owns (input-daemon.rs, input_device.rs).
THEOREM ConsoleSafetyHolds == Spec => []SafetyInv
<1>1. Init => SafetyInv
  BY ConsoleAssumption DEF Init, SafetyInv, ControlMatchesOwner, NothingLeftDown, Controlling
<1>2. QED
  BY <1>1, SafetyStep, ConsoleTypeCorrect, PTL DEF Spec

\* Whatever the peers, the guard file and the kernel do, the thread that thinks it has control
\* has the device, and the device is never owned by a thread that forgot it
\* (input-daemon.rs serve, SharedDevice).
THEOREM ControlAlwaysMatchesOwner == Spec => []ControlMatchesOwner
BY ConsoleSafetyHolds, PTL DEF SafetyInv

\* No failure of a write leaves a key or button down that the daemon has forgotten, and none
\* is down while nobody owns the device (input_device.rs key, button, reset).
THEOREM NothingEverLeftDown == Spec => []NothingLeftDown
BY ConsoleSafetyHolds, PTL DEF SafetyInv

-----------------------------------------------------------------------------
(* Unguarded control                                                         *)

LEMMA CapStep == TypeOK /\ LeaseWithinCap /\ [Next]_vars => LeaseWithinCap'
<1> SUFFICES ASSUME TypeOK, LeaseWithinCap, [Next]_vars, probe', NEW q \in Peers,
                    phase'[q] \in Controlling \cup {"claiming"}
             PROVE  ttl'[q] <= cap'[q]
  BY DEF LeaseWithinCap
<1> USE ConsoleAssumption
<1>1. probe
  BY DEF Next, Proceed, Lapse, GuardLost, Connect, Leave, ReadGuard, Claim, Reply, Admit,
         Execute, Renew, ReleaseControl, Revoke, StopSeen, Close, Tick, Signal, Drain, Exit,
         vars
<1>2. ASSUME UNCHANGED <<ttl, cap>>, phase[q] \in Controlling \cup {"claiming"}
      PROVE ttl'[q] <= cap'[q]
  BY <1>1, <1>2 DEF LeaseWithinCap
<1>3. ASSUME NEW p \in Peers, NEW next \in Phases, Goto(p, next), UNCHANGED <<ttl, cap>>,
             next \in Controlling => phase[p] \in Controlling \cup {"claiming"},
             next # "claiming"
      PROVE ttl'[q] <= cap'[q]
  BY <1>1, <1>2, <1>3 DEF Goto, TypeOK, LeaseWithinCap
<1>4. ASSUME NEW p \in Peers, ReadGuard(p) PROVE ttl'[q] <= cap'[q]
  <2>1. CASE q = p
    BY <1>1, <1>4, <2>1 DEF ReadGuard, TypeOK
  <2>2. CASE q # p
    BY <1>1, <1>4, <2>2 DEF ReadGuard, Goto, TypeOK, LeaseWithinCap
  <2>3. QED
    BY <2>1, <2>2
<1>5. ASSUME NEW p \in Peers, Admit(p) PROVE ttl'[q] <= cap'[q]
  <2>1. phase[q] \in Controlling \cup {"claiming"} /\ cap'[q] = cap[q]
    BY <1>5 DEF Admit, Goto, TypeOK, Controlling
  <2>2. ttl'[q] = ttl[q] \/ (q = p /\ ttl'[q] = Renewed(p))
    BY <1>5 DEF Admit, TypeOK
  <2>3. Renewed(p) <= cap[p]
    BY <1>1, <1>5 DEF Renewed, TypeOK
  <2>4. QED
    BY <1>1, <2>1, <2>2, <2>3 DEF LeaseWithinCap
<1>6. ASSUME NEW p \in Peers,
             \/ Connect(p) \/ Leave(p) \/ Claim(p) \/ Execute(p) \/ Renew(p)
             \/ ReleaseControl(p) \/ Revoke(p) \/ StopSeen(p) \/ Close(p)
             \/ Reply(p, "granted", "active") \/ Reply(p, "acking", "active")
             \/ Reply(p, "released", "idle")
      PROVE ttl'[q] <= cap'[q]
  <2>1. UNCHANGED <<ttl, cap>>
    BY <1>6 DEF Connect, Leave, Claim, Execute, Renew, ReleaseControl, Revoke, StopSeen, Close,
                Reply
  <2>2. CASE Claim(p)
    <3>1. PICK next \in {"granted", "idle", "closing"} : Goto(p, next)
      BY <2>2 DEF Claim
    <3>2. QED
      BY <1>3, <2>1, <2>2, <3>1 DEF Claim, Phases
  <2>3. CASE Execute(p) \/ Renew(p) \/ ReleaseControl(p)
    <3>1. phase[p] \in Controlling
      BY <2>3 DEF Execute, Renew, ReleaseControl, Controlling
    <3>2. PICK next \in {"acking", "closing", "released"} : Goto(p, next)
      BY <2>3 DEF Execute, Renew, ReleaseControl
    <3>3. QED
      BY <1>3, <2>1, <3>1, <3>2 DEF Phases
  <2>4. CASE \/ Reply(p, "granted", "active") \/ Reply(p, "acking", "active")
             \/ Reply(p, "released", "idle")
    BY <1>3, <2>1, <2>4 DEF Reply, Phases, Controlling
  <2>5. CASE \/ Connect(p) \/ Leave(p) \/ Revoke(p) \/ StopSeen(p) \/ Close(p)
    <3>1. PICK next \in {"idle", "closing", "absent"} : Goto(p, next)
      BY <2>5 DEF Connect, Leave, Revoke, StopSeen, Close
    <3>2. QED
      BY <1>3, <2>1, <3>1 DEF Phases, Controlling
  <2>6. QED
    BY <1>6, <2>2, <2>3, <2>4, <2>5
<1>7. CASE Tick
  <2>1. phase[q] \in Controlling \cup {"claiming"} /\ ttl[q] <= cap[q]
    BY <1>1, <1>7 DEF Tick, LeaseWithinCap
  <2>2. QED
    BY <1>7, <2>1 DEF Tick, TypeOK
<1>8. CASE Signal \/ Drain \/ Exit \/ UNCHANGED vars
  BY <1>2, <1>8 DEF Signal, Drain, Exit, vars
<1>9. QED
  BY <1>4, <1>5, <1>6, <1>7, <1>8 DEF Next, Proceed, Lapse, GuardLost

\* Without a guard file, control ends by the time fixed when it was granted, whatever the
\* interval of the renewals (next_deadline).
THEOREM LeaseAlwaysWithinCap == Spec => []LeaseWithinCap
<1>1. Init => LeaseWithinCap
  BY DEF Init, LeaseWithinCap, Controlling
<1>2. QED
  BY <1>1, CapStep, ConsoleTypeCorrect, PTL DEF Spec

-----------------------------------------------------------------------------
(* The contract                                                              *)

\* What ReleaseOwned does, seen by the contract.
LEMMA ReleaseOwnedKeeps ==
    ASSUME TypeOK, SafetyInv, NEW p \in Peers, ReleaseOwned(p)
    PROVE  [Contract!Next]_(Contract!vars)
<1>1. CASE owner # p
  BY <1>1 DEF ReleaseOwned, device, Contract!vars
<1>2. CASE owner = p
  <2>1. owner # None /\ (owner' = owner \/ (owner' = None /\ keys' = {}))
    BY <1>2, ConsoleAssumption DEF ReleaseOwned, Reset
  <2>2. owner' = None => down' = {}
    BY <1>2, <2>1, ReleaseOwnedSafe DEF SafetyInv, NothingLeftDown
  <2>3. QED
    BY <2>1, <2>2 DEF Contract!Next, Contract!Use, Contract!Lose
<1>3. QED
  BY <1>1, <1>2

LEMMA StepKeepsContract == TypeOK /\ SafetyInv /\ [Next]_vars => [Contract!Next]_(Contract!vars)
<1> SUFFICES ASSUME TypeOK, SafetyInv, [Next]_vars PROVE [Contract!Next]_(Contract!vars)
  OBVIOUS
<1>1. ASSUME UNCHANGED <<owner, down>> PROVE [Contract!Next]_(Contract!vars)
  BY <1>1 DEF Contract!vars
<1>2. ASSUME NEW p \in Peers,
             \/ Connect(p) \/ Leave(p) \/ ReadGuard(p) \/ Admit(p) \/ Renew(p)
             \/ Reply(p, "granted", "active") \/ Reply(p, "acking", "active")
             \/ Reply(p, "released", "idle")
      PROVE UNCHANGED <<owner, down>>
  BY <1>2 DEF Connect, Leave, ReadGuard, Admit, Renew, Reply, device
<1>3. ASSUME NEW p \in Peers, Claim(p) PROVE [Contract!Next]_(Contract!vars)
  <2>1. CASE owner = None
    <3>1. down = {} /\ down' = down /\ owner' = p
      BY <1>3, <2>1 DEF Claim, device, SafetyInv, NothingLeftDown
    <3>2. QED
      BY <2>1, <3>1 DEF Contract!Next, Contract!Grant
  <2>2. CASE owner # None
    BY <1>1, <1>3, <2>2 DEF Claim, device
  <2>3. QED
    BY <2>1, <2>2
<1>4. ASSUME NEW p \in Peers, Execute(p) PROVE [Contract!Next]_(Contract!vars)
  <2>1. owner # None /\ owner' = owner
    BY <1>4, ConsoleAssumption DEF Execute
  <2>2. QED
    BY <2>1 DEF Contract!Next, Contract!Use
<1>5. ASSUME NEW p \in Peers, ReleaseControl(p) PROVE [Contract!Next]_(Contract!vars)
  <2>1. owner # None /\ (owner' = owner \/ (owner' = None /\ keys' = {}))
    BY <1>5, ConsoleAssumption DEF ReleaseControl, Reset
  <2>2. down' \subseteq keys'
    BY <1>5, ResetCovers DEF ReleaseControl, SafetyInv, NothingLeftDown
  <2>3. QED
    BY <2>1, <2>2 DEF Contract!Next, Contract!Use, Contract!Lose
<1>6. ASSUME NEW p \in Peers, Revoke(p) \/ StopSeen(p) \/ Close(p)
      PROVE [Contract!Next]_(Contract!vars)
  BY <1>6, ReleaseOwnedKeeps DEF Revoke, StopSeen, Close
<1>7. CASE Tick \/ Signal \/ Drain \/ UNCHANGED vars
  BY <1>1, <1>7 DEF Tick, Signal, Drain, vars, device
<1>8. CASE Exit
  <2>1. owner' = None /\ down' = {}
    BY <1>8 DEF Exit
  <2>2. CASE owner = None
    BY <1>1, <2>1, <2>2 DEF SafetyInv, NothingLeftDown
  <2>3. CASE owner # None
    BY <2>1, <2>3 DEF Contract!Next, Contract!Lose
  <2>4. QED
    BY <2>2, <2>3
<1>9. QED
  BY <1>1, <1>2, <1>3, <1>4, <1>5, <1>6, <1>7, <1>8 DEF Next, Proceed, Lapse, GuardLost

\* The console daemon implements the contract of control: one owner at a time, who never
\* starts with keys or buttons of another still down, whatever fails in between.
THEOREM ConsoleControlAlwaysKept == Spec => ControlIsKept
<1>1. Init => Contract!Init
  BY DEF Init, Contract!Init
<1>2. QED
  BY <1>1, StepKeepsContract, ConsoleTypeCorrect, ConsoleSafetyHolds, PTL
     DEF Spec, ControlIsKept, Contract!Spec

-----------------------------------------------------------------------------
(* Who touches the device                                                    *)

LEMMA OwnerStep ==
    ASSUME TypeOK, Next, device' # device
    PROVE  daemon' = "exited" \/ \E p \in Peers : owner = p /\ phase'[p] # phase[p]
<1>1. ASSUME NEW p \in Peers, owner = p, NEW next \in Phases, Goto(p, next), phase[p] # next
      PROVE \E q \in Peers : owner = q /\ phase'[q] # phase[q]
  BY <1>1 DEF Goto, TypeOK
<1>2. ASSUME NEW p \in Peers,
             \/ Connect(p) \/ Leave(p) \/ ReadGuard(p) \/ Admit(p) \/ Renew(p) \/ Claim(p)
             \/ Reply(p, "granted", "active") \/ Reply(p, "acking", "active")
             \/ Reply(p, "released", "idle")
      PROVE device' = device
  BY <1>2 DEF Connect, Leave, ReadGuard, Admit, Renew, Claim, Reply, device
<1>3. ASSUME NEW p \in Peers, Execute(p) \/ ReleaseControl(p)
      PROVE \E q \in Peers : owner = q /\ phase'[q] # phase[q]
  <2>1. owner = p /\ phase[p] = "admitted"
    BY <1>3 DEF Execute, ReleaseControl
  <2>2. \E next \in {"acking", "closing", "released"} : Goto(p, next)
    BY <1>3 DEF Execute, ReleaseControl
  <2>3. QED
    BY <1>1, <2>1, <2>2 DEF Phases
<1>4. ASSUME NEW p \in Peers, Revoke(p) \/ StopSeen(p) \/ Close(p)
      PROVE \E q \in Peers : owner = q /\ phase'[q] # phase[q]
  <2>1. owner = p
    BY <1>4 DEF Revoke, StopSeen, Close, ReleaseOwned, device
  <2>2. PICK next \in Phases : Goto(p, next) /\ phase[p] # next
    BY <1>4 DEF Revoke, StopSeen, Close, Phases
  <2>3. QED
    BY <1>1, <2>1, <2>2
<1>5. CASE Exit
  BY <1>5 DEF Exit
<1>6. CASE Tick \/ Signal \/ Drain
  BY <1>6 DEF Tick, Signal, Drain, device
<1>7. QED
  BY <1>2, <1>3, <1>4, <1>5, <1>6 DEF Next, Proceed, Lapse, GuardLost

\* A peer that was refused, lost control or cleans up late never moves or resets the input
\* of the peer that owns the device now (release_owned).
THEOREM OnlyOwnerEverTouches == Spec => OnlyOwnerTouches
<1>1. TypeOK /\ [Next]_vars =>
        [device' # device =>
          \/ daemon' = "exited"
          \/ \E p \in Peers : owner = p /\ phase'[p] # phase[p]]_vars
  BY OwnerStep DEF vars, device
<1>2. QED
  BY <1>1, ConsoleTypeCorrect, PTL DEF Spec, OnlyOwnerTouches

=============================================================================
