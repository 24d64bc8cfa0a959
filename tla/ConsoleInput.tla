---------------------------- MODULE ConsoleInput ----------------------------
(***************************************************************************)
(* The console input daemon (device/console/src/bin/input-daemon.rs) and   *)
(* its virtual device (device/console/src/input_device.rs).  One thread    *)
(* per connected peer runs serve; the device and its single owner are      *)
(* shared under a mutex that is never held across socket I/O, so a thread  *)
(* may be overtaken between any two of its steps, and the lease that its   *)
(* Control keeps to itself may run out at any moment.                      *)
(*                                                                         *)
(* Framing, coordinates and sequence numbers are left out: a record that   *)
(* fails one of those checks ends the peer, as Leave does.  The guard file *)
(* is a condition that may fail whenever it is read.  Deadlines are        *)
(* countdowns of ticks, 0 once passed.                                     *)
(***************************************************************************)
EXTENDS Integers, FiniteSets

CONSTANTS
    Peers,       \* connections the daemon can serve at once (MAX_PEERS)
    Codes,       \* key and button codes
    LeaseTicks,  \* LEASE_MS, in ticks
    CapTicks,    \* how long control lasts at most when there is no guard file
    None         \* nobody

ASSUME ConsoleAssumption ==
    /\ LeaseTicks \in Nat \ {0}
    /\ CapTicks \in Nat /\ LeaseTicks <= CapTicks
    /\ None \notin Peers

VARIABLES
    phase,   \* where the thread of each peer is in serve
    ttl,     \* Control.deadline of each peer
    cap,     \* Control.end of each peer, when there is no guard file
    owner,   \* SharedDevice.owner
    keys,    \* the codes InputDevice believes may be down
    down,    \* the codes that are down for the kernel
    stop,    \* STOP
    daemon,  \* main: serving, draining its threads, or exited
    probe    \* the daemon runs without a guard file

device == <<keys, down>>
vars == <<phase, ttl, cap, owner, keys, down, stop, daemon, probe>>

Phases == {"absent", "idle", "claiming", "granted", "active", "renewing", "admitted",
           "acking", "released", "closing"}

\* The phases in which the thread holds a Control.
Controlling == {"granted", "active", "renewing", "admitted", "acking"}

TypeOK ==
    /\ phase \in [Peers -> Phases]
    /\ ttl \in [Peers -> 0..LeaseTicks]
    /\ cap \in [Peers -> 0..CapTicks]
    /\ owner \in Peers \cup {None}
    /\ keys \in SUBSET Codes
    /\ down \in SUBSET Codes
    /\ stop \in BOOLEAN
    /\ daemon \in {"serving", "draining", "exited"}
    /\ probe \in BOOLEAN

Init ==
    /\ phase = [p \in Peers |-> "absent"]
    /\ ttl = [p \in Peers |-> 0]
    /\ cap = [p \in Peers |-> 0]
    /\ owner = None
    /\ keys = {} /\ down = {}
    /\ stop = FALSE
    /\ daemon = "serving"
    /\ probe \in BOOLEAN

Goto(p, next) == phase' = [phase EXCEPT ![p] = next]

-----------------------------------------------------------------------------
(* The device *)

Change(set, code, to) == IF to THEN set \cup {code} ELSE set \ {code}

\* Mutation of Put: a press is recorded once the kernel has taken it.
PutThenTrack(code, to, ok) ==
    /\ keys' = IF ok THEN Change(keys, code, to) ELSE keys
    /\ down' \in IF ok THEN {Change(down, code, to)} ELSE {down, Change(down, code, to)}

\* InputDevice::key and button, for a code that changes: a press is recorded before it is
\* sent, a release forgotten after.  A failed write may still have reached the kernel.
Put(code, to, ok) ==
    /\ keys' = IF ok \/ to THEN Change(keys, code, to) ELSE keys
    /\ down' \in IF ok THEN {Change(down, code, to)} ELSE {down, Change(down, code, to)}

\* InputDevice::reset, failing for the codes left: those may be down or up.
Reset(left) ==
    /\ keys' = left
    /\ \E d \in SUBSET (down \cap left) : down' = (down \ keys) \cup d

\* Mutation of ReleaseOwned: whoever leaves resets the device and frees it.
ReleaseAnyone(p) ==
    \E left \in SUBSET keys :
        /\ Reset(left)
        /\ owner' = IF left = {} THEN None ELSE owner
        /\ stop' = (stop \/ left # {})

\* release_owned: nothing for a peer that is not the owner.  A failed reset keeps the
\* owner in place and stops the daemon.
ReleaseOwned(p) ==
    \/ owner # p /\ UNCHANGED <<owner, device, stop>>
    \/ /\ owner = p
       /\ \E left \in SUBSET keys :
             /\ Reset(left)
             /\ owner' = IF left = {} THEN None ELSE owner
             /\ stop' = (stop \/ left # {})

-----------------------------------------------------------------------------
(* A peer's thread *)

\* main accepts a connection.  Its number is new: no owner left behind has it.
Connect(p) ==
    /\ daemon = "serving" /\ phase[p] = "absent" /\ owner # p
    /\ Goto(p, "idle")
    /\ UNCHANGED <<ttl, cap, owner, device, stop, daemon, probe>>

\* The peer hangs up, its record is malformed, stale, out of range or late, or its reply
\* cannot be written: serve returns an error.
Leave(p) ==
    /\ phase[p] \in {"idle", "active"}
    /\ Goto(p, "closing")
    /\ UNCHANGED <<ttl, cap, owner, device, stop, daemon, probe>>

\* An acquire, with the guard file (if any) read and the lease already running.
ReadGuard(p) ==
    /\ phase[p] = "idle" /\ ~stop
    /\ ttl' = [ttl EXCEPT ![p] = LeaseTicks]
    /\ cap' = [cap EXCEPT ![p] = IF probe THEN CapTicks ELSE 0]
    /\ Goto(p, "claiming")
    /\ UNCHANGED <<owner, device, stop, daemon, probe>>

\* SharedDevice::claim.  A refused peer is told so, if it can be.
Claim(p) ==
    /\ phase[p] = "claiming"
    /\ IF owner = None
       THEN owner' = p /\ Goto(p, "granted")
       ELSE owner' = owner /\ \E next \in {"idle", "closing"} : Goto(p, next)
    /\ UNCHANGED <<ttl, cap, device, stop, daemon, probe>>

\* The ready record and the acknowledgements, which cannot be sent after the deadline.
Reply(p, from, next) ==
    /\ phase[p] = from
    /\ \/ ttl[p] > 0 /\ Goto(p, next)
       \/ Goto(p, "closing")
    /\ UNCHANGED <<ttl, cap, owner, device, stop, daemon, probe>>

\* Mutation of Renewed: the end of an unguarded control is not looked at.
RenewedPastCap(p) == LeaseTicks

\* next_deadline of a renew.
Renewed(p) == IF probe /\ cap[p] < LeaseTicks THEN cap[p] ELSE LeaseTicks

\* A record under control, read before STOP and while the control is valid.
Admit(p) ==
    /\ phase[p] = "active" /\ ~stop /\ ttl[p] > 0
    /\ \/ ttl' = [ttl EXCEPT ![p] = Renewed(p)] /\ Goto(p, "renewing")
       \/ ttl' = ttl /\ Goto(p, "admitted")
    /\ UNCHANGED <<cap, owner, device, stop, daemon, probe>>

\* The event, under the mutex.  An event that fails ends the peer.
Execute(p) ==
    /\ phase[p] = "admitted" /\ owner = p
    /\ \/ /\ UNCHANGED device
          /\ \E next \in {"acking", "closing"} : Goto(p, next)
       \/ \E code \in Codes, to \in BOOLEAN :
             /\ (code \in keys) # to
             /\ \/ Put(code, to, TRUE) /\ Goto(p, "acking")
                \/ Put(code, to, FALSE) /\ Goto(p, "closing")
       \/ \E left \in SUBSET keys :
             /\ Reset(left)
             /\ Goto(p, IF left = {} THEN "acking" ELSE "closing")
    /\ UNCHANGED <<ttl, cap, owner, stop, daemon, probe>>

Renew(p) ==
    /\ phase[p] = "renewing" /\ owner = p
    /\ Goto(p, "acking")
    /\ UNCHANGED <<ttl, cap, owner, device, stop, daemon, probe>>

\* A release event: reset and give up control in one critical section.
ReleaseControl(p) ==
    /\ phase[p] = "admitted" /\ owner = p
    /\ \E left \in SUBSET keys :
          /\ Reset(left)
          /\ owner' = IF left = {} THEN None ELSE owner
          /\ Goto(p, IF left = {} THEN "released" ELSE "closing")
    /\ UNCHANGED <<ttl, cap, stop, daemon, probe>>

\* The control is no longer valid: release, then tell the peer, if it can be told.
Revoke(p) ==
    /\ phase[p] = "active"
    /\ ReleaseOwned(p)
    /\ \/ Goto(p, "closing")
       \/ keys' = {} /\ Goto(p, "idle")
    /\ UNCHANGED <<ttl, cap, daemon, probe>>

Lapse(p) == ttl[p] = 0 /\ Revoke(p)

\* The guard file is stale, invalid, or no longer the one control was granted under.
GuardLost(p) == ~probe /\ Revoke(p)

\* Mutation of StopSeen: only a peer in control looks at STOP.
StopSeenActive(p) ==
    /\ phase[p] = "active" /\ stop
    /\ ReleaseOwned(p)
    /\ Goto(p, "closing")
    /\ UNCHANGED <<ttl, cap, daemon, probe>>

StopSeen(p) ==
    /\ phase[p] \in {"idle", "active"} /\ stop
    /\ ReleaseOwned(p)
    /\ Goto(p, "closing")
    /\ UNCHANGED <<ttl, cap, daemon, probe>>

\* Mutation of Close: the thread ends without releasing.
CloseSilently(p) ==
    /\ phase[p] = "closing"
    /\ Goto(p, "absent")
    /\ UNCHANGED <<ttl, cap, owner, device, stop, daemon, probe>>

\* serve has returned: the thread releases whatever the peer still owns.
Close(p) ==
    /\ phase[p] = "closing"
    /\ ReleaseOwned(p)
    /\ Goto(p, "absent")
    /\ UNCHANGED <<ttl, cap, daemon, probe>>

-----------------------------------------------------------------------------
(* The process *)

Tick ==
    /\ ttl' = [p \in Peers |-> IF ttl[p] > 0 THEN ttl[p] - 1 ELSE 0]
    /\ cap' = [p \in Peers |-> IF cap[p] > 0 THEN cap[p] - 1 ELSE 0]
    /\ UNCHANGED <<phase, owner, device, stop, daemon, probe>>

\* SIGTERM or SIGINT, or main cannot accept.
Signal ==
    /\ ~stop /\ stop' = TRUE
    /\ UNCHANGED <<phase, ttl, cap, owner, device, daemon, probe>>

Drain ==
    /\ daemon = "serving" /\ stop
    /\ daemon' = "draining"
    /\ UNCHANGED <<phase, ttl, cap, owner, device, stop, probe>>

\* Every thread is joined.  main resets; whether or not that works, the virtual devices are
\* destroyed with the process and the kernel lets go of their keys.
Exit ==
    /\ daemon = "draining"
    /\ \A p \in Peers : phase[p] = "absent"
    /\ daemon' = "exited"
    /\ owner' = None /\ keys' = {} /\ down' = {}
    /\ UNCHANGED <<phase, ttl, cap, stop, probe>>

\* What a thread does without being asked by its peer.
Proceed(p) ==
    \/ Claim(p) \/ Renew(p) \/ Execute(p) \/ ReleaseControl(p)
    \/ Reply(p, "granted", "active") \/ Reply(p, "acking", "active")
    \/ Reply(p, "released", "idle")
    \/ Lapse(p) \/ StopSeen(p) \/ Close(p)

Next ==
    \/ \E p \in Peers :
          Connect(p) \/ Leave(p) \/ ReadGuard(p) \/ Admit(p) \/ GuardLost(p) \/ Proceed(p)
    \/ Tick \/ Signal \/ Drain \/ Exit

Spec == Init /\ [][Next]_vars

\* Threads are scheduled; every read, write and poll in serve and main is bounded.
Fairness ==
    /\ \A p \in Peers : WF_vars(Proceed(p))
    /\ WF_vars(Drain) /\ WF_vars(Exit)

FairSpec == Spec /\ Fairness

-----------------------------------------------------------------------------
(* Safety *)

\* A thread that believes it has control has the device, and a device that is owned is
\* owned by a thread that will release it, or the daemon is stopping: the Control a thread
\* keeps and the owner under the mutex never disagree (input-daemon.rs serve, SharedDevice).
ControlMatchesOwner ==
    /\ \A p \in Peers : phase[p] \in Controlling => owner = p
    /\ \A p \in Peers : owner = p => phase[p] \in Controlling \cup {"closing"} \/ stop

\* Whatever is down for the kernel is remembered by the device, however writes fail, and
\* nothing is remembered once nobody owns the device (input_device.rs key, button, reset).
NothingLeftDown ==
    /\ down \subseteq keys
    /\ owner = None => keys = {}

\* Without a guard file no renewal carries control past its end, however many there are and
\* however late they run (next_deadline).
LeaseWithinCap ==
    probe => \A p \in Peers : phase[p] \in Controlling \cup {"claiming"} => ttl[p] <= cap[p]

\* Only a step of the owner's own thread, or the end of the process, touches the device: a
\* peer that closes, is refused or cleans up late never resets somebody else's input
\* (contracts/console-input-web.md; release_owned).
OnlyOwnerTouches ==
    [][device' # device =>
          \/ daemon' = "exited"
          \/ \E p \in Peers : owner = p /\ phase'[p] # phase[p]]_vars

\* The daemon keeps the contract of the device worker, and control is never shut: an owner
\* whose input cannot be let go stays the owner.
Contract == INSTANCE ControlContract
              WITH Client <- Peers, Nobody <- None,
                   owner <- owner, dirty <- (down # {}), locked <- FALSE
ControlIsKept == Contract!Spec

\* "Expiry/guard failure resets and emits unavailable, then IDLE"
\* (contracts/console-input-web.md): a lease that runs out does not end the peer.
ExpiryGoesIdle ==
    [][\A p \in Peers : phase[p] = "acking" /\ ttl[p] = 0 => phase'[p] # "closing"]_vars

(* Liveness *)

\* A peer whose lease has run out loses the device, even when its input cannot be let go:
\* then the daemon ends (serve, release_owned, main).
LapsedOwnerLoses == \A p \in Peers : owner = p /\ ttl[p] = 0 ~> owner # p

\* A signalled daemon ends, with nothing down (main).
StopEnds == stop ~> daemon = "exited" /\ down = {}
=============================================================================
