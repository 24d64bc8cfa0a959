------------------------------ MODULE Terminal ------------------------------
(***************************************************************************)
(* The terminal backend (device/terminal/src/lib.rs): a shell on a pty, a  *)
(* monitor thread that reads its output into a bounded replay history, and *)
(* callers that attach, read from the sequence they have reached, and may  *)
(* go away and come back.  The mutex serialises them all, but a caller     *)
(* waiting in read has let it go, and the shell waits for nobody.          *)
(*                                                                         *)
(* Outputs are their sequence numbers: one chunk is one unit of the limits *)
(* on entries and on bytes.  Instants are countdowns of ticks, 0 once      *)
(* passed, NoTimer when unset.                                             *)
(***************************************************************************)
EXTENDS Integers

CONSTANTS
    Viewers,      \* callers of the library
    MaxSequence,  \* MAX_SEQUENCE
    Limit,        \* REPLAY_ENTRY_LIMIT and REPLAY_LIMIT, in chunks
    Retention,    \* RETENTION, in ticks
    Backlog,      \* chunks the kernel keeps for the pty
    MaxInput,     \* how many inputs are explored
    MaxResize     \* how many resizes are explored

ASSUME TerminalAssumption ==
    /\ MaxSequence \in Nat \ {0}
    /\ Limit \in Nat \ {0} /\ Retention \in Nat \ {0} /\ Backlog \in Nat
    /\ MaxInput \in 0..MaxSequence /\ MaxResize \in 0..MaxSequence

VARIABLES
    latest,     \* sequence of the last output
    earliest,   \* sequence of the front of the history; latest + 1 when it is empty
    age,        \* how long each output of the history still stays
    delivered,  \* last_delivered
    attached,   \* attached
    retain,     \* detached, as the time that is left
    lastInput,  \* last_input
    lastResize, \* last_resize
    stop,       \* stop
    failed,     \* output_failed
    exit,       \* final_output_sequence of exit, NoExit before
    monitor,    \* the monitor thread: sleeping, checking (it has the mutex), ended
    shell,      \* the child: running, dead, reaped
    master,     \* the master side of the pty is open
    pending,    \* chunks written to the pty and not read yet
    wrote,      \* sequence that the last chunk of the shell gets
    phase,      \* each caller: idle, or waiting in read
    reached,    \* the sequence each caller has got to
    given,      \* outputs each caller was given
    missed,     \* outputs each caller was told it cannot have
    closing     \* close: no, joining the monitor, done

numbers == <<lastInput, lastResize>>
replay == <<latest, earliest, age, delivered, attached, retain>>
pty == <<shell, master, pending, wrote>>
viewers == <<phase, reached, given, missed>>
vars == <<replay, numbers, stop, failed, exit, monitor, pty, viewers, closing>>

Seqs == 1..MaxSequence
NoTimer == -1
NoExit == -1

TypeOK ==
    /\ latest \in 0..MaxSequence /\ delivered \in 0..MaxSequence
    /\ earliest \in 1..MaxSequence + 1
    /\ age \in [Seqs -> 0..Retention]
    /\ attached \in BOOLEAN /\ retain \in NoTimer..Retention
    /\ lastInput \in 0..MaxSequence /\ lastResize \in 0..MaxSequence
    /\ stop \in BOOLEAN /\ failed \in BOOLEAN
    /\ exit \in NoExit..MaxSequence
    /\ monitor \in {"sleeping", "checking", "ended"}
    /\ shell \in {"running", "dead", "reaped"}
    /\ master \in BOOLEAN /\ pending \in Nat /\ wrote \in Nat
    /\ phase \in [Viewers -> {"idle", "waiting"}]
    /\ reached \in [Viewers -> 0..MaxSequence]
    /\ given \in [Viewers -> SUBSET Seqs] /\ missed \in [Viewers -> SUBSET Seqs]
    /\ closing \in {"no", "joining", "done"}

\* create starts attached.
Init ==
    /\ latest = 0 /\ earliest = 1 /\ age = [n \in Seqs |-> 0] /\ delivered = 0
    /\ attached = TRUE /\ retain = NoTimer
    /\ lastInput = 0 /\ lastResize = 0
    /\ stop = FALSE /\ failed = FALSE /\ exit = NoExit
    /\ monitor = "sleeping"
    /\ shell = "running" /\ master = TRUE /\ pending = 0 /\ wrote = 0
    /\ phase = [v \in Viewers |-> "idle"]
    /\ reached = [v \in Viewers |-> 0]
    /\ given = [v \in Viewers |-> {}] /\ missed = [v \in Viewers |-> {}]
    /\ closing = "no"

-----------------------------------------------------------------------------
(* The history *)

Kept(n, a, l) == a[n] > 0 /\ l - n < Limit

\* Pop what is too old or too much off the front of a history that ends at l with ages a.
Evict(a, l) ==
    /\ earliest' \in earliest..l + 1
    /\ \A n \in earliest..earliest' - 1 : ~Kept(n, a, l)
    /\ earliest' <= l => Kept(earliest', a, l)
    /\ age' = [n \in Seqs |-> IF n < earliest' THEN 0 ELSE a[n]]

\* A viewer that has not been given what is evicted is detached.
Lag ==
    IF attached /\ earliest' > delivered + 1
    THEN attached' = FALSE /\ retain' = Retention
    ELSE UNCHANGED <<attached, retain>>

\* expire_history.
Expire(a, l) == Evict(a, l) /\ Lag

\* k more outputs.
Push(k) ==
    /\ latest' = latest + k
    /\ Expire([n \in Seqs |-> IF n > latest /\ n <= latest + k THEN Retention ELSE age[n]],
              latest + k)

\* drain: read all there is; fail at the last sequence number or at a read error.  The code
\* stops after 64 reads of CHUNK_LIMIT bytes, more than the kernel's buffer of a pty holds.
\* What is due is evicted even when nothing is read, as the monitor does next.
Drain ==
    IF ~master
    THEN Expire(age, latest) /\ UNCHANGED <<latest, failed, pending>>
    ELSE \/ /\ latest + pending <= MaxSequence
            /\ Push(pending)
            /\ pending' = 0
            /\ UNCHANGED failed
         \/ \E k \in 0..pending :
               /\ latest + k <= MaxSequence
               /\ Push(k)
               /\ pending' = pending - k
               /\ failed' = TRUE

\* Mutation of Missing: the first output that was evicted is not part of the gap.
MissingAfterFirst(v) == {n \in Seqs : reached[v] + 1 < n /\ n < earliest'}

\* The gap of a batch for v.
Missing(v) == {n \in Seqs : reached[v] < n /\ n < earliest'}

\* The outputs of a batch for v.
Left(v) == {n \in Seqs : reached[v] < n /\ earliest' <= n /\ n <= latest}

\* batch for v, from the sequence it has reached: what is left of the history, and a gap
\* for what is not.
Batch(v) ==
    /\ given' = [given EXCEPT ![v] = @ \cup Left(v)]
    /\ missed' = [missed EXCEPT ![v] = @ \cup Missing(v)]
    /\ reached' = [reached EXCEPT ![v] = latest]
    /\ delivered' = latest

-----------------------------------------------------------------------------
(* Callers *)

\* Nobody else has the mutex, and close borrows the terminal for itself.
Free == monitor # "checking" /\ closing # "joining"

Calls(v) == Free /\ phase[v] = "idle"

\* check_attached, for write and resize.
Attached == ~stop /\ exit = NoExit /\ attached

\* A sequence is consumed whether or not the write succeeds.
Write(v) ==
    /\ Calls(v) /\ Attached
    /\ lastInput < MaxInput
    /\ lastInput' = lastInput + 1
    /\ UNCHANGED <<replay, lastResize, stop, failed, exit, monitor, pty, viewers, closing>>

Resize(v) ==
    /\ Calls(v) /\ Attached
    /\ \E n \in lastResize + 1..MaxResize : lastResize' = n
    /\ UNCHANGED <<replay, lastInput, stop, failed, exit, monitor, pty, viewers, closing>>

\* read, up to where it waits or returns.
Read(v) ==
    /\ Calls(v)
    /\ Expire(age, latest)
    /\ \/ /\ ~attached' \/ failed
          /\ UNCHANGED <<viewers, delivered>>
       \/ /\ attached' /\ ~failed
          /\ reached[v] = latest /\ exit = NoExit
          /\ phase' = [phase EXCEPT ![v] = "waiting"]
          /\ UNCHANGED <<reached, given, missed, delivered>>
       \/ /\ attached' /\ ~failed
          /\ reached[v] < latest \/ exit # NoExit
          /\ Batch(v)
          /\ UNCHANGED phase
    /\ UNCHANGED <<latest, numbers, stop, failed, exit, monitor, pty, closing>>

\* read returns from its wait: there is output, or time is up.  Another caller may have
\* detached and resumed meanwhile.
Wake(v) ==
    /\ Free /\ phase[v] = "waiting"
    /\ phase' = [phase EXCEPT ![v] = "idle"]
    /\ UNCHANGED earliest
    /\ IF attached /\ ~failed THEN Batch(v) ELSE UNCHANGED <<reached, given, missed, delivered>>
    /\ UNCHANGED <<latest, age, attached, retain, numbers, stop, failed, exit, monitor, pty,
                   closing>>

\* Mutation of Detach: the retention starts again.
DetachAgain(v) ==
    /\ Calls(v)
    /\ attached' = FALSE /\ retain' = Retention
    /\ UNCHANGED <<latest, earliest, age, delivered, numbers, stop, failed, exit, monitor, pty,
                   viewers, closing>>

Detach(v) ==
    /\ Calls(v)
    /\ IF attached THEN attached' = FALSE /\ retain' = Retention
                   ELSE UNCHANGED <<attached, retain>>
    /\ UNCHANGED <<latest, earliest, age, delivered, numbers, stop, failed, exit, monitor, pty,
                   viewers, closing>>

Resume(v) ==
    /\ Calls(v)
    /\ ~attached /\ ~stop /\ retain # 0
    /\ Evict(age, latest)
    /\ attached' = TRUE /\ retain' = NoTimer
    /\ Batch(v)
    /\ UNCHANGED <<latest, numbers, stop, failed, exit, monitor, pty, phase, closing>>

\* close has the terminal for itself: no caller is in read.
Close ==
    /\ Free /\ \A v \in Viewers : phase[v] = "idle"
    /\ closing = "no"
    /\ stop' = TRUE
    /\ closing' = "joining"
    /\ UNCHANGED <<replay, numbers, failed, exit, monitor, pty, viewers>>

Joined ==
    /\ closing = "joining" /\ monitor = "ended"
    /\ closing' = "done"
    /\ UNCHANGED <<replay, numbers, stop, failed, exit, monitor, pty, viewers>>

-----------------------------------------------------------------------------
(* The monitor thread *)

\* It takes the mutex, drains and expires.
Look ==
    /\ monitor = "sleeping"
    /\ Drain
    /\ stop' = (stop \/ failed')
    /\ monitor' = "checking"
    /\ UNCHANGED <<delivered, numbers, exit, shell, master, wrote, viewers, closing>>

\* Mutation of Ends: only the retention ends the monitor.
EndsRetained == retain = 0

Ends == stop \/ retain = 0

\* The rest of its output is read, the tty closed and the exit announced.
Announce ==
    /\ Drain
    /\ master' = FALSE
    /\ exit' = latest'
    /\ shell' = "reaped"

\* terminate: kill and reap the shell, unless that was done, and end.  Reaping may fail.
Terminate ==
    /\ monitor = "checking" /\ Ends
    /\ stop' = TRUE /\ monitor' = "ended"
    /\ \/ /\ exit # NoExit
          /\ master' = FALSE
          /\ UNCHANGED <<latest, earliest, age, attached, retain, failed, exit, shell, pending,
                         wrote>>
       \/ /\ exit = NoExit
          /\ Announce
          /\ wrote' = IF shell = "running" THEN latest + pending ELSE wrote
       \/ /\ exit = NoExit
          /\ failed' = TRUE /\ master' = FALSE
          /\ UNCHANGED <<latest, earliest, age, attached, retain, exit, shell, pending, wrote>>
    /\ UNCHANGED <<delivered, numbers, viewers, closing>>

\* Mutation of Reap: the exit is announced with what was read before.
ReapUndrained ==
    /\ monitor = "checking" /\ ~Ends /\ exit = NoExit /\ shell = "dead"
    /\ master' = FALSE /\ exit' = latest /\ shell' = "reaped" /\ monitor' = "sleeping"
    /\ UNCHANGED <<replay, numbers, stop, failed, pending, wrote, viewers, closing>>

\* try_wait has the status of the shell.
Reap ==
    /\ monitor = "checking" /\ ~Ends /\ exit = NoExit /\ shell = "dead"
    /\ Announce
    /\ stop' = (stop \/ failed')
    /\ monitor' = "sleeping"
    /\ UNCHANGED <<delivered, numbers, wrote, viewers, closing>>

\* try_wait fails: terminate at once, which Terminate does with the mutex still taken.
WaitFails ==
    /\ monitor = "checking" /\ ~Ends /\ exit = NoExit
    /\ failed' = TRUE /\ stop' = TRUE
    /\ UNCHANGED <<replay, numbers, exit, monitor, pty, viewers, closing>>

\* The shell runs, or its exit was announced before.
Rest ==
    /\ monitor = "checking" /\ ~Ends /\ (exit # NoExit \/ shell = "running")
    /\ monitor' = "sleeping"
    /\ UNCHANGED <<replay, numbers, stop, failed, exit, pty, viewers, closing>>

-----------------------------------------------------------------------------
(* The shell, its jobs and the clock *)

\* The shell writes, or whoever it leaves behind does.
Produce ==
    /\ master /\ pending < Backlog
    /\ pending' = pending + 1
    /\ UNCHANGED <<replay, numbers, stop, failed, exit, monitor, shell, master, wrote, viewers,
                   closing>>

ShellExits ==
    /\ shell = "running"
    /\ shell' = "dead"
    /\ wrote' = latest + pending
    /\ UNCHANGED <<replay, numbers, stop, failed, exit, monitor, master, pending, viewers,
                   closing>>

Elapse(t) == IF t > 0 THEN t - 1 ELSE t

Tick ==
    /\ age' = [n \in Seqs |-> Elapse(age[n])]
    /\ retain' = Elapse(retain)
    /\ UNCHANGED <<latest, earliest, delivered, attached, numbers, stop, failed, exit, monitor,
                   pty, viewers, closing>>

Call(v) == Write(v) \/ Resize(v) \/ Read(v) \/ Wake(v) \/ Detach(v) \/ Resume(v)
MonitorStep == Look \/ Terminate \/ Reap \/ WaitFails \/ Rest

Next ==
    \/ \E v \in Viewers : Call(v)
    \/ Close \/ Joined \/ MonitorStep
    \/ Produce \/ ShellExits \/ Tick

Spec == Init /\ [][Next]_vars

\* The monitor gets the mutex in the end (no call keeps it longer than 100 ms), the wait in
\* read is bounded, and the clock runs.
Fairness ==
    /\ WF_vars(MonitorStep) /\ WF_vars(Joined) /\ WF_vars(Tick)
    /\ \A v \in Viewers : WF_vars(Wake(v))

FairSpec == Spec /\ Fairness

-----------------------------------------------------------------------------
(* Safety *)

\* Up to the sequence it has reached, every caller was given each output or told that it is
\* gone, and not both, however it was detached, resumed, or overtaken while it waited in read
\* (batch).
NothingSilentlyLost ==
    \A v \in Viewers :
        given[v] \cup missed[v] = 1..reached[v] /\ given[v] \cap missed[v] = {}

\* The history keeps the promises of a replay log to each caller, output by output, although
\* it knows of each caller but one sequence, and of what was handed out only the last.
Log == INSTANCE ReplayLog WITH
    Readers <- Viewers, last <- latest, dropped <- earliest - 1, ended <- exit # NoExit,
    watched <- attached

ReplayIsKept == Log!Spec

\* While somebody is attached nothing is evicted that was not handed out: one who falls
\* behind is detached first (expire_history, resume).
AttachedKeepsUp == attached => earliest <= delivered + 1

\* The retention runs exactly while nobody is attached: detaching twice, lagging, and
\* resuming never lose or keep a countdown (detach, resume, expire_history).
RetentionMatchesAttachment == attached <=> retain = NoTimer

\* Once announced, an exit is final: its output number is the last one there will ever be,
\* and unless output failed it covers all the shell wrote before it died (monitor).
ExitIsFinal ==
    exit # NoExit => exit = latest /\ ~master /\ (failed \/ wrote <= exit)

\* The monitor leaves no shell behind, except when it could not be reaped (terminate).
MonitorLeavesNothing ==
    monitor = "ended" => ~master /\ stop /\ (failed \/ (shell = "reaped" /\ exit # NoExit))

(* Liveness *)

\* A terminal nobody comes back to ends, with no further call (monitor).
DetachedEnds == ~attached ~> attached \/ monitor = "ended"

\* close returns (close, monitor).
CloseReturns == closing = "joining" ~> closing = "done"
=============================================================================
