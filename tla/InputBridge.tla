----------------------------- MODULE InputBridge -----------------------------
(***************************************************************************)
(* Console input from the browser to the daemon: browsers                  *)
(* (console-ui/src/consoleInput.ts) talk over data channels to the input   *)
(* bridge of the console web server (console-web/input.go), whose run      *)
(* goroutine talks over one socket to one thread of the input daemon       *)
(* (device/console/src/bin/input-daemon.rs, see ConsoleInput).  All four   *)
(* channels are ordered; everybody else acts between any two messages.     *)
(*                                                                         *)
(* A generation is the number of the grant, a request id the number of the *)
(* acquire, 0 for none.  A data channel delivers to the queue of the       *)
(* bridge at once: it could only add to the wait there.  What an event     *)
(* does, the raster and malformed messages are left out.  Time is left     *)
(* out: whatever has a deadline may pass it at any moment.                 *)
(***************************************************************************)
EXTENDS Integers, Sequences

CONSTANTS
    Clients,     \* browsers with a data channel
    MaxQueue,    \* capacity of the queue of the bridge (32 in the code)
    MaxAsks,     \* how many acquires the browsers send in all
    MaxEvents,   \* how many events of one generation are explored
    MaxPauses,   \* how many recoveries of the capture are explored
    None         \* no client

ASSUME BridgeAssumption ==
    /\ MaxQueue \in Nat \ {0} /\ MaxAsks \in Nat /\ MaxEvents \in Nat /\ MaxPauses \in Nat
    /\ None \notin Clients

VARIABLES
    state,     \* ConsoleInput.state of each browser; closed when its transport is
    mine,      \* generation and sequence each browser has
    flight,    \* browsers with an event in flight
    asks,      \* acquires sent by browsers
    down,      \* replies on their way to each browser
    gone,      \* clients whose done channel is closed
    queue,     \* commands submitted to the bridge
    run,       \* where run is: top or select of its loop, waiting for a reply, ended
    cur,       \* the command that run is handling
    then,      \* why run releases: pause, gone, asked, or late (an acquire)
    owner, generation, sequence,     \* the fields of the same names
    under,     \* the epoch of the acquire of the owner (not in the code: for a property)
    overdue,   \* the owner was gone when run last left its select (for a property, too)
    paused,    \* paused: no, yes, or set while the increment of pauseEpoch is still to come
    epoch, observed,                 \* pauseEpoch, observedPause
    req, rep,  \* records on the socket, to and from the daemon
    serving,   \* the thread of the daemon serves the socket
    control,   \* the generation of the daemon's Control, 0 without one
    next,      \* the sequence that Control expects
    grants, nonces                   \* generations and request ids made so far

browsers == <<state, mine, flight, asks>>
held == <<owner, generation, sequence, under>>
fields == <<owner, generation, sequence, under, overdue>>
bridge == <<run, cur, then, fields, observed>>
capture == <<paused, epoch>>
daemon == <<serving, control, next, grants>>
vars == <<browsers, down, gone, queue, bridge, capture, req, rep, daemon, nonces>>

Grants == 0..MaxAsks
Numbers == 0..MaxEvents + 1
Command == [client : Clients, type : {"acquire", "event", "release"}, gen : Grants,
            seq : Numbers, epoch : 0..MaxPauses]
NoCommand == [client |-> None, type |-> "none", gen |-> 0, seq |-> 0, epoch |-> 0]
Message(t, g, n) == [type |-> t, gen |-> g, seq |-> n]
Messages == [type : {"acquire", "event", "release", "ready", "unavailable", "ack", "released"},
             gen : Grants, seq : Numbers \cup Grants]

TypeOK ==
    /\ state \in [Clients -> {"idle", "acquiring", "controlling", "releasing", "unavailable",
                              "closed"}]
    /\ mine \in [Clients -> [gen : Grants, seq : Numbers]]
    /\ flight \in SUBSET Clients /\ asks \in Grants
    /\ down \in [Clients -> Seq(Messages)]
    /\ gone \in SUBSET Clients
    /\ queue \in Seq(Command) /\ Len(queue) <= MaxQueue
    /\ run \in {"top", "select", "acquire", "event", "release", "ended"}
    /\ cur \in Command \cup {NoCommand}
    /\ then \in {"none", "pause", "gone", "asked", "late"}
    /\ owner \in Clients \cup {None} /\ generation \in Grants /\ sequence \in Numbers
    /\ under \in 0..MaxPauses /\ overdue \in BOOLEAN
    /\ paused \in {"no", "set", "yes"} /\ epoch \in 0..MaxPauses /\ observed \in 0..MaxPauses
    /\ req \in Seq(Messages) /\ rep \in Seq(Messages)
    /\ serving \in BOOLEAN
    /\ control \in Grants /\ next \in Numbers /\ grants \in Grants /\ nonces \in Grants

Init ==
    /\ state = [c \in Clients |-> "idle"]
    /\ mine = [c \in Clients |-> [gen |-> 0, seq |-> 0]]
    /\ flight = {} /\ asks = 0
    /\ down = [c \in Clients |-> <<>>]
    /\ gone = {} /\ queue = <<>>
    /\ run = "top" /\ cur = NoCommand /\ then = "none"
    /\ owner = None /\ generation = 0 /\ sequence = 0 /\ under = 0
    /\ overdue = FALSE
    /\ paused = "no" /\ epoch = 0 /\ observed = 0
    /\ req = <<>> /\ rep = <<>> /\ serving = TRUE
    /\ control = 0 /\ next = 1 /\ grants = 0 /\ nonces = 0

-----------------------------------------------------------------------------
(* Browsers *)

To(c, s) == state' = [state EXCEPT ![c] = s]

\* down with m for c, unless c is closed; what a client that is gone does not hear any more
\* is lost when it fails.
Told(c, m) == IF c = None \/ state[c] = "closed"
              THEN down ELSE [down EXCEPT ![c] = Append(@, m)]
Unavailable == Message("unavailable", 0, 0)
Denied(id) == Message("unavailable", 0, id)

\* submit: a full queue stops the client, a bridge that has ended says so or, as select
\* chooses, puts the command in a queue that nobody reads.
Submit(c, type, gen, seq) ==
    \/ /\ Len(queue) < MaxQueue /\ run # "ended"
       /\ queue' = Append(queue, [client |-> c, type |-> type, gen |-> gen, seq |-> seq,
                                  epoch |-> epoch])
       /\ UNCHANGED <<down, gone>>
    \/ /\ Len(queue) = MaxQueue /\ run # "ended"
       /\ gone' = gone \cup {c}
       /\ UNCHANGED <<queue, down>>
    \/ /\ run = "ended"
       /\ down' \in {down, Told(c, Unavailable)}
       /\ UNCHANGED <<queue, gone>>

Acquire(c) ==
    /\ state[c] \in {"idle", "unavailable"} /\ asks < MaxAsks
    /\ asks' = asks + 1
    /\ To(c, "acquiring")
    /\ Submit(c, "acquire", 0, 0)
    /\ UNCHANGED <<mine, flight, bridge, capture, req, rep, daemon, nonces>>

\* pump: the next event, a renewal too, when none is in flight.
SendEvent(c) ==
    /\ state[c] = "controlling" /\ c \notin flight /\ mine[c].seq < MaxEvents
    /\ mine' = [mine EXCEPT ![c].seq = @ + 1]
    /\ flight' = flight \cup {c}
    /\ Submit(c, "event", mine[c].gen, mine[c].seq + 1)
    /\ UNCHANGED <<state, asks, bridge, capture, req, rep, daemon, nonces>>

\* clear.
Cleared(c) ==
    /\ mine' = [mine EXCEPT ![c].gen = 0]
    /\ flight' = flight \ {c}

Release(c) ==
    /\ state[c] \in {"controlling", "acquiring"}
    /\ To(c, "releasing")
    /\ Cleared(c)
    /\ Submit(c, "release", 0, 0)
    /\ UNCHANGED <<asks, bridge, capture, req, rep, daemon, nonces>>

\* fail: a deadline has passed, the channel is congested or was closed by the bridge.
Fail(c) ==
    /\ \/ state[c] \in {"acquiring", "releasing"} \/ c \in flight
       \/ state[c] # "closed" /\ c \in gone
    /\ To(c, "closed")
    /\ Cleared(c)
    /\ down' = [down EXCEPT ![c] = <<>>]
    /\ UNCHANGED <<asks, gone, queue, bridge, capture, req, rep, daemon, nonces>>

\* The bridge learns that the data channel or the viewer is closed, or finds its replies
\* congested: it stops the client.
ChannelClosed(c) ==
    /\ c \notin gone
    /\ gone' = gone \cup {c}
    /\ UNCHANGED <<browsers, down, queue, bridge, capture, req, rep, daemon, nonces>>

\* A reply that the browser acts on in its state.
Takes(c, m) ==
    \/ m.type = "ready" /\ state[c] = "acquiring"
    \/ m.type = "ack" /\ state[c] = "controlling" /\ c \in flight /\ m.seq = mine[c].seq

\* A reply that makes the browser close its transport.
Rejects(c, m) == state[c] \in {"acquiring", "controlling"} /\ m.type \in {"ready", "ack"}
                 /\ ~Takes(c, m)

\* receive.
Receive(c) ==
    /\ state[c] # "closed" /\ down[c] # <<>>
    /\ LET m == Head(down[c])
       IN  \/ /\ m.type = "released"
              /\ IF state[c] = "releasing" THEN To(c, "idle") ELSE UNCHANGED state
              /\ UNCHANGED <<mine, flight>>
           \/ /\ m.type = "unavailable"
              /\ IF state[c] = "releasing"
                 THEN UNCHANGED <<state, mine, flight>>
                 ELSE To(c, "unavailable") /\ Cleared(c)
           \/ /\ m.type = "ready" /\ Takes(c, m)
              /\ To(c, "controlling")
              /\ mine' = [mine EXCEPT ![c] = [gen |-> m.gen, seq |-> 0]]
              /\ UNCHANGED flight
           \/ /\ m.type = "ack" /\ Takes(c, m)
              /\ flight' = flight \ {c}
              /\ UNCHANGED <<state, mine>>
           \/ /\ m.type \in {"ready", "ack"} /\ ~Takes(c, m)
              /\ IF Rejects(c, m) THEN To(c, "closed") /\ Cleared(c)
                                  ELSE UNCHANGED <<state, mine, flight>>
    /\ down' = [down EXCEPT ![c] = IF state'[c] = "closed" THEN <<>> ELSE Tail(@)]
    /\ UNCHANGED <<asks, gone, queue, bridge, capture, req, rep, daemon, nonces>>

-----------------------------------------------------------------------------
(* The bridge *)

\* clear, without its notice to the owner.
Clear == owner' = None /\ generation' = 0 /\ sequence' = 0 /\ under' = 0
         /\ overdue' = FALSE

\* run returns: clear tells the owner, stop closes the socket, and nobody reads the queue or
\* the replies again.
End ==
    /\ run' = "ended"
    /\ down' = Told(owner, Unavailable)
    /\ Clear
    /\ queue' = <<>> /\ rep' = <<>>
    /\ cur' = NoCommand /\ then' = "none"

\* run is back in its loop.
Loop(at) == run' = at /\ cur' = NoCommand /\ then' = "none"

\* release, up to its response.
SendRelease(gen, seq, why) ==
    /\ req' = Append(req, Message("release", gen, seq + 1))
    /\ run' = "release" /\ then' = why

\* Mutation of Top: a recovery is noted and nothing else.
TopObserving ==
    /\ run = "top"
    /\ observed' = epoch
    /\ IF owner \in gone THEN SendRelease(generation, sequence, "gone") /\ UNCHANGED cur
                         ELSE Loop("select") /\ UNCHANGED req
    /\ UNCHANGED <<browsers, down, gone, queue, fields, capture, rep, daemon, nonces>>

\* Mutation of Top: an owner that is gone is forgotten without a release.
TopForgetting ==
    /\ run = "top"
    /\ observed' = epoch
    /\ IF owner # None /\ observed # epoch
       THEN SendRelease(generation, sequence, "pause") /\ UNCHANGED <<cur, fields>>
       ELSE /\ Loop("select") /\ UNCHANGED req
            /\ IF owner \in gone THEN Clear ELSE UNCHANGED fields
    /\ UNCHANGED <<browsers, down, gone, queue, capture, rep, daemon, nonces>>

\* The top of the loop: a recovery since the last look, or an owner that is gone, ends control.
Top ==
    /\ run = "top"
    /\ observed' = epoch
    /\ IF owner # None /\ (observed # epoch \/ owner \in gone)
       THEN /\ SendRelease(generation, sequence, IF observed # epoch THEN "pause" ELSE "gone")
            /\ UNCHANGED cur
       ELSE Loop("select") /\ UNCHANGED req
    /\ UNCHANGED <<browsers, down, gone, queue, fields, capture, rep, daemon, nonces>>

\* The ticker.
Turn ==
    /\ run = "select" /\ Loop("top")
    /\ overdue' = (owner \in gone)
    /\ UNCHANGED <<browsers, down, gone, queue, held, observed, capture, req, rep, daemon,
                   nonces>>

\* A record nobody waits for: the control has expired.
Expired ==
    /\ run = "select" /\ rep # <<>> /\ Head(rep).type = "unavailable"
    /\ rep' = Tail(rep)
    /\ down' = Told(owner, Unavailable)
    /\ Clear /\ Loop("top")
    /\ UNCHANGED <<browsers, gone, queue, observed, capture, req, daemon, nonces>>

\* handle takes a command; the rest of it depends on the command.
Handle(cmd) ==
    /\ run = "select" /\ queue # <<>> /\ cmd = Head(queue)
    /\ queue' = Tail(queue)
    /\ overdue' = (owner \in gone)
    /\ UNCHANGED <<browsers, observed, capture, rep, daemon>>

Waits(cmd, where) == run' = where /\ cur' = cmd /\ UNCHANGED then

\* Its client is gone, or is stopped because the command has waited too long.
Drop(cmd) ==
    /\ Handle(cmd)
    /\ gone' = gone \cup {cmd.client}
    /\ Loop("top")
    /\ UNCHANGED <<down, held, req, nonces>>

Suspended(cmd) == cmd.type # "release" /\ (paused # "no" \/ cmd.epoch # epoch)

\* What handle refuses without the daemon.
Refused(cmd) ==
    \/ Suspended(cmd)
    \/ cmd.type = "acquire" /\ owner # None
    \/ cmd.type = "event" /\ cmd.client # owner

\* Mutation of HandleLocally: run goes on with its queue and looks at nothing in between.
HandleAtOnce(cmd) ==
    /\ Handle(cmd) /\ cmd.client \notin gone
    /\ \/ Refused(cmd) /\ down' = Told(cmd.client, Unavailable)
       \/ /\ cmd.type = "release" /\ cmd.client # owner
          /\ down' = Told(cmd.client, Message("released", 0, 0))
    /\ Loop("select")
    /\ UNCHANGED <<gone, held, req, nonces>>

HandleLocally(cmd) ==
    /\ Handle(cmd) /\ cmd.client \notin gone
    /\ \/ Refused(cmd) /\ down' = Told(cmd.client, Unavailable)
       \/ /\ cmd.type = "release" /\ cmd.client # owner
          /\ down' = Told(cmd.client, Message("released", 0, 0))
    /\ Loop("top")
    /\ UNCHANGED <<gone, held, req, nonces>>

HandleAcquire(cmd) ==
    /\ Handle(cmd) /\ cmd.client \notin gone
    /\ cmd.type = "acquire" /\ ~Refused(cmd)
    /\ owner' = cmd.client /\ under' = cmd.epoch
    /\ nonces' = nonces + 1
    /\ req' = Append(req, Message("acquire", 0, nonces'))
    /\ Waits(cmd, "acquire")
    /\ UNCHANGED <<down, gone, generation, sequence>>

\* An event under another generation or out of sequence stops the client.
HandleEvent(cmd) ==
    /\ Handle(cmd) /\ cmd.client \notin gone
    /\ cmd.type = "event" /\ ~Refused(cmd)
    /\ IF cmd.gen = generation /\ cmd.seq = sequence + 1
       THEN /\ req' = Append(req, Message("event", cmd.gen, cmd.seq))
            /\ sequence' = cmd.seq
            /\ Waits(cmd, "event") /\ UNCHANGED gone
       ELSE /\ gone' = gone \cup {cmd.client}
            /\ Loop("top") /\ UNCHANGED <<req, sequence>>
    /\ UNCHANGED <<down, owner, generation, under, nonces>>

\* Mutation of HandleRelease: the browser hears of it before the daemon has let go.
HandleReleaseEarly(cmd) ==
    /\ Handle(cmd) /\ cmd.client \notin gone
    /\ cmd.type = "release" /\ cmd.client = owner
    /\ SendRelease(generation, sequence, "gone")
    /\ cur' = cmd
    /\ down' = Told(cmd.client, Message("released", 0, 0))
    /\ UNCHANGED <<gone, held, nonces>>

HandleRelease(cmd) ==
    /\ Handle(cmd) /\ cmd.client \notin gone
    /\ cmd.type = "release" /\ cmd.client = owner
    /\ SendRelease(generation, sequence, "asked")
    /\ cur' = cmd
    /\ UNCHANGED <<down, gone, held, nonces>>

\* The daemon's next record, for which run waits.
Hears(where, m) ==
    /\ run = where /\ rep # <<>> /\ m = Head(rep)
    /\ rep' = Tail(rep)
    /\ UNCHANGED <<browsers, gone, queue, observed, capture, daemon, nonces>>

\* Mutation of Denies: any unavailable refuses the acquire.
DeniesAny(m) == m.type = "unavailable"

\* An unavailable that answers the acquire, and not the control before it.
Denies(m) == m.type = "unavailable" /\ m.seq = nonces

\* handle waits for the ready of an acquire, past what is left of the control before it.
AwaitAcquire(m) ==
    /\ Hears("acquire", m)
    /\ \/ /\ Denies(m)
          /\ down' = Told(owner, Unavailable)
          /\ Clear /\ Loop("top") /\ UNCHANGED req
       \/ /\ m.type = "unavailable" /\ ~Denies(m)
          /\ UNCHANGED <<down, fields, run, cur, then, req>>
       \/ /\ m.type = "ready"
          /\ generation' = m.gen /\ sequence' = 0
          /\ IF Suspended(cur)
             THEN SendRelease(m.gen, 0, "late") /\ UNCHANGED <<down, cur>>
             ELSE down' = Told(owner, m) /\ Loop("top") /\ UNCHANGED req
          /\ UNCHANGED <<owner, under, overdue>>

AwaitAck(m) ==
    /\ Hears("event", m)
    /\ \/ m.type = "unavailable" /\ down' = Told(owner, Unavailable) /\ Clear
       \/ m.type = "ack" /\ m.seq = sequence /\ down' = Told(owner, m) /\ UNCHANGED fields
    /\ Loop("top")
    /\ UNCHANGED req

\* What run says once it has released, and to whom.
Afterwards ==
    CASE then = "pause" -> Told(owner, Unavailable)
      [] then = "gone"  -> down
      [] then = "asked" -> Told(cur.client, Message("released", 0, 0))
      [] then = "late"  -> Told(cur.client, Unavailable)

AwaitRelease(m) ==
    /\ Hears("release", m)
    /\ m.type = "unavailable" \/ (m.type = "ack" /\ m.seq = sequence + 1)
    /\ down' = Afterwards
    /\ Clear
    /\ Loop(IF then \in {"pause", "gone"} THEN "select" ELSE "top")
    /\ UNCHANGED req

\* run returns: the socket ends, a reply takes too long or is another one than those above,
\* or the capture fails for good.
Stop ==
    /\ run # "ended"
    /\ End
    /\ UNCHANGED <<browsers, gone, observed, capture, req, daemon, nonces>>

\* beginRecovery: pause sets the flag, and then adds one to the epoch.
Pause ==
    /\ paused # "set" /\ epoch < MaxPauses
    /\ paused' = "set"
    /\ UNCHANGED <<epoch, browsers, down, gone, queue, bridge, req, rep, daemon, nonces>>

NextEpoch ==
    /\ paused = "set" /\ paused' = "yes"
    /\ epoch' = epoch + 1
    /\ UNCHANGED <<browsers, down, gone, queue, bridge, req, rep, daemon, nonces>>

\* The first key frame after a recovery.
Resume ==
    /\ paused = "yes" /\ paused' = "no"
    /\ UNCHANGED <<epoch, browsers, down, gone, queue, bridge, req, rep, daemon, nonces>>

-----------------------------------------------------------------------------
(* The daemon's thread *)

Says(m) == rep' = IF run = "ended" THEN rep ELSE Append(rep, m)

\* A request without control: an acquire is granted or denied, the rest is out of date.
ServeIdle ==
    /\ serving /\ control = 0 /\ req # <<>>
    /\ LET m == Head(req)
       IN  \/ /\ m.type = "acquire"
              /\ control' = grants + 1 /\ grants' = grants + 1 /\ next' = 1
              /\ Says(Message("ready", grants', 0))
           \/ /\ m.type = "acquire"
              /\ Says(Denied(m.seq))
              /\ UNCHANGED <<control, grants, next>>
           \/ /\ m.type # "acquire"
              /\ Says(Unavailable)
              /\ UNCHANGED <<control, grants, next>>
    /\ req' = Tail(req)
    /\ UNCHANGED <<serving, browsers, down, gone, queue, bridge, capture, nonces>>

\* A request that the daemon accepts under its control.
Accepts(m) == m.type # "acquire" /\ m.gen = control /\ m.seq = next

ServeControl ==
    /\ serving /\ control # 0 /\ req # <<>>
    /\ LET m == Head(req)
       IN  /\ Accepts(m)
           /\ Says(Message("ack", 0, next))
           /\ IF m.type = "release" THEN control' = 0 /\ next' = 1
                                    ELSE control' = control /\ next' = next + 1
    /\ req' = Tail(req)
    /\ UNCHANGED <<serving, grants, browsers, down, gone, queue, bridge, capture, nonces>>

\* The lease runs out or the guard fails.
Expire ==
    /\ serving /\ control # 0
    /\ control' = 0 /\ next' = 1
    /\ Says(Unavailable)
    /\ UNCHANGED <<serving, grants, browsers, down, gone, queue, bridge, capture, req, nonces>>

\* serve returns: the socket is closed, a deadline passed, or a request is not acceptable.
Leave ==
    /\ serving
    /\ serving' = FALSE /\ control' = 0 /\ next' = 1
    /\ UNCHANGED <<grants, browsers, down, gone, queue, bridge, capture, req, rep, nonces>>

-----------------------------------------------------------------------------
Browse(c) ==
    \/ Acquire(c) \/ SendEvent(c) \/ Release(c) \/ Fail(c) \/ ChannelClosed(c) \/ Receive(c)

HandleNext ==
    queue # <<>> /\ LET cmd == Head(queue)
                    IN  \/ Drop(cmd) \/ HandleLocally(cmd) \/ HandleAcquire(cmd)
                        \/ HandleEvent(cmd) \/ HandleRelease(cmd)

Await ==
    rep # <<>> /\ LET m == Head(rep) IN AwaitAcquire(m) \/ AwaitAck(m) \/ AwaitRelease(m)

Run == Top \/ Turn \/ Expired \/ HandleNext \/ Await \/ Stop

Next ==
    \/ \E c \in Clients : Browse(c)
    \/ Run
    \/ Pause \/ NextEpoch \/ Resume
    \/ ServeIdle \/ ServeControl \/ Expire \/ Leave

Spec == Init /\ [][Next]_vars

-----------------------------------------------------------------------------
(* Safety *)

\* What run takes as the next record of the daemon.
Understands(m) ==
    \/ m.type = "unavailable"
    \/ run = "acquire" /\ m.type = "ready"
    \/ run = "event" /\ m.type = "ack" /\ m.seq = sequence
    \/ run = "release" /\ m.type = "ack" /\ m.seq = sequence + 1

\* Bridge and daemon stay in step over expiry, denial, release and recovery: neither ever
\* gets a record that makes it close the socket, which is opened once for the life of the
\* bridge (input.go handle, release, run; input-daemon.rs serve).
SocketInStep ==
    /\ run # "ended" /\ rep # <<>> => Understands(Head(rep))
    /\ serving /\ control # 0 /\ req # <<>> => Accepts(Head(req))

\* Between commands, the daemon has given control to the owner of the bridge and nobody
\* else, and expects the sequence number that the bridge sends next.  An owner has lost it
\* exactly when the notice is on its way, unless the thread of the daemon has left, and no
\* notice on its way is left over from a control before (input.go run, clear, release,
\* handle's requestId).
ControlAgrees ==
    run \in {"top", "select"} =>
        /\ control # 0 => owner # None /\ generation = control /\ next = sequence + 1
        /\ owner # None => (control = generation <=>
              serving /\ \A i \in DOMAIN rep : rep[i].type # "unavailable")

\* A recovery of the capture ends the control of whoever had it before: who has control when
\* run takes a command has asked for it since the last recovery that run has seen (pause, run).
PauseEndsControl == run = "select" /\ owner # None => under = observed

\* Once a browser has heard that it released, nothing of its control is left on the way: no
\* command, no reply, no ownership (consoleInput.ts release, receive).
ReleaseIsBarrier ==
    \A c \in Clients : state[c] = "idle" =>
        /\ owner # c
        /\ \A i \in DOMAIN queue : queue[i].client # c
        /\ down[c] = <<>>

\* "Delayed acquire response after abandonment is discarded" (contracts/console-input-web.md):
\* the ready a browser takes answers its last acquire, none of which is still on its way.
DelayedReadyDiscarded ==
    \A c \in Clients :
        down[c] # <<>> /\ Head(down[c]).type = "ready" /\ Takes(c, Head(down[c])) =>
            \A i \in DOMAIN queue : queue[i].client = c => queue[i].type # "acquire"

\* A browser that went away, whose channel closed or who found the queue full, loses control:
\* of the commands, notices and ticks that run takes, one at most finds the owner gone, and
\* before the next one the bridge has no such owner and the daemon no control that is not the
\* owner's (run, release).
GoneOwnerLoses ==
    run = "select" => ~overdue /\ (control # 0 => owner \in Clients)
=============================================================================
