--------------------------- MODULE CaptureRecovery ---------------------------
(***************************************************************************)
(* The console web server's way from the capture to its viewers            *)
(* (console-web/main.go, recovery.go): one reader, which replaces a        *)
(* capture connection that has ended by another one from the broker, and   *)
(* pauses input meanwhile; viewers, each with a bounded queue and a        *)
(* goroutine that writes its samples; the stop of the server.  Daemon and  *)
(* broker are those of CaptureSource: their answers may come when the      *)
(* reader has stopped waiting, and then answer its next request.           *)
(***************************************************************************)
EXTENDS CaptureSource

CONSTANTS
    Viewers,    \* peers that may offer, each once
    MaxViewers, \* viewers at a time (2 in the code)
    MaxQueue    \* samples a viewer's channel holds (3 in the code)

ASSUME RecoveryAssumption == MaxViewers \in Nat /\ MaxQueue \in Nat \ {0}

VARIABLES
    reader,     \* where readRecoverable is
    conn, next, \* its variables of these names
    recovering, generation,  \* fields of bridge
    paused,     \* the flag of the input bridge
    keyed,      \* history: the connection whose key frame was last broadcast
    stop,       \* how far the stop of the server has come
    viewers,    \* the viewers the bridge has
    peer        \* each viewer, and what it was last shown (history)

feed == <<reader, conn, next, keyed>>
bridge == <<recovering, generation, paused>>
peers == <<viewers, peer>>
vars == <<source, feed, bridge, stop, peers>>

Generations == 0..MaxConns
Sample(f, g) == [of |-> f.of, n |-> f.n, key |-> f.key, gen |-> g]
Samples == [of : Conns, n : 1..MaxFrames, key : BOOLEAN, gen : Generations]
NoSample == Sample(NoFrame, 0)
Unseen == [of |-> 0, n |-> 0]

\* A viewer before its offer, and when its close is under way or done: what its goroutine
\* may still write then is left out.
Idle(l) == [life |-> l, ready |-> FALSE, queue |-> <<>>, taken |-> NoSample, shown |-> Unseen]

TypeOK ==
    /\ SourceTypeOK
    /\ reader \in {"first", "feed", "pause", "begin", "ask", "await", "header", "adopt", "wait",
                   "done"}
    /\ conn \in Conns /\ next \in Conns \cup {None}
    /\ keyed \in Conns \cup {None}
    /\ recovering \in BOOLEAN /\ generation \in Generations /\ paused \in BOOLEAN
    /\ stop \in {"no", "stopped", "failed"}
    /\ viewers \in SUBSET Viewers
    /\ peer \in [Viewers -> [life : {"new", "offered", "live", "closing", "closed"},
                             ready : BOOLEAN,
                             queue : Seq(Samples),
                             taken : Samples \cup {NoSample},
                             shown : [of : 0..MaxConns, n : 0..MaxFrames]]]

Init ==
    /\ SourceInit
    /\ reader = "first" /\ conn = 1 /\ next = None /\ keyed = None
    /\ recovering = FALSE /\ generation = 0 /\ paused = FALSE /\ stop = "no"
    /\ viewers = {} /\ peer = [v \in Viewers |-> Idle("new")]

-----------------------------------------------------------------------------
(* Broadcast *)

\* v.close for these.
Closing(vs) == [v \in Viewers |-> IF v \in vs /\ peer[v].life \in {"offered", "live"}
                                  THEN Idle("closing") ELSE peer[v]]

\* Viewers to send f to: connected, and ready unless it is a key frame.
Receivers(f) == {v \in viewers : peer[v].life = "live" /\ (peer[v].ready \/ f.key)}

Sent(v, f) == [peer[v] EXCEPT !.ready = TRUE, !.queue = Append(@, Sample(f, generation))]

\* Mutation of Send: a viewer whose channel is full misses a frame.
SendOrDrop(f) ==
    LET full == {v \in Receivers(f) : Len(peer[v].queue) = MaxQueue}
    IN /\ viewers' = {v \in viewers : peer[v].life # "closed"}
       /\ peer' = [v \in Viewers |-> IF v \in Receivers(f) \ full
                                      THEN Sent(v, f) ELSE peer[v]]

\* broadcast, to each viewer: one whose channel is full is closed; it cannot miss a frame.
Send(f) ==
    LET full == {v \in Receivers(f) : Len(peer[v].queue) = MaxQueue}
    IN /\ viewers' = {v \in viewers : peer[v].life # "closed"} \ full
       /\ peer' = [v \in Viewers |-> IF v \in Receivers(f) \ full
                                      THEN Sent(v, f) ELSE Closing(full)[v]]

\* Mutation of Broadcast: any frame ends the recovery.
BroadcastAny(f) ==
    /\ recovering' = FALSE
    /\ paused' = (paused /\ ~recovering)
    /\ keyed' = IF f.key THEN f.of ELSE keyed
    /\ Send(f)

\* broadcast: while recovering, only a key frame is of use; it ends the recovery and lets
\* input through again.
Broadcast(f) ==
    IF recovering /\ ~f.key
    THEN UNCHANGED <<recovering, paused, keyed, peers>>
    ELSE /\ recovering' = FALSE
         /\ paused' = (paused /\ ~recovering)
         /\ keyed' = IF f.key THEN f.of ELSE keyed
         /\ Send(f)

-----------------------------------------------------------------------------
(* The reader: run until the first header, then readRecoverable *)

Unread(c) == [sock EXCEPT ![c] = [@ EXCEPT !.head = "none"]]
Next1(c) == [sock EXCEPT ![c].data = Tail(@)]

\* run: without a header there is no server.
FirstHeader ==
    /\ reader = "first" /\ sock[conn].head # "none"
    /\ sock' = Unread(conn)
    /\ reader' = "feed"
    /\ UNCHANGED <<made, daemon, broker, conn, next, keyed, bridge, stop, peers>>

\* readFeed: the next record, as one access unit.
Feed ==
    /\ reader = "feed" /\ sock[conn].data # <<>>
    /\ sock' = Next1(conn)
    /\ Broadcast(Head(sock[conn].data))
    /\ UNCHANGED <<made, daemon, broker, reader, conn, next, generation, stop>>

\* readFeed returns: the connection has ended, was closed, was silent for ten seconds, or sent
\* what cannot be parsed. It is closed.
FeedEnds ==
    /\ reader = "feed"
    /\ sock' = Dropped(sock, conn)
    /\ reader' = "pause"
    /\ UNCHANGED <<made, daemon, broker, conn, next, keyed, bridge, stop, peers>>

\* A viewer waits for a key frame again, and what its channel holds is thrown away.
Unready(p) == [p EXCEPT !.ready = FALSE, !.queue = <<>>]

\* beginRecovery pauses input,
Pause ==
    /\ reader = "pause"
    /\ paused' = TRUE
    /\ reader' = "begin"
    /\ UNCHANGED <<source, conn, next, keyed, recovering, generation, stop, peers>>

\* and, under the mutex, starts a generation: samples of the old one are thrown away.
BeginRecovery ==
    /\ reader = "begin"
    /\ recovering' = TRUE /\ generation' = generation + 1
    /\ keyed' = None
    /\ peer' = [v \in Viewers |-> IF v \in viewers THEN Unready(peer[v]) ELSE peer[v]]
    /\ reader' = "ask"
    /\ UNCHANGED <<source, conn, next, paused, stop, viewers>>

Goes(r) ==
    /\ reader' = r
    /\ UNCHANGED <<made, daemon, conn, keyed, bridge, stop, peers>>

\* The request cannot be written once either end of the broker's socket is closed.
Reachable == link /\ worker # "gone"

\* brokerCapture. MaxAsks bounds what is unanswered.
Ask ==
    /\ reader = "ask" /\ stop = "no" /\ Reachable
    /\ asks + Len(answers) < MaxAsks
    /\ asks' = asks + 1
    /\ Goes("await")
    /\ UNCHANGED <<sock, worker, holding, answers, link, next>>

AskFails ==
    /\ reader = "ask" /\ stop = "no" /\ ~Reachable
    /\ Goes("wait")
    /\ UNCHANGED <<sock, broker, next>>

\* The next answer is taken for the answer of this request.
Answered ==
    /\ reader = "await" /\ answers # <<>>
    /\ answers' = Tail(answers)
    /\ next' = Head(answers)
    /\ IF next' = None
       THEN sock' = sock /\ Goes("wait")
       ELSE /\ sock' = [sock EXCEPT ![next'] = [@ EXCEPT !.client = "bridge"]]
            /\ Goes("header")
    /\ UNCHANGED <<worker, holding, asks, link>>

\* Two seconds are over, or the socket is closed.
Unanswered ==
    /\ reader = "await"
    /\ Goes("wait")
    /\ UNCHANGED <<sock, broker, next>>

Compatible ==
    /\ reader = "header" /\ sock[next].head = "same"
    /\ sock' = Unread(next)
    /\ Goes("adopt")
    /\ UNCHANGED <<broker, next>>

\* Another display, no header, or none within two seconds.
Refused ==
    /\ reader = "header"
    /\ sock' = Dropped(sock, next)
    /\ next' = None
    /\ Goes("wait")
    /\ UNCHANGED broker

\* The new connection is the one a stop closes, from now on: a stop in between has closed the
\* old one, and this one is then read until it ends.
Adopt ==
    /\ reader = "adopt"
    /\ conn' = next /\ next' = None
    /\ reader' = "feed"
    /\ UNCHANGED <<source, keyed, bridge, stop, peers>>

\* 250 ms.
Retry ==
    /\ reader = "wait" /\ stop = "no"
    /\ Goes("ask")
    /\ UNCHANGED <<sock, broker, next>>

\* recoveryDone is closed.
ReaderReturns ==
    /\ reader \in {"ask", "wait"} /\ stop # "no"
    /\ Goes("done")
    /\ UNCHANGED <<sock, broker, next>>

-----------------------------------------------------------------------------
(* The stop: fail, first stopRecovery, then the viewers *)

StopRecovery ==
    /\ stop = "no" /\ reader # "first"
    /\ stop' = "stopped"
    /\ link' = FALSE /\ answers' = <<>>
    /\ sock' = [c \in Conns |-> IF c = conn \/ sock[c].client = "flight"
                                THEN Dropped(sock, c)[c] ELSE sock[c]]
    /\ UNCHANGED <<made, daemon, worker, holding, asks, feed, bridge, peers>>

Fail ==
    /\ stop = "stopped"
    /\ stop' = "failed"
    /\ peer' = Closing(viewers)
    /\ UNCHANGED <<source, feed, bridge, viewers>>

-----------------------------------------------------------------------------
(* Viewers *)

Becomes(v, p) ==
    /\ peer' = [peer EXCEPT ![v] = p]
    /\ UNCHANGED <<source, feed, bridge, stop>>

\* What pruneViewersLocked leaves: whoever is closed goes, and whose close is under way may.
Pruned == {vs \in SUBSET viewers :
             /\ {v \in viewers : peer[v].life \in {"offered", "live"}} \subseteq vs
             /\ \A v \in vs : peer[v].life # "closed"}

\* Mutation of Offer: failure is not looked at under the mutex.
OfferUnchecked(v) ==
    /\ peer[v].life = "new" /\ reader # "first"
    /\ \E vs \in Pruned : Cardinality(vs) < MaxViewers /\ viewers' = vs \cup {v}
    /\ Becomes(v, Idle("offered"))

\* offer: refused after a failure, and beyond MaxViewers.
Offer(v) ==
    /\ peer[v].life = "new" /\ reader # "first" /\ stop # "failed"
    /\ \E vs \in Pruned : Cardinality(vs) < MaxViewers /\ viewers' = vs \cup {v}
    /\ Becomes(v, Idle("offered"))

\* Its PeerConnection is connected.
Connects(v) ==
    /\ peer[v].life = "offered"
    /\ Becomes(v, [peer[v] EXCEPT !.life = "live"])
    /\ UNCHANGED viewers

\* The callback that says so, however late.
OnConnected(v) ==
    /\ peer[v].life = "live" /\ peer[v].ready
    /\ Becomes(v, [peer[v] EXCEPT !.ready = FALSE])
    /\ UNCHANGED viewers

\* The peer is lost, never connected, or its negotiation failed.
Loses(v) ==
    /\ peer[v].life \in {"offered", "live"}
    /\ Becomes(v, Idle("closing"))
    /\ UNCHANGED viewers

CloseViewer(v) ==
    /\ peer[v].life = "closing"
    /\ Becomes(v, Idle("closed"))
    /\ UNCHANGED viewers

\* The goroutine waiting for done removes it.
Collect(v) ==
    /\ peer[v].life = "closed" /\ v \in viewers
    /\ viewers' = viewers \ {v}
    /\ UNCHANGED <<source, feed, bridge, stop, peer>>

\* The goroutine of the viewer receives a sample.
Take(v) ==
    /\ peer[v].taken = NoSample /\ peer[v].queue # <<>>
    /\ Becomes(v, [peer[v] EXCEPT !.taken = Head(peer[v].queue), !.queue = Tail(@)])
    /\ UNCHANGED viewers

Written(v) ==
    Becomes(v, [peer[v] EXCEPT !.taken = NoSample,
                               !.shown = [of |-> peer[v].taken.of, n |-> peer[v].taken.n]])
Skipped(v) == Becomes(v, [peer[v] EXCEPT !.taken = NoSample])

\* Mutation of WriteSample: the generation is not compared.
WriteSampleAny(v) ==
    /\ peer[v].taken # NoSample
    /\ \/ recovering /\ Skipped(v)
       \/ ~recovering /\ (Written(v) \/ Becomes(v, Idle("closing")))
    /\ UNCHANGED viewers

\* Under the mutex: a sample of a capture that was lost is left out; a write that fails ends
\* the viewer.
WriteSample(v) ==
    /\ peer[v].taken # NoSample
    /\ LET lost == recovering \/ peer[v].taken.gen # generation
       IN \/ lost /\ Skipped(v)
          \/ ~lost /\ (Written(v) \/ Becomes(v, Idle("closing")))
    /\ UNCHANGED viewers

-----------------------------------------------------------------------------

SourceSteps == SourceNext /\ UNCHANGED <<feed, bridge, stop, peers>>

ReaderSteps ==
    \/ FirstHeader \/ Feed \/ FeedEnds \/ Pause \/ BeginRecovery
    \/ Ask \/ AskFails \/ Answered \/ Unanswered \/ Compatible \/ Refused \/ Adopt
    \/ Retry \/ ReaderReturns

ViewerSteps(v) ==
    \/ Offer(v) \/ Connects(v) \/ OnConnected(v) \/ Loses(v) \/ CloseViewer(v) \/ Collect(v)
    \/ Take(v) \/ WriteSample(v)

Next == SourceSteps \/ ReaderSteps \/ StopRecovery \/ Fail \/ \E v \in Viewers : ViewerSteps(v)

Spec == Init /\ [][Next]_vars

\* The threads of the daemon run. A client has two seconds to read; an encoder, which works at
\* a frame rate, gives output or ends. A capture loop whose writer has ended is told, or its
\* encoder has nobody to write to, and ends.
FairSpec ==
    /\ Spec
    /\ WF_source(MainStep) /\ WF_source(PumpStep)
    /\ WF_source(pump = "ended" /\ CaptureEnds)

-----------------------------------------------------------------------------
(* Safety *)

\* What a viewer is shown can be decoded: a key frame, or the frame after the one it was
\* shown last. It never misses one unawares (broadcast, the viewer's goroutine).
PictureContinues ==
    [][\A v \in Viewers :
        LET was == peer[v].shown
            is == peer'[v].shown
        IN is # was /\ is # Unseen =>
            peer[v].taken.key \/ (is.of = was.of /\ is.n = was.n + 1)]_vars

\* While a capture is being replaced nothing is shown, and afterwards nothing that is left of
\* the one that was lost: neither from a channel nor from the hands of a goroutine
\* (beginRecovery, the viewer's goroutine).
LostPictureNotShown ==
    [][\A v \in Viewers :
        peer'[v].shown # peer[v].shown /\ peer'[v].shown # Unseen =>
            ~recovering /\ peer'[v].shown.of = conn]_vars

\* Once a capture has been lost, input gets through only while a later one is read and has
\* shown a key frame: not while the reader asks, retries or returns (beginRecovery, broadcast).
InputNeedsPicture ==
    generation > 0 /\ ~paused => reader \in {"feed", "pause"} /\ keyed = conn

\* Whoever offers while the server stops, no viewer is left open (fail, offer).
FailureClosesAll == stop = "failed" => \A v \in viewers : peer[v].life \in {"closing", "closed"}

-----------------------------------------------------------------------------
(* Liveness *)

\* A connection that nobody reads, since its client is gone or never received it, does not
\* keep the daemon from the next one (serve, serve_x11).
UnreadIsLeft ==
    \A c \in Conns : serving = c /\ sock[c].client # "bridge"
                    ~> serving # c \/ sock[c].client = "bridge"
=============================================================================
