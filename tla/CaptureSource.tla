---------------------------- MODULE CaptureSource ----------------------------
(***************************************************************************)
(* Where the console's pictures come from: the capture daemon              *)
(* (device/console/src/bin/daemon.rs), which serves one connection at a    *)
(* time from DRM or X11 through an encoder process, and the worker of the  *)
(* socket broker (socket-broker.rs) that opens connections to it and hands *)
(* them, as descriptors, to a client that may not open them itself.        *)
(*                                                                         *)
(* A socket holds what its client has not read yet after its server is     *)
(* gone; a descriptor in flight is held by nobody.  A record stands for    *)
(* one picture, complete: how records are cut is left out.  The daemon may *)
(* die at any moment and be started again by its supervisor.  Peers it     *)
(* rejects, errors of accept, other clients of the broker and the limit of *)
(* its workers are left out.                                               *)
(***************************************************************************)
EXTENDS Integers, Sequences, FiniteSets

CONSTANTS
    MaxConns,   \* connections to the daemon
    Backlog,    \* the accept queue of the daemon
    MaxBuffer,  \* records a socket holds
    MaxFrames,  \* records of one connection
    MaxAsks,    \* requests and answers the broker's socket holds
    None

Conns == 1..MaxConns

ASSUME SourceAssumption ==
    /\ MaxConns \in Nat \ {0} /\ Backlog \in Nat \ {0} /\ MaxBuffer \in Nat \ {0}
    /\ MaxFrames \in Nat /\ MaxAsks \in Nat
    /\ None \notin Nat

VARIABLES
    sock,      \* each connection: who holds its ends, what its client has not read
    made,      \* connections made so far
    at,        \* where the main thread of the daemon is
    serving,   \* the connection it serves
    pump,      \* where the loop from the encoder to the stream is
    sent,      \* records it has read from the encoder of this connection
    worker,    \* the broker's worker for this client: reading, answering, gone
    holding,   \* the connection it has opened and not answered with yet
    asks,      \* requests it has not read
    answers,   \* answers the client has not read: connections, or None
    link       \* the client's end of the broker's socket is open

daemon == <<at, serving, pump, sent>>
broker == <<worker, holding, asks, answers, link>>
source == <<sock, made, daemon, broker>>

Frames == [of : Conns, n : 1..MaxFrames, key : BOOLEAN]
NoFrame == [of |-> 0, n |-> 0, key |-> FALSE]

SourceTypeOK ==
    /\ sock \in [Conns -> [client : {"none", "broker", "flight", "bridge", "closed"},
                           server : {"none", "queued", "served", "closed"},
                           head : {"none", "same", "other"},
                           data : Seq(Frames)]]
    /\ made \in 0..MaxConns
    /\ at \in {"accept", "open", "encode", "grab", "join", "spawn", "x11", "down"}
    /\ serving \in Conns \cup {None}
    /\ pump \in {"none", "read", "head", "write", "ended"}
    /\ sent \in 0..MaxFrames
    /\ worker \in {"reading", "answering", "gone"}
    /\ holding \in Conns \cup {None}
    /\ asks \in Nat
    /\ answers \in Seq(Conns \cup {None})
    /\ link \in BOOLEAN

Unused == [client |-> "none", server |-> "none", head |-> "none", data |-> <<>>]

\* The launcher has opened the first connection, and one to the broker, before it starts the
\* client; what is in the first one so far is nothing.
SourceInit ==
    /\ sock = [c \in Conns |-> IF c = 1 THEN [Unused EXCEPT !.client = "bridge",
                                                            !.server = "queued"]
                               ELSE Unused]
    /\ made = 1
    /\ at = "accept" /\ serving = None /\ pump = "none" /\ sent = 0
    /\ worker = "reading" /\ holding = None /\ asks = 0 /\ answers = <<>> /\ link = TRUE

\* The client closes its end: what it has not read is lost.
Dropped(s, c) == [s EXCEPT ![c] = [@ EXCEPT !.client = "closed", !.head = "none",
                                            !.data = <<>>]]
\* The daemon closes its end.
HungUp(s, c) == [s EXCEPT ![c] = [@ EXCEPT !.server = "closed"]]

-----------------------------------------------------------------------------
(* The daemon: run, serve, serve_x11. The encoder process lives from StartEncoder until   *)
(* CaptureEnds (DRM) or Join (X11), if it does not end by itself. The flag stopped is not *)
(* a variable: it is set once the pump has ended or the capture loop has (at = "join").   *)

\* run: the oldest connection waiting is served to its end before the next.
\* The source is an argument of the daemon, which may differ when it is started again; here
\* each connection may be served from DRM or from X11.
Accept ==
    /\ at = "accept"
    /\ \E c \in Conns :
        /\ sock[c].server = "queued"
        /\ \A d \in Conns : sock[d].server = "queued" => c <= d
        /\ serving' = c
        /\ sock' = [sock EXCEPT ![c] = [@ EXCEPT !.server = "served"]]
    /\ at' \in {"open", "spawn"}
    /\ UNCHANGED <<made, pump, sent, broker>>

Return ==
    /\ sock' = HungUp(sock, serving)
    /\ at' = "accept" /\ serving' = None
    /\ pump' = "none" /\ sent' = 0
    /\ UNCHANGED <<made, broker>>

\* serve: no display, or more than one; the encoder cannot be started; the client is gone.
ServeFails ==
    /\ at \in {"open", "encode", "spawn"}
    /\ Return

\* write_header: DRM declares the stream before there is an encoder, X11 once there is a
\* first record. The display may not be the one it was.
Declare ==
    /\ \/ at = "open" /\ at' = "encode" /\ pump' = pump
       \/ pump = "head" /\ pump' = "write" /\ at' = at
    /\ sock[serving].client # "closed"
    /\ \E h \in {"same", "other"} : sock' = [sock EXCEPT ![serving] = [@ EXCEPT !.head = h]]
    /\ UNCHANGED <<made, serving, sent, broker>>

\* start_encoder: from here two threads share the work (DRM), or one does all (X11).
StartEncoder ==
    /\ \/ at = "encode" /\ at' = "grab"
       \/ at = "spawn" /\ at' = "x11"
    /\ pump' = "read"
    /\ UNCHANGED <<sock, made, serving, sent, broker>>

\* output.read: the next record.
ReadEncoder ==
    /\ pump = "read" /\ sent < MaxFrames
    /\ sent' = sent + 1
    /\ pump' = IF at = "x11" /\ sent = 0 THEN "head" ELSE "write"
    /\ UNCHANGED <<sock, made, at, serving, broker>>

\* The loop ends. The writer of DRM owns the stream, which ends with it; X11 keeps it until
\* its encoder is stopped.
PumpEnds ==
    /\ pump' = "ended"
    /\ sock' = IF at = "x11" THEN sock ELSE HungUp(sock, serving)
    /\ UNCHANGED <<made, at, serving, sent, broker>>

\* output.read returns nothing, or an error: the encoder has ended, killed or by itself (as it
\* does after MaxFrames records, a bound of the model).
ReadEnds ==
    /\ pump = "read"
    /\ PumpEnds

\* write_record. The writer of DRM looks at stopped before it reads again.
WriteRecord ==
    /\ pump = "write" /\ sock[serving].client # "closed"
    /\ Len(sock[serving].data) < MaxBuffer
    /\ \E k \in BOOLEAN :
        LET f == [of |-> serving, n |-> sent, key |-> k]
            s == [sock EXCEPT ![serving].data = Append(@, f)]
        IN sock' = IF at = "join" THEN HungUp(s, serving) ELSE s
    /\ pump' = IF at = "join" THEN "ended" ELSE "read"
    /\ UNCHANGED <<made, at, serving, sent, broker>>

\* Mutation of WriteEnds: no write timeout.
WriteEndsUntimed ==
    /\ pump \in {"head", "write"} /\ sock[serving].client = "closed"
    /\ PumpEnds

\* write_header or write_record fails: the client is gone, or has not read for two seconds.
WriteEnds ==
    /\ \/ pump \in {"head", "write"} /\ sock[serving].client = "closed"
       \/ pump = "write" /\ Len(sock[serving].data) = MaxBuffer
    /\ PumpEnds

\* serve: the capture loop ends, when it is told to or by itself (no frame, another geometry,
\* an encoder that takes nothing more), and stops the encoder. X11 has no such loop.
CaptureEnds ==
    /\ at = "grab"
    /\ at' = "join"
    /\ UNCHANGED <<sock, made, serving, pump, sent, broker>>

\* writer.join and the end of serve; serve_x11 stops its encoder and returns.
Join ==
    /\ at \in {"join", "x11"} /\ pump = "ended"
    /\ Return

\* The daemon ends: killed, or run returns. Its sockets close; what it has written stays.
DaemonDies ==
    /\ at # "down"
    /\ sock' = [c \in Conns |-> IF sock[c].server \in {"queued", "served"}
                                THEN [sock[c] EXCEPT !.server = "closed"] ELSE sock[c]]
    /\ at' = "down" /\ serving' = None
    /\ pump' = "none" /\ sent' = 0
    /\ UNCHANGED <<made, broker>>

DaemonStarts ==
    /\ at = "down"
    /\ at' = "accept"
    /\ UNCHANGED <<sock, made, serving, pump, sent, broker>>

-----------------------------------------------------------------------------
(* The broker's worker: serve, command *)

Queued == {c \in Conns : sock[c].server = "queued"}

\* command: capture_connect does not wait: a daemon that is down, or has no room in its
\* queue, is an answer too.
TakeAsk ==
    /\ worker = "reading" /\ asks > 0
    /\ asks' = asks - 1 /\ worker' = "answering"
    /\ \/ /\ at # "down" /\ Cardinality(Queued) < Backlog /\ made < MaxConns
          /\ made' = made + 1 /\ holding' = made + 1
          /\ sock' = [sock EXCEPT ![made + 1] = [@ EXCEPT !.client = "broker",
                                                          !.server = "queued"]]
       \/ UNCHANGED <<sock, made, holding>>
    /\ UNCHANGED <<daemon, answers, link>>

\* send_result: once sent, the descriptor is in flight, and the worker closes its own.
SendAnswer ==
    /\ worker = "answering" /\ link
    /\ answers' = Append(answers, holding)
    /\ sock' = IF holding = None THEN sock
               ELSE [sock EXCEPT ![holding] = [@ EXCEPT !.client = "flight"]]
    /\ holding' = None /\ worker' = "reading"
    /\ UNCHANGED <<made, daemon, asks, link>>

\* send_result fails: nobody is there, or its 100 ms are over before it could send. That is
\* the end of the worker and of its socket.
SendFails ==
    /\ worker = "answering"
    /\ sock' = IF holding = None THEN sock ELSE Dropped(sock, holding)
    /\ holding' = None /\ worker' = "gone"
    /\ UNCHANGED <<made, daemon, asks, answers, link>>

\* serve ends: the client is gone, or the broker was told to stop.
WorkerEnds ==
    /\ worker = "reading"
    /\ worker' = "gone"
    /\ UNCHANGED <<sock, made, daemon, holding, asks, answers, link>>

-----------------------------------------------------------------------------

\* What the threads of the daemon do by themselves: every wait of theirs is bounded.
MainStep == Accept \/ ServeFails \/ Declare \/ StartEncoder \/ Join
PumpStep == ReadEncoder \/ ReadEnds \/ WriteRecord \/ WriteEnds
WorkerStep == TakeAsk \/ SendAnswer \/ SendFails

SourceNext ==
    \/ MainStep \/ PumpStep \/ WorkerStep
    \/ CaptureEnds \/ WorkerEnds
    \/ DaemonDies \/ DaemonStarts
=============================================================================
