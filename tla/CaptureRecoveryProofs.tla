------------------------- MODULE CaptureRecoveryProofs -------------------------
(* Proofs about CaptureRecovery, for any number of connections, records, answers *)
(* and viewers, and any capacity of the queues and sockets.                      *)
EXTENDS CaptureRecovery, TLAPS

-----------------------------------------------------------------------------
(* The invariant for the capture daemon: what a connection holds that its client has not    *)
(* read are the last records of it that the daemon has written, in order.                   *)

\* Records written so far to the connection that is served.
Upto == IF pump \in {"head", "write"} THEN sent - 1 ELSE sent

Serving ==
    /\ serving = None <=> at \in {"accept", "down"}
    /\ pump = "none" <=> at \in {"accept", "down", "open", "encode", "spawn"}
    /\ pump = "none" => sent = 0
    /\ pump \in {"head", "write"} => sent >= 1
    /\ serving # None => sock[serving].server \in {"served", "closed"}

Recorded(c) ==
    /\ c > made => sock[c] = Unused
    /\ sock[c].server \in {"none", "queued"} => sock[c].data = <<>>
    /\ \A i \in DOMAIN sock[c].data :
        sock[c].data[i].of = c /\ sock[c].data[i].n = sock[c].data[1].n + i - 1
    /\ serving = c /\ pump # "ended" /\ sock[c].data # <<>> =>
        sock[c].data[Len(sock[c].data)].n = Upto

SourceInv == SourceTypeOK /\ Serving /\ \A c \in Conns : Recorded(c)

Socket == [client : {"none", "broker", "flight", "bridge", "closed"},
           server : {"none", "queued", "served", "closed"},
           head : {"none", "same", "other"},
           data : Seq(Frames)]

Drop(s) == [s EXCEPT !.client = "closed", !.head = "none", !.data = <<>>]

LEMMA DropType ==
    ASSUME NEW s \in Socket
    PROVE  /\ Drop(s) \in Socket /\ Drop(s).client = "closed" /\ Drop(s).data = <<>>
           /\ Drop(s).server = s.server
<1>1. \E d \in Seq(Frames) : d = <<>>
  <2>1. <<>> \in Seq(Frames)
    OBVIOUS
  <2>2. QED
    BY <2>1, Zenon
<1>2. [s EXCEPT !.client = "closed", !.head = "none", !.data = <<>>] \in Socket
  <2>1. PICK d \in Seq(Frames) : d = <<>>
    BY <1>1
  <2>2. [s EXCEPT !.client = "closed", !.head = "none", !.data = d] \in Socket
    BY DEF Socket
  <2>3. QED
    BY <2>1, <2>2
<1>3. [s EXCEPT !.client = "closed", !.head = "none", !.data = <<>>].client = "closed"
  BY DEF Socket
<1>4. [s EXCEPT !.client = "closed", !.head = "none", !.data = <<>>].server = s.server
  BY DEF Socket
<1>5. [s EXCEPT !.client = "closed", !.head = "none", !.data = <<>>].data = <<>>
  BY DEF Socket
<1>6. QED
  BY <1>1, <1>2, <1>3, <1>4, <1>5 DEF Drop

LEMMA SourceTypes ==
    ASSUME SourceTypeOK
    PROVE  /\ sock \in [Conns -> Socket]
           /\ \A c \in Conns : sock[c] \in Socket /\ sock[c].data \in Seq(Frames)
           /\ made \in Nat /\ sent \in Nat /\ Conns \subseteq Nat \ {0} /\ None \notin Conns
BY SourceAssumption DEF SourceTypeOK, Socket, Conns

LEMMA FrameNumbers ==
    ASSUME NEW d \in Seq(Frames)
    PROVE  \A i \in DOMAIN d : d[i] \in Frames /\ d[i].n \in Nat
<1>1. \A f \in Frames : f.n \in Nat
  BY SourceAssumption DEF Frames
<1>2. QED
  BY <1>1

LEMMA TailIs ==
    ASSUME NEW T, NEW s \in Seq(T), s # <<>>
    PROVE  /\ Tail(s) \in Seq(T) /\ Head(s) \in T /\ Head(s) = s[1]
           /\ Len(s) \in Nat \ {0} /\ Len(Tail(s)) = Len(s) - 1
           /\ DOMAIN Tail(s) = 1..Len(s) - 1 /\ DOMAIN s = 1..Len(s)
           /\ \A i \in 1..Len(s) - 1 : Tail(s)[i] = s[i + 1]
OBVIOUS

LEMMA AppendIs ==
    ASSUME NEW T, NEW s \in Seq(T), NEW x \in T
    PROVE  /\ Append(s, x) \in Seq(T) /\ Len(Append(s, x)) = Len(s) + 1
           /\ DOMAIN Append(s, x) = 1..Len(s) + 1 /\ DOMAIN s = 1..Len(s) /\ Len(s) \in Nat
           /\ \A i \in 1..Len(s) : Append(s, x)[i] = s[i]
           /\ Append(s, x)[Len(s) + 1] = x /\ Append(s, x) # <<>>
OBVIOUS

\* A step that writes no record of c.
LEMMA RecordedKept ==
    ASSUME SourceTypeOK, NEW c \in Conns, Recorded(c), made' \in Nat, made <= made',
           sock'[c].data \in {sock[c].data, <<>>}
             \/ (sock[c].data # <<>> /\ sock'[c].data = Tail(sock[c].data)),
           c > made' => sock'[c] = sock[c],
           sock'[c].server \in {"none", "queued"} =>
             sock[c].server \in {"none", "queued"} \/ sock'[c].data = <<>>,
           serving' = c /\ pump' # "ended" /\ sock'[c].data # <<>> =>
             serving = c /\ pump # "ended" /\ Upto' = Upto
    PROVE  Recorded(c)'
<1> DEFINE d == sock[c].data
           e == sock'[c].data
<1>1. d \in Seq(Frames) /\ made \in Nat /\ c \in Nat
  BY SourceTypes
<1>2. \A i \in DOMAIN d : d[i] \in Frames /\ d[i].n \in Nat
  BY <1>1, FrameNumbers
<1>3. /\ c > made => sock[c] = Unused
      /\ sock[c].server \in {"none", "queued"} => d = <<>>
      /\ \A i \in DOMAIN d : d[i].of = c /\ d[i].n = d[1].n + i - 1
      /\ serving = c /\ pump # "ended" /\ d # <<>> => d[Len(d)].n = Upto
  BY DEF Recorded
<1>4. c > made' => sock'[c] = Unused
  BY <1>1, <1>3
<1>5. /\ \A i \in DOMAIN e : e[i].of = c /\ e[i].n = e[1].n + i - 1
      /\ e # <<>> => d # <<>> /\ e[Len(e)] = d[Len(d)]
  <2>1. CASE e = d
    BY <1>3, <2>1
  <2>2. CASE e = <<>>
    BY <2>2
  <2>3. CASE d # <<>> /\ e = Tail(d)
    <3> HIDE DEF d, e
    <3>1. /\ Len(d) \in Nat \ {0} /\ DOMAIN e = 1..Len(d) - 1 /\ DOMAIN d = 1..Len(d)
          /\ Len(e) = Len(d) - 1 /\ \A i \in 1..Len(d) - 1 : e[i] = d[i + 1]
      BY <1>1, <2>3, TailIs
    <3>2. ASSUME NEW i \in DOMAIN e
          PROVE  e[i].of = c /\ e[i].n = e[1].n + i - 1
      <4>1. i \in Nat /\ 1 \in DOMAIN d /\ 2 \in DOMAIN d /\ i + 1 \in DOMAIN d /\ e[i] = d[i + 1]
            /\ e[1] = d[2]
        BY <3>1
      <4>2. d[i + 1].n = d[1].n + (i + 1) - 1 /\ d[2].n = d[1].n + 2 - 1 /\ d[1].n \in Nat
            /\ d[i + 1].of = c
        BY <1>2, <1>3, <4>1
      <4>3. QED
        BY <4>1, <4>2
    <3>3. e # <<>> => e[Len(e)] = d[Len(d)]
      <4> SUFFICES ASSUME e # <<>> PROVE e[Len(e)] = d[Len(d)]
        OBVIOUS
      <4>1. Len(e) \in 1..Len(d) - 1
        BY <1>1, <2>3, <3>1, TailIs
      <4>2. QED
        BY <3>1, <4>1
    <3>4. QED
      BY <2>3, <3>2, <3>3
  <2>4. QED
    BY <2>1, <2>2, <2>3
<1>6. sock'[c].server \in {"none", "queued"} => e = <<>>
  BY <1>3
<1>7. serving' = c /\ pump' # "ended" /\ e # <<>> => e[Len(e)].n = Upto'
  BY <1>3, <1>5
<1>8. QED
  BY <1>4, <1>5, <1>6, <1>7 DEF Recorded

\* What a close leaves.
LEMMA DroppedIs ==
    ASSUME SourceTypeOK, NEW c \in Conns
    PROVE  /\ Dropped(sock, c) \in [Conns -> Socket]
           /\ Dropped(sock, c)[c].client = "closed" /\ Dropped(sock, c)[c].data = <<>>
           /\ Dropped(sock, c)[c].server = sock[c].server
           /\ \A d \in Conns \ {c} : Dropped(sock, c)[d] = sock[d]
<1>1. Dropped(sock, c) = [sock EXCEPT ![c] = Drop(sock[c])]
  BY DEF Dropped, Drop
<1>2. sock \in [Conns -> Socket] /\ sock[c] \in Socket
  BY SourceTypes
<1>3. QED
  BY <1>1, <1>2, DropType

LEMMA HungUpIs ==
    ASSUME NEW t \in [Conns -> Socket], NEW c \in Conns
    PROVE  /\ HungUp(t, c) \in [Conns -> Socket]
           /\ HungUp(t, c)[c].client = t[c].client /\ HungUp(t, c)[c].server = "closed"
           /\ HungUp(t, c)[c].data = t[c].data
           /\ \A d \in Conns \ {c} : HungUp(t, c)[d] = t[d]
<1> DEFINE s == [t[c] EXCEPT !.server = "closed"]
<1>1. HungUp(t, c) = [t EXCEPT ![c] = s]
  BY DEF HungUp
<1>2. s \in Socket /\ s.client = t[c].client /\ s.server = "closed" /\ s.data = t[c].data
  BY DEF Socket
<1> HIDE DEF s
<1>3. QED
  BY <1>1, <1>2

\* A connection that is served has been made.
LEMMA ServedMade ==
    ASSUME SourceInv, serving # None
    PROVE  serving \in Conns /\ serving <= made
<1>1. serving \in Conns /\ made \in Nat /\ serving \in Nat
  BY SourceTypes DEF SourceInv, SourceTypeOK
<1>2. Unused.server = "none"
  BY DEF Unused
<1>3. QED
  BY <1>1, <1>2 DEF SourceInv, Serving, Recorded

\* The invariant from its parts, when no record is written.
LEMMA SourceInvKept ==
    ASSUME SourceInv, SourceTypeOK', Serving', made <= made',
           \A c \in Conns :
             /\ sock'[c].data \in {sock[c].data, <<>>}
                  \/ (sock[c].data # <<>> /\ sock'[c].data = Tail(sock[c].data))
             /\ c > made' => sock'[c] = sock[c]
             /\ sock'[c].server \in {"none", "queued"} =>
                  sock[c].server \in {"none", "queued"} \/ sock'[c].data = <<>>
             /\ serving' = c /\ pump' # "ended" /\ sock'[c].data # <<>> =>
                  serving = c /\ pump # "ended" /\ Upto' = Upto
    PROVE  SourceInv'
<1>1. made' \in Nat
  BY SourceAssumption DEF SourceTypeOK
<1>2. \A c \in Conns : Recorded(c)'
  BY <1>1, RecordedKept DEF SourceInv
<1>3. QED
  BY <1>2 DEF SourceInv

LEMMA SourceInvSame ==
    ASSUME SourceInv, SourceTypeOK', Serving', UNCHANGED <<sock, made, serving>>,
           pump' # "ended" => pump # "ended", Upto' = Upto
    PROVE  SourceInv'
<1>1. made' \in Nat /\ made <= made' /\ \A c \in Conns : sock'[c] = sock[c]
  BY SourceTypes DEF SourceInv
<1>2. QED
  BY <1>1, SourceInvKept

LEMMA MainKept ==
    ASSUME SourceInv, MainStep \/ CaptureEnds \/ DaemonDies \/ DaemonStarts
    PROVE  SourceInv'
<1> USE DEF SourceInv
<1>1. /\ sock \in [Conns -> Socket] /\ \A c \in Conns : sock[c] \in Socket
      /\ made \in Nat /\ Conns \subseteq Nat /\ None \notin Conns
  BY SourceTypes
<1>2. made' = made /\ UNCHANGED broker /\ 0 \in 0..MaxFrames
  BY SourceAssumption
  DEF MainStep, Accept, ServeFails, Declare, StartEncoder, Join, Return, CaptureEnds,
      DaemonDies, DaemonStarts
<1>4. CASE Accept
  <2>1. PICK c \in Conns : /\ sock[c].server = "queued" /\ serving' = c
                           /\ sock' = [sock EXCEPT ![c] = [sock[c] EXCEPT !.server = "served"]]
    BY <1>4 DEF Accept
  <2> DEFINE s == [sock[c] EXCEPT !.server = "served"]
  <2>2. s \in Socket /\ s.data = sock[c].data /\ s.server = "served"
    BY <1>1 DEF Socket
  <2> HIDE DEF s
  <2>3. sock' \in [Conns -> Socket] /\ sock'[c] = s /\ \A d \in Conns \ {c} : sock'[d] = sock[d]
    BY <1>1, <2>1, <2>2 DEF s
  <2>4. /\ at = "accept" /\ serving = None /\ pump' = pump /\ sent' = sent
        /\ at' \in {"open", "spawn"}
    BY <1>4 DEF Accept, Serving
  <2>5. Unused.server = "none" /\ sock[c].data = <<>> /\ ~(c > made)
    BY <2>1 DEF Unused, Recorded
  <2>6. SourceTypeOK'
    BY <1>2, <2>1, <2>3, <2>4 DEF SourceTypeOK, Socket, broker
  <2>7. Serving'
    BY <1>1, <2>1, <2>2, <2>3, <2>4 DEF Serving
  <2>8. QED
    BY <1>1, <1>2, <2>1, <2>2, <2>3, <2>4, <2>5, <2>6, <2>7, SourceInvKept
<1>5. ASSUME serving # None, Return
      PROVE  SourceInv'
  <2>1. /\ serving \in Conns /\ serving <= made /\ sock' = HungUp(sock, serving)
        /\ at' = "accept" /\ serving' = None /\ pump' = "none" /\ sent' = 0
    BY <1>5, ServedMade DEF Return
  <2>2. /\ sock' \in [Conns -> Socket] /\ sock'[serving].server = "closed"
        /\ sock'[serving].data = sock[serving].data
        /\ \A d \in Conns \ {serving} : sock'[d] = sock[d]
    BY <1>1, <2>1, HungUpIs
  <2>3. SourceTypeOK'
    BY <1>2, <2>1, <2>2 DEF SourceTypeOK, Socket, broker
  <2>4. Serving'
    BY <2>1 DEF Serving
  <2>5. QED
    BY <1>1, <1>2, <2>1, <2>2, <2>3, <2>4, SourceInvKept
<1>6. CASE ServeFails
  BY <1>5, <1>6 DEF ServeFails, Serving
<1>7. CASE Join
  BY <1>5, <1>7 DEF Join, Serving
<1>8. CASE Declare
  <2>1. PICK h \in {"same", "other"} :
          sock' = [sock EXCEPT ![serving] = [sock[serving] EXCEPT !.head = h]]
    BY <1>8 DEF Declare
  <2> DEFINE s == [sock[serving] EXCEPT !.head = h]
  <2>2. serving \in Conns /\ serving <= made
    BY <1>8, ServedMade DEF Declare, Serving
  <2>3. /\ s \in Socket /\ s.data = sock[serving].data /\ s.server = sock[serving].server
    BY <1>1, <2>2 DEF Socket
  <2> HIDE DEF s
  <2>4. /\ sock' \in [Conns -> Socket] /\ sock'[serving] = s
        /\ \A d \in Conns \ {serving} : sock'[d] = sock[d]
    BY <1>1, <2>1, <2>2, <2>3 DEF s
  <2>5. /\ serving' = serving /\ sent' = sent
        /\ \/ at = "open" /\ at' = "encode" /\ pump' = pump
           \/ pump = "head" /\ pump' = "write" /\ at' = at
    BY <1>8 DEF Declare
  <2>6. SourceTypeOK'
    BY <1>2, <2>4, <2>5 DEF SourceTypeOK, Socket, broker
  <2>7. Serving'
    BY <2>2, <2>3, <2>4, <2>5 DEF Serving
  <2>8. Upto' = Upto
    BY <2>5 DEF Upto, Serving
  <2>9. QED
    BY <1>1, <1>2, <2>2, <2>3, <2>4, <2>5, <2>6, <2>7, <2>8, SourceInvKept
<1>9. CASE StartEncoder
  <2>1. /\ UNCHANGED <<sock, serving, sent>> /\ serving # None /\ pump = "none" /\ pump' = "read"
        /\ at' \in {"grab", "x11"}
    BY <1>9 DEF StartEncoder, Serving
  <2>2. SourceTypeOK' /\ Serving' /\ Upto' = Upto
    BY <1>2, <2>1 DEF SourceTypeOK, Serving, Upto, broker
  <2>3. QED
    BY <1>2, <2>1, <2>2, SourceInvSame
<1>10. CASE CaptureEnds
  <2>1. UNCHANGED <<sock, serving, pump, sent>> /\ at = "grab" /\ at' = "join"
    BY <1>10 DEF CaptureEnds
  <2>2. SourceTypeOK' /\ Serving' /\ Upto' = Upto
    BY <1>2, <2>1 DEF SourceTypeOK, Serving, Upto, broker
  <2>3. QED
    BY <1>1, <1>2, <2>1, <2>2, SourceInvKept
<1>11. CASE DaemonDies
  <2>1. /\ sock' = [c \in Conns |-> IF sock[c].server \in {"queued", "served"}
                                    THEN [sock[c] EXCEPT !.server = "closed"] ELSE sock[c]]
        /\ at' = "down" /\ serving' = None /\ pump' = "none" /\ sent' = 0
    BY <1>11 DEF DaemonDies
  <2>2. ASSUME NEW c \in Conns
        PROVE  /\ sock'[c] \in Socket /\ sock'[c].data = sock[c].data
               /\ sock'[c].server \in {"none", "queued"} => sock'[c] = sock[c]
               /\ c > made => sock'[c] = sock[c]
    <3> DEFINE s == [sock[c] EXCEPT !.server = "closed"]
    <3>1. s \in Socket /\ s.data = sock[c].data /\ s.server = "closed"
      BY <1>1 DEF Socket
    <3> HIDE DEF s
    <3>2. sock'[c] = IF sock[c].server \in {"queued", "served"} THEN s ELSE sock[c]
      BY <2>1 DEF s
    <3>3. c > made => sock[c].server = "none"
      BY DEF Recorded, Unused
    <3>4. QED
      BY <1>1, <3>1, <3>2, <3>3
  <2>3. sock' \in [Conns -> Socket]
    <3>1. DOMAIN sock' = Conns /\ sock' = [c \in Conns |-> sock'[c]]
      BY <2>1
    <3>2. QED
      BY <2>2, <3>1
  <2>4. SourceTypeOK' /\ Serving'
    BY <1>2, <2>1, <2>3 DEF SourceTypeOK, Socket, Serving, broker
  <2>5. QED
    BY <1>1, <1>2, <2>1, <2>2, <2>4, SourceInvKept
<1>12. CASE DaemonStarts
  <2>1. UNCHANGED <<sock, serving, pump, sent>> /\ at = "down" /\ at' = "accept"
    BY <1>12 DEF DaemonStarts
  <2>2. SourceTypeOK' /\ Serving' /\ Upto' = Upto
    BY <1>2, <2>1 DEF SourceTypeOK, Serving, Upto, broker
  <2>3. QED
    BY <1>1, <1>2, <2>1, <2>2, SourceInvKept
<1>13. QED
  BY <1>4, <1>6, <1>7, <1>8, <1>9, <1>10, <1>11, <1>12 DEF MainStep

LEMMA PumpKept ==
    ASSUME SourceInv, PumpStep
    PROVE  SourceInv'
<1> USE DEF SourceInv
<1>1. /\ sock \in [Conns -> Socket] /\ \A c \in Conns : sock[c] \in Socket
      /\ made \in Nat /\ sent \in Nat /\ Conns \subseteq Nat
  BY SourceTypes
<1>2. /\ UNCHANGED <<made, at, serving, broker>> /\ pump \in {"read", "head", "write"}
      /\ serving # None /\ serving \in Conns /\ serving <= made
  BY ServedMade
  DEF PumpStep, ReadEncoder, ReadEnds, WriteRecord, WriteEnds, PumpEnds, Serving
<1>3. ASSUME PumpEnds
      PROVE  SourceInv'
  <2>1. pump' = "ended" /\ sent' = sent /\ sock' \in {sock, HungUp(sock, serving)}
    BY <1>3 DEF PumpEnds
  <2>2. /\ sock' \in [Conns -> Socket] /\ sock'[serving].data = sock[serving].data
        /\ sock'[serving].server \in {"closed", sock[serving].server}
        /\ \A d \in Conns \ {serving} : sock'[d] = sock[d]
    BY <1>1, <1>2, <2>1, HungUpIs
  <2>3. SourceTypeOK' /\ Serving'
    BY <1>2, <2>1, <2>2 DEF SourceTypeOK, Socket, Serving, broker
  <2>4. \A c \in Conns :
          /\ sock'[c].data = sock[c].data
          /\ c > made => sock'[c] = sock[c]
          /\ sock'[c].server \in {"none", "queued"} => sock[c].server \in {"none", "queued"}
    BY <1>1, <1>2, <2>2
  <2>5. QED
    BY <1>1, <1>2, <2>1, <2>3, <2>4, SourceInvKept
<1>4. CASE ReadEncoder
  <2>1. /\ sent' = sent + 1 /\ sent' \in 0..MaxFrames /\ sock' = sock
        /\ pump = "read" /\ pump' \in {"head", "write"}
    BY <1>1, <1>4, SourceAssumption DEF ReadEncoder
  <2>2. SourceTypeOK'
    BY <1>2, <2>1 DEF SourceTypeOK, broker
  <2>3. Serving' /\ Upto' = Upto
    BY <1>1, <1>2, <2>1 DEF Serving, Upto
  <2>4. \A c \in Conns : sock'[c] = sock[c]
    BY <2>1
  <2>5. QED
    BY <1>1, <1>2, <2>1, <2>2, <2>3, <2>4, SourceInvKept
<1>5. CASE ReadEnds \/ WriteEnds
  BY <1>3, <1>5 DEF ReadEnds, WriteEnds
<1>6. CASE WriteRecord
  <2> DEFINE data == sock[serving].data
  <2>1. PICK k \in BOOLEAN :
          LET f == [of |-> serving, n |-> sent, key |-> k]
              s == [sock EXCEPT ![serving].data = Append(@, f)]
          IN sock' = IF at = "join" THEN HungUp(s, serving) ELSE s
    BY <1>6 DEF WriteRecord
  <2> DEFINE f == [of |-> serving, n |-> sent, key |-> k]
             r == [sock[serving] EXCEPT !.data = Append(data, f)]
             t == [sock EXCEPT ![serving] = r]
  <2>2. /\ pump = "write" /\ sent' = sent /\ sent \in 1..MaxFrames
        /\ pump' \in {"read", "ended"} /\ sock[serving].server \in {"served", "closed"}
    BY <1>1, <1>2, <1>6, SourceAssumption DEF WriteRecord, Serving, SourceTypeOK
  <2>3. f \in Frames /\ f.of = serving /\ f.n = sent
    BY <1>2, <2>2 DEF Frames
  <2>4. data \in Seq(Frames)
    BY <1>2, SourceTypes
  <2>5. sock' = t \/ sock' = HungUp(t, serving)
    <3>1. CASE at = "join"
      BY <2>1, <3>1, Zenon
    <3>2. CASE at # "join"
      BY <2>1, <3>2, Zenon
    <3>3. QED
      BY <3>1, <3>2
  <2> HIDE DEF f
  <2>6. Append(data, f) \in Seq(Frames)
    BY <2>3, <2>4, AppendIs
  <2>7. r \in Socket /\ r.data = Append(data, f) /\ r.server = sock[serving].server
    BY <1>1, <1>2, <2>6 DEF Socket
  <2> HIDE DEF r
  <2>8. /\ t \in [Conns -> Socket] /\ t[serving] = r
        /\ \A d \in Conns \ {serving} : t[d] = sock[d]
    BY <1>1, <1>2, <2>7
  <2> HIDE DEF t
  <2>9. /\ sock' \in [Conns -> Socket] /\ sock'[serving].data = Append(data, f)
        /\ sock'[serving].server \in {"served", "closed"}
        /\ \A d \in Conns \ {serving} : sock'[d] = sock[d]
    BY <1>2, <2>2, <2>5, <2>7, <2>8, HungUpIs
  <2>10. SourceTypeOK' /\ Serving'
    BY <1>2, <2>2, <2>9 DEF SourceTypeOK, Socket, Serving, broker
  <2>11. Upto = sent - 1 /\ (pump' # "ended" => Upto' = sent)
    BY <2>2 DEF Upto
  <2>12. ASSUME NEW c \in Conns, c = serving
         PROVE  Recorded(c)'
    <3> DEFINE e == sock'[c].data
    <3>1. \A i \in DOMAIN data : data[i].of = c /\ data[i].n = data[1].n + i - 1
      BY <2>12 DEF Recorded
    <3>2. data # <<>> => data[Len(data)].n = sent - 1
      BY <2>2, <2>11, <2>12 DEF Recorded
    <3>3. \A i \in DOMAIN data : data[i].n \in Nat
      BY <2>4, FrameNumbers
    <3>4. e = Append(data, f)
      BY <2>9, <2>12
    <3> HIDE DEF data, e
    <3>5. /\ DOMAIN e = 1..Len(data) + 1 /\ DOMAIN data = 1..Len(data) /\ Len(data) \in Nat
          /\ \A i \in 1..Len(data) : e[i] = data[i]
          /\ e[Len(data) + 1] = f /\ e # <<>> /\ Len(e) = Len(data) + 1
      BY <2>3, <2>4, <3>4, AppendIs
    <3>9. /\ sock'[c].server \notin {"none", "queued"} /\ ~(c > made') /\ e # <<>>
          /\ pump' # "ended" => Upto' = sent
      BY <1>1, <1>2, <2>9, <2>11, <2>12, <3>5
    <3>6. CASE Len(data) = 0
      <4>1. DOMAIN e = {1} /\ e[1] = f /\ Len(e) = 1
        BY <3>5, <3>6
      <4>2. \A i \in DOMAIN e : e[i].of = c /\ e[i].n = e[1].n + i - 1
        BY <1>1, <2>3, <2>12, <4>1
      <4>3. e[Len(e)].n = sent
        BY <2>3, <4>1
      <4>4. QED
        BY <3>5, <3>9, <4>2, <4>3 DEF Recorded, e
    <3>7. CASE Len(data) # 0
      <4>1. data # <<>> /\ Len(data) \in DOMAIN data /\ 1 \in DOMAIN data
        BY <2>4, <3>5, <3>7
      <4>2. data[1].n + Len(data) - 1 = sent - 1 /\ data[1].n \in Nat
        BY <3>1, <3>2, <3>3, <4>1
      <4>3. \A i \in DOMAIN e : e[i].of = c /\ e[i].n = e[1].n + i - 1
        <5> SUFFICES ASSUME NEW i \in DOMAIN e
                     PROVE  e[i].of = c /\ e[i].n = e[1].n + i - 1
          OBVIOUS
        <5>1. e[1] = data[1]
          BY <3>5, <4>1
        <5>2. CASE i \in DOMAIN data
          BY <3>1, <3>5, <5>1, <5>2
        <5>3. CASE i = Len(data) + 1
          BY <1>1, <2>3, <2>12, <3>5, <4>2, <5>1, <5>3
        <5>4. QED
          BY <3>5, <5>2, <5>3
      <4>4. e[Len(e)].n = sent
        BY <2>3, <3>5
      <4>5. QED
        BY <3>5, <3>9, <4>3, <4>4 DEF Recorded, e
    <3>8. QED
      BY <3>6, <3>7
  <2>13. ASSUME NEW c \in Conns PROVE Recorded(c)'
    <3>1. CASE c = serving
      BY <2>12, <3>1
    <3>2. CASE c # serving
      <4>1. sock'[c] = sock[c] /\ made' = made /\ serving' # c
        BY <1>2, <2>9, <3>2
      <4>2. QED
        BY <1>1, <4>1, RecordedKept
    <3>3. QED
      BY <3>1, <3>2
  <2>14. QED
    BY <2>10, <2>13
<1>7. QED
  BY <1>4, <1>5, <1>6 DEF PumpStep

LEMMA WorkerKept ==
    ASSUME SourceInv, WorkerStep \/ WorkerEnds, holding # None => holding <= made
    PROVE  SourceInv'
<1> USE DEF SourceInv
<1>1. /\ sock \in [Conns -> Socket] /\ \A c \in Conns : sock[c] \in Socket
      /\ made \in Nat /\ made <= MaxConns /\ MaxConns \in Nat /\ Conns \subseteq Nat
      /\ None \notin Conns
  BY SourceTypes, SourceAssumption DEF SourceTypeOK
<1>2. UNCHANGED daemon /\ Upto' = Upto
  BY DEF WorkerStep, TakeAsk, SendAnswer, SendFails, WorkerEnds, daemon, Upto
<1>3. CASE TakeAsk
  <2>1. asks \in Nat /\ asks' = asks - 1 /\ asks' \in Nat
    BY <1>3 DEF TakeAsk, SourceTypeOK
  <2>2. CASE UNCHANGED <<sock, made, holding>>
    <3>1. SourceTypeOK' /\ Serving'
      BY <1>2, <1>3, <2>1, <2>2 DEF TakeAsk, SourceTypeOK, Serving, daemon
    <3>2. QED
      BY <1>2, <2>2, <3>1, SourceInvSame DEF daemon
  <2>3. CASE ~UNCHANGED <<sock, made, holding>>
    <3> DEFINE c == made + 1
               r == [sock[c] EXCEPT !.client = "broker", !.server = "queued"]
    <3>1. /\ c \in Conns /\ made' = c /\ holding' = c /\ sock' = [sock EXCEPT ![c] = r]
      BY <1>1, <1>3, <2>3 DEF TakeAsk, Conns
    <3>2. sock[c].data = <<>> /\ serving # c
      BY <1>1, <3>1, ServedMade DEF Recorded, Unused
    <3>3. r \in Socket /\ r.data = <<>>
      BY <1>1, <3>1, <3>2 DEF Socket
    <3> HIDE DEF r
    <3>4. /\ sock' \in [Conns -> Socket] /\ sock'[c] = r
          /\ \A d \in Conns \ {c} : sock'[d] = sock[d]
      BY <1>1, <3>1, <3>3
    <3>5. SourceTypeOK'
      BY <1>1, <1>2, <1>3, <2>1, <3>1, <3>4
      DEF TakeAsk, SourceTypeOK, Socket, daemon, Conns
    <3>6. Serving'
      BY <1>2, <3>2, <3>4 DEF Serving, SourceTypeOK, daemon
    <3>7. QED
      BY <1>1, <1>2, <3>1, <3>2, <3>3, <3>4, <3>5, <3>6, SourceInvKept DEF daemon
  <2>4. QED
    BY <2>2, <2>3
<1>4. CASE SendAnswer
  <2>1. answers' \in Seq(Conns \cup {None}) /\ UNCHANGED <<made, asks, link>>
        /\ holding' = None /\ worker' = "reading"
    BY <1>4 DEF SendAnswer, SourceTypeOK
  <2>2. /\ sock' \in [Conns -> Socket]
        /\ \A c \in Conns : /\ sock'[c].data = sock[c].data
                            /\ sock'[c].server = sock[c].server
                            /\ c # holding => sock'[c] = sock[c]
    <3>1. CASE holding = None
      BY <1>1, <1>4, <3>1 DEF SendAnswer
    <3>2. CASE holding # None
      <4> DEFINE r == [sock[holding] EXCEPT !.client = "flight"]
      <4>1. holding \in Conns /\ sock' = [sock EXCEPT ![holding] = r]
        BY <1>4, <3>2 DEF SendAnswer, SourceTypeOK
      <4>2. r \in Socket /\ r.data = sock[holding].data /\ r.server = sock[holding].server
        BY <1>1, <4>1 DEF Socket
      <4> HIDE DEF r
      <4>3. QED
        BY <1>1, <4>1, <4>2
    <3>3. QED
      BY <3>1, <3>2
  <2>3. SourceTypeOK'
    BY <1>2, <2>1, <2>2 DEF SourceTypeOK, Socket, daemon
  <2>4. Serving'
    BY <1>2, <2>2 DEF Serving, SourceTypeOK, daemon
  <2>5. \A c \in Conns : c > made => c # holding
    BY <1>1
  <2>6. QED
    BY <1>1, <1>2, <2>1, <2>2, <2>3, <2>4, <2>5, SourceInvKept DEF daemon
<1>5. CASE SendFails
  <2>1. /\ UNCHANGED <<made, asks, answers, link>> /\ holding' = None /\ worker' = "gone"
        /\ sock' = IF holding = None THEN sock ELSE Dropped(sock, holding)
        /\ holding \in Conns \cup {None}
    BY <1>5 DEF SendFails, SourceTypeOK
  <2>2. /\ sock' \in [Conns -> Socket]
        /\ \A c \in Conns : /\ sock'[c].data \in {sock[c].data, <<>>}
                            /\ sock'[c].server = sock[c].server
                            /\ c # holding => sock'[c] = sock[c]
    BY <1>1, <2>1, DroppedIs
  <2>3. SourceTypeOK'
    BY <1>2, <2>1, <2>2 DEF SourceTypeOK, Socket, daemon
  <2>4. Serving'
    BY <1>2, <2>2 DEF Serving, SourceTypeOK, daemon
  <2>5. \A c \in Conns : c > made => c # holding
    BY <1>1
  <2>6. QED
    BY <1>1, <1>2, <2>1, <2>2, <2>3, <2>4, <2>5, SourceInvKept DEF daemon
<1>6. CASE WorkerEnds
  <2>1. UNCHANGED <<sock, made, holding, asks, answers, link>> /\ worker' = "gone"
    BY <1>6 DEF WorkerEnds
  <2>2. SourceTypeOK' /\ Serving'
    BY <1>2, <2>1 DEF SourceTypeOK, Serving, daemon
  <2>3. QED
    BY <1>2, <2>1, <2>2, SourceInvSame DEF daemon
<1>7. QED
  BY <1>3, <1>4, <1>5, <1>6 DEF WorkerStep

LEMMA SourceKept ==
    ASSUME SourceInv, SourceNext, holding # None => holding <= made
    PROVE  SourceInv'
BY MainKept, PumpKept, WorkerKept DEF SourceNext

-----------------------------------------------------------------------------
(* The invariant for the reader: connections are used in the order in which they were made, *)
(* each recovery goes on to a later one.                                                    *)

Ordered ==
    /\ conn <= made
    /\ next # None <=> reader \in {"header", "adopt"}
    /\ next # None => conn < next /\ next <= made
    /\ holding # None => conn < holding /\ holding <= made /\ (next # None => next < holding)
    /\ \A i \in DOMAIN answers : answers[i] # None =>
        /\ conn < answers[i] /\ answers[i] <= made
        /\ next # None => next < answers[i]
        /\ holding # None => answers[i] < holding
    /\ \A i, j \in DOMAIN answers :
        i < j /\ answers[i] # None /\ answers[j] # None => answers[i] < answers[j]

Recovers ==
    /\ generation <= conn
    /\ reader \in {"first", "feed", "pause", "begin"} => generation < conn
    /\ reader = "first" => generation = 0
    /\ reader = "begin" => paused
    /\ reader \in {"ask", "await", "header", "adopt", "wait", "done"} => paused /\ recovering
    /\ reader \in {"feed", "pause"} /\ generation > 0 =>
        (paused <=> recovering) /\ (recovering \/ keyed = conn)

FeedTypeOK ==
    /\ reader \in {"first", "feed", "pause", "begin", "ask", "await", "header", "adopt", "wait",
                   "done"}
    /\ conn \in Conns /\ next \in Conns \cup {None}
    /\ keyed \in Conns \cup {None}
    /\ recovering \in BOOLEAN /\ generation \in Generations /\ paused \in BOOLEAN
    /\ stop \in {"no", "stopped", "failed"}

ReaderInv == SourceInv /\ FeedTypeOK /\ Ordered /\ Recovers

\* What the reader may do to the connection that it reads or refuses.
LEMMA Touched ==
    ASSUME SourceInv, NEW c \in Conns, c <= made, UNCHANGED <<made, daemon>>,
           sock' \in [Conns -> Socket], \A d \in Conns \ {c} : sock'[d] = sock[d],
           sock'[c].server = sock[c].server,
           sock'[c].data \in {sock[c].data, <<>>}
             \/ (sock[c].data # <<>> /\ sock'[c].data = Tail(sock[c].data)),
           asks' \in Nat, answers' \in Seq(Conns \cup {None}),
           UNCHANGED <<worker, holding, link>>
    PROVE  SourceInv'
<1>1. made \in Nat /\ None \notin Conns /\ Conns \subseteq Nat /\ Upto' = Upto
  BY SourceTypes DEF SourceInv, daemon, Upto
<1>2. SourceTypeOK'
  BY DEF SourceInv, SourceTypeOK, Socket, daemon
<1>3. Serving'
  BY DEF SourceInv, SourceTypeOK, Serving, daemon
<1>4. made <= made' /\ serving' = serving /\ pump' = pump
  BY <1>1 DEF daemon
<1>5. ASSUME NEW d \in Conns
      PROVE  /\ sock'[d].data \in {sock[d].data, <<>>}
                  \/ (sock[d].data # <<>> /\ sock'[d].data = Tail(sock[d].data))
             /\ d > made' => sock'[d] = sock[d]
             /\ sock'[d].server = sock[d].server
  <2>1. CASE d = c
    BY <1>1, <2>1
  <2>2. CASE d # c
    BY <2>2
  <2>3. QED
    BY <2>1, <2>2
<1>6. QED
  BY <1>1, <1>2, <1>3, <1>4, <1>5, SourceInvKept

LEMMA UnreadIs ==
    ASSUME SourceTypeOK, NEW c \in Conns
    PROVE  /\ Unread(c) \in [Conns -> Socket]
           /\ Unread(c)[c].client = sock[c].client /\ Unread(c)[c].server = sock[c].server
           /\ Unread(c)[c].data = sock[c].data
           /\ \A d \in Conns \ {c} : Unread(c)[d] = sock[d]
<1> DEFINE s == [sock[c] EXCEPT !.head = "none"]
<1>1. Unread(c) = [sock EXCEPT ![c] = s]
  BY DEF Unread
<1>2. sock \in [Conns -> Socket] /\ sock[c] \in Socket
  BY SourceTypes
<1>3. s \in Socket /\ s.client = sock[c].client /\ s.server = sock[c].server
      /\ s.data = sock[c].data
  BY <1>2 DEF Socket
<1> HIDE DEF s
<1>4. QED
  BY <1>1, <1>2, <1>3

LEMMA Next1Is ==
    ASSUME SourceTypeOK, NEW c \in Conns, sock[c].data # <<>>
    PROVE  /\ Next1(c) \in [Conns -> Socket]
           /\ Next1(c)[c].client = sock[c].client /\ Next1(c)[c].server = sock[c].server
           /\ Next1(c)[c].data = Tail(sock[c].data)
           /\ \A d \in Conns \ {c} : Next1(c)[d] = sock[d]
<1> DEFINE s == [sock[c] EXCEPT !.data = Tail(sock[c].data)]
<1>1. Next1(c) = [sock EXCEPT ![c] = s]
  BY DEF Next1
<1>2. sock \in [Conns -> Socket] /\ sock[c] \in Socket /\ Tail(sock[c].data) \in Seq(Frames)
  BY SourceTypes, TailIs
<1>3. s \in Socket /\ s.client = sock[c].client /\ s.server = sock[c].server
      /\ s.data = Tail(sock[c].data)
  BY <1>2 DEF Socket
<1> HIDE DEF s
<1>4. QED
  BY <1>1, <1>2, <1>3

\* What the reader and the stop do to the source.
LEMMA ReaderSource ==
    ASSUME ReaderInv, ReaderSteps \/ StopRecovery
    PROVE  SourceInv'
<1> USE DEF ReaderInv
<1>1. /\ SourceTypeOK /\ sock \in [Conns -> Socket] /\ \A c \in Conns : sock[c] \in Socket
      /\ made \in Nat /\ None \notin Conns /\ Conns \subseteq Nat /\ conn \in Conns
      /\ conn <= made /\ next \in Conns \cup {None} /\ asks \in Nat
      /\ answers \in Seq(Conns \cup {None})
  BY SourceTypes DEF SourceInv, SourceTypeOK, FeedTypeOK, Ordered
<1>2. CASE FirstHeader
  BY <1>1, <1>2, UnreadIs, Touched DEF FirstHeader, broker
<1>3. CASE Feed
  BY <1>1, <1>3, Next1Is, Touched DEF Feed, broker
<1>4. CASE FeedEnds
  BY <1>1, <1>4, DroppedIs, Touched DEF FeedEnds, broker
<1>5. CASE Pause \/ BeginRecovery \/ Ask \/ AskFails \/ Unanswered \/ Adopt \/ Retry
           \/ ReaderReturns
  <2>1. /\ UNCHANGED <<sock, made, daemon, worker, holding, answers, link>>
        /\ asks' \in {asks, asks + 1}
    <3>1. CASE Pause \/ BeginRecovery \/ Adopt
      BY <3>1 DEF Pause, BeginRecovery, Adopt, source, broker
    <3>2. CASE AskFails \/ Unanswered \/ Retry \/ ReaderReturns
      BY <3>2 DEF AskFails, Unanswered, Retry, ReaderReturns, Goes, broker
    <3>3. CASE Ask
      BY <3>3 DEF Ask, Goes
    <3>4. QED
      BY <1>5, <3>1, <3>2, <3>3
  <2>2. asks' \in Nat
    BY <1>1, <2>1
  <2>3. QED
    BY <1>1, <2>1, <2>2, Touched
<1>6. CASE Answered
  <2>1. /\ answers # <<>> /\ answers' = Tail(answers) /\ next' = Head(answers)
        /\ UNCHANGED <<made, daemon, worker, holding, asks, link>>
        /\ answers' \in Seq(Conns \cup {None}) /\ next' \in Conns \cup {None}
    BY <1>1, <1>6, TailIs DEF Answered, Goes
  <2>2. CASE next' = None
    <3>1. sock' = sock
      BY <1>6, <2>2 DEF Answered
    <3>2. QED
      BY <1>1, <2>1, <3>1, Touched
  <2>3. CASE next' # None
    <3> DEFINE s == [sock[next'] EXCEPT !.client = "bridge"]
    <3>1. next' \in Conns /\ sock' = [sock EXCEPT ![next'] = s]
      BY <1>6, <2>1, <2>3 DEF Answered
    <3>2. s \in Socket /\ s.server = sock[next'].server /\ s.data = sock[next'].data
      BY <1>1, <3>1 DEF Socket
    <3> HIDE DEF s
    <3>3. /\ sock' \in [Conns -> Socket] /\ sock'[next'] = s
          /\ \A d \in Conns \ {next'} : sock'[d] = sock[d]
      BY <1>1, <3>1, <3>2
    <3>4. next' <= made
      <4>1. 1 \in DOMAIN answers /\ answers[1] = next'
        BY <1>1, <2>1, TailIs
      <4>2. QED
        BY <2>3, <4>1 DEF Ordered
    <3>5. QED
      BY <1>1, <2>1, <3>1, <3>2, <3>3, <3>4, Touched
  <2>4. QED
    BY <2>2, <2>3
<1>7. CASE Compatible
  <2>1. next # None /\ next \in Conns /\ next <= made
    BY <1>1, <1>7 DEF Compatible, Ordered
  <2>2. QED
    BY <1>1, <1>7, <2>1, UnreadIs, Touched DEF Compatible, Goes, broker
<1>8. CASE Refused
  <2>1. next # None /\ next \in Conns /\ next <= made
    BY <1>1, <1>8 DEF Refused, Ordered
  <2>2. QED
    BY <1>1, <1>8, <2>1, DroppedIs, Touched DEF Refused, Goes, broker
<1>9. CASE StopRecovery
  <2>1. /\ sock' = [c \in Conns |-> IF c = conn \/ sock[c].client = "flight"
                                    THEN Dropped(sock, c)[c] ELSE sock[c]]
        /\ UNCHANGED <<made, daemon, worker, holding, asks>> /\ link' = FALSE /\ answers' = <<>>
    BY <1>9 DEF StopRecovery
  <2>2. ASSUME NEW c \in Conns
        PROVE  /\ sock'[c] \in Socket /\ sock'[c].data \in {sock[c].data, <<>>}
               /\ sock'[c].server = sock[c].server
               /\ c > made => sock'[c] = sock[c]
    <3>1. sock'[c] = IF c = conn \/ sock[c].client = "flight" THEN Dropped(sock, c)[c]
                     ELSE sock[c]
      BY <2>1
    <3>2. c > made => c # conn /\ sock[c].client = "none"
      BY <1>1 DEF SourceInv, Recorded, Unused
    <3>3. Dropped(sock, c)[c] \in Socket /\ Dropped(sock, c)[c].data = <<>>
          /\ Dropped(sock, c)[c].server = sock[c].server
      BY <1>1, DroppedIs
    <3>4. QED
      BY <1>1, <3>1, <3>2, <3>3
  <2>3. sock' \in [Conns -> Socket]
    <3>1. DOMAIN sock' = Conns /\ sock' = [c \in Conns |-> sock'[c]]
      BY <2>1
    <3>2. QED
      BY <2>2, <3>1
  <2>4. SourceTypeOK'
    <3>1. <<>> \in Seq(Conns \cup {None})
      OBVIOUS
    <3>2. link' \in BOOLEAN /\ answers' \in Seq(Conns \cup {None})
      BY <2>1, <3>1, Zenon
    <3>3. QED
      BY <1>1, <2>1, <2>3, <3>2 DEF SourceTypeOK, Socket, daemon
  <2>5. Serving' /\ Upto' = Upto
    BY <1>1, <2>1, <2>2 DEF SourceInv, SourceTypeOK, Serving, Upto, daemon
  <2>6. QED
    BY <1>1, <2>1, <2>2, <2>4, <2>5, SourceInvKept DEF daemon
<1>10. QED
  BY <1>2, <1>3, <1>4, <1>5, <1>6, <1>7, <1>8, <1>9 DEF ReaderSteps

-----------------------------------------------------------------------------
(* The order of the connections is kept. *)

LEMMA OrderedSource ==
    ASSUME ReaderInv, SourceNext, UNCHANGED feed
    PROVE  Ordered'
<1> USE DEF feed
<1>1. /\ made \in Nat /\ None \notin Nat /\ conn \in Nat /\ answers \in Seq(Conns \cup {None})
      /\ Conns \subseteq Nat /\ holding \in Conns \cup {None} /\ next \in Conns \cup {None}
  BY SourceTypes, SourceAssumption DEF ReaderInv, SourceInv, SourceTypeOK, FeedTypeOK
<1>2. \A i \in DOMAIN answers : answers[i] \in Conns \cup {None} /\ i \in Nat
  BY <1>1
<1>3. Ordered
  BY DEF ReaderInv
<1>4. CASE UNCHANGED <<made, holding, answers>>
  BY <1>3, <1>4 DEF Ordered
<1>5. CASE TakeAsk
  <2>1. UNCHANGED <<made, holding>> \/ (made' = made + 1 /\ holding' = made + 1)
    BY <1>5 DEF TakeAsk
  <2>2. UNCHANGED answers
    BY <1>5 DEF TakeAsk
  <2>3. CASE made' = made + 1 /\ holding' = made + 1
    <3>1. ASSUME NEW i \in DOMAIN answers, answers[i] # None
          PROVE  conn < answers[i] /\ answers[i] <= made + 1 /\ answers[i] < made + 1
      <4>1. answers[i] \in Nat
        BY <1>1, <1>2, <3>1
      <4>2. conn < answers[i] /\ answers[i] <= made
        BY <1>3, <3>1 DEF Ordered
      <4>3. QED
        BY <1>1, <4>1, <4>2
    <3>2. conn < made + 1 /\ (next # None => next < made + 1 /\ next <= made)
      BY <1>1, <1>3 DEF Ordered
    <3>4. made + 1 <= made + 1 /\ made + 1 # None /\ conn <= made + 1
            /\ (next # None => next <= made + 1)
      BY <1>1, <3>2
    <3>5. QED
      BY <1>3, <2>2, <2>3, <3>1, <3>2, <3>4 DEF Ordered
  <2>4. QED
    BY <1>4, <2>1, <2>2, <2>3
<1>6. CASE SendAnswer
  <2>1. /\ answers' = Append(answers, holding) /\ holding' = None /\ made' = made
    BY <1>6 DEF SendAnswer
  <2>2. /\ DOMAIN answers' = 1..Len(answers) + 1 /\ DOMAIN answers = 1..Len(answers)
        /\ Len(answers) \in Nat /\ answers'[Len(answers) + 1] = holding
        /\ \A i \in 1..Len(answers) : answers'[i] = answers[i]
    BY <1>1, <2>1, AppendIs
  <2>3. \A i \in DOMAIN answers' : i \in DOMAIN answers \/ i = Len(answers) + 1
    BY <2>2
  <2>4. \A i \in DOMAIN answers' : answers'[i] # None =>
          /\ conn < answers'[i] /\ answers'[i] <= made
          /\ next # None => next < answers'[i]
    BY <1>3, <2>2, <2>3 DEF Ordered
  <2>5. \A i, j \in DOMAIN answers' :
          i < j /\ answers'[i] # None /\ answers'[j] # None => answers'[i] < answers'[j]
    BY <1>3, <2>2, <2>3 DEF Ordered
  <2>6. QED
    BY <1>3, <2>1, <2>4, <2>5 DEF Ordered
<1>7. CASE SendFails
  <2>1. UNCHANGED <<made, answers>> /\ holding' = None
    BY <1>7 DEF SendFails
  <2>2. QED
    BY <1>3, <2>1 DEF Ordered
<1>8. CASE MainStep
  BY <1>4, <1>8
  DEF MainStep, Accept, ServeFails, Declare, StartEncoder, Join, Return, broker
<1>9. CASE PumpStep
  BY <1>4, <1>9 DEF PumpStep, ReadEncoder, ReadEnds, WriteRecord, WriteEnds, PumpEnds, broker
<1>10. CASE CaptureEnds \/ WorkerEnds \/ DaemonDies \/ DaemonStarts
  BY <1>4, <1>10 DEF CaptureEnds, WorkerEnds, DaemonDies, DaemonStarts, broker
<1>11. QED
  BY <1>5, <1>6, <1>7, <1>8, <1>9, <1>10 DEF SourceNext, WorkerStep

LEMMA OrderedReader ==
    ASSUME ReaderInv, ReaderSteps \/ StopRecovery
    PROVE  Ordered'
<1>1. /\ made \in Nat /\ None \notin Nat /\ conn \in Nat /\ answers \in Seq(Conns \cup {None})
      /\ Conns \subseteq Nat /\ holding \in Conns \cup {None} /\ next \in Conns \cup {None}
  BY SourceTypes, SourceAssumption DEF ReaderInv, SourceInv, SourceTypeOK, FeedTypeOK
<1>2. \A i \in DOMAIN answers : answers[i] \in Conns \cup {None} /\ i \in Nat
  BY <1>1
<1>3. Ordered
  BY DEF ReaderInv
<1>4. ASSUME UNCHANGED <<made, holding, answers, conn, next>>,
             reader' \in {"header", "adopt"} <=> reader \in {"header", "adopt"}
      PROVE  Ordered'
  BY <1>3, <1>4 DEF Ordered
<1>5. CASE FirstHeader \/ Feed \/ FeedEnds
  BY <1>4, <1>5 DEF FirstHeader, Feed, FeedEnds, broker
<1>6. CASE Pause \/ Ask
  BY <1>4, <1>6 DEF Pause, Ask, Goes, source, broker
<1>7. CASE BeginRecovery
  BY <1>4, <1>7 DEF BeginRecovery, source, broker
<1>8. CASE AskFails \/ Unanswered \/ Compatible \/ Retry \/ ReaderReturns
  BY <1>4, <1>8 DEF AskFails, Unanswered, Compatible, Retry, ReaderReturns, Goes, broker
<1>9. CASE Answered
  <2>1. /\ answers # <<>> /\ answers' = Tail(answers) /\ next' = Head(answers)
        /\ UNCHANGED <<made, conn, holding>> /\ reader = "await"
        /\ IF next' = None THEN reader' = "wait" ELSE reader' = "header"
    BY <1>9 DEF Answered, Goes
  <2>2. /\ DOMAIN answers' = 1..Len(answers) - 1 /\ DOMAIN answers = 1..Len(answers)
        /\ Len(answers) \in Nat \ {0} /\ next' = answers[1]
        /\ \A i \in 1..Len(answers) - 1 : answers'[i] = answers[i + 1]
    BY <1>1, <2>1, TailIs
  <2>3. \A i \in DOMAIN answers' : i + 1 \in DOMAIN answers /\ 1 < i + 1 /\ i \in Nat
                                    /\ answers'[i] = answers[i + 1]
    BY <2>2
  <2>4. 1 \in DOMAIN answers
    BY <2>2
  <2>5. \A i \in DOMAIN answers' : answers'[i] # None =>
          /\ conn < answers'[i] /\ answers'[i] <= made
          /\ next' # None => next' < answers'[i]
          /\ holding # None => answers'[i] < holding
    BY <1>3, <2>2, <2>3, <2>4 DEF Ordered
  <2>6. \A i, j \in DOMAIN answers' :
          i < j /\ answers'[i] # None /\ answers'[j] # None => answers'[i] < answers'[j]
    BY <1>3, <2>3 DEF Ordered
  <2>7. next' # None => /\ conn < next' /\ next' <= made
                        /\ holding # None => next' < holding
    BY <1>3, <2>2, <2>4 DEF Ordered
  <2>8. QED
    BY <1>3, <2>1, <2>5, <2>6, <2>7 DEF Ordered
<1>10. CASE Refused
  <2>1. /\ UNCHANGED <<made, conn, holding, answers>> /\ next' = None /\ reader' = "wait"
    BY <1>10 DEF Refused, Goes, broker
  <2>2. QED
    BY <1>3, <2>1 DEF Ordered
<1>11. CASE Adopt
  <2>1. /\ UNCHANGED <<made, holding, answers>> /\ conn' = next /\ next' = None
        /\ reader = "adopt" /\ reader' = "feed"
    BY <1>11 DEF Adopt, source, broker
  <2>2. QED
    BY <1>3, <2>1 DEF Ordered
<1>12. CASE StopRecovery
  <2>1. UNCHANGED <<made, holding, conn, next, reader>> /\ answers' = <<>>
    BY <1>12 DEF StopRecovery, feed
  <2>2. DOMAIN answers' = {}
    BY <2>1
  <2>3. QED
    BY <1>3, <2>1, <2>2 DEF Ordered
<1>13. QED
  BY <1>5, <1>6, <1>7, <1>8, <1>9, <1>10, <1>11, <1>12 DEF ReaderSteps

-----------------------------------------------------------------------------
(* A recovery lasts until a key frame of the connection that it has led to. *)

\* The record that Feed takes is one of the connection that is read, and the next in order.
LEMMA HeadOf ==
    ASSUME ReaderInv, sock[conn].data # <<>>
    PROVE  /\ Head(sock[conn].data) \in Frames /\ Head(sock[conn].data).of = conn
           /\ Head(sock[conn].data) = sock[conn].data[1]
<1>1. conn \in Conns /\ sock[conn].data \in Seq(Frames)
  BY SourceTypes DEF ReaderInv, SourceInv, FeedTypeOK
<1>2. /\ Head(sock[conn].data) = sock[conn].data[1] /\ 1 \in DOMAIN sock[conn].data
      /\ Head(sock[conn].data) \in Frames
  BY <1>1, TailIs
<1>3. Recorded(conn)
  BY <1>1 DEF ReaderInv, SourceInv
<1>4. QED
  BY <1>2, <1>3 DEF Recorded

LEMMA RecoversKept ==
    ASSUME ReaderInv, ReaderSteps \/ StopRecovery
    PROVE  FeedTypeOK' /\ Recovers'
<1>1. /\ conn \in Conns /\ Conns = 1..MaxConns /\ MaxConns \in Nat /\ generation \in Nat
      /\ generation \in Generations /\ Generations = 0..MaxConns /\ None \notin Nat
      /\ next \in Conns \cup {None} /\ conn \in Nat
  BY SourceAssumption DEF ReaderInv, FeedTypeOK, Conns, Generations
<1>2. FeedTypeOK /\ Recovers /\ Ordered
  BY DEF ReaderInv
<1>3. CASE FirstHeader
  <2>1. /\ reader = "first" /\ reader' = "feed"
        /\ UNCHANGED <<conn, next, keyed, recovering, generation, paused, stop>>
    BY <1>3 DEF FirstHeader, bridge
  <2>2. QED
    BY <1>1, <1>2, <2>1 DEF FeedTypeOK, Recovers
<1>4. CASE Feed
  <2> DEFINE f == Head(sock[conn].data)
  <2>1. f \in Frames /\ f.of = conn
    BY <1>4, HeadOf DEF Feed
  <2>2. reader = "feed" /\ UNCHANGED <<reader, conn, next, generation, stop>>
    BY <1>4 DEF Feed
  <2>3. CASE recovering /\ ~f.key
    <3>1. UNCHANGED <<recovering, paused, keyed>>
      BY <1>4, <2>3 DEF Feed, Broadcast
    <3>2. QED
      BY <1>1, <1>2, <2>2, <3>1 DEF FeedTypeOK, Recovers
  <2>4. CASE ~(recovering /\ ~f.key)
    <3>1. /\ recovering' = FALSE /\ paused' = (paused /\ ~recovering)
          /\ keyed' = IF f.key THEN f.of ELSE keyed
      BY <1>4, <2>4 DEF Feed, Broadcast
    <3>2. recovering' \in BOOLEAN /\ paused' \in BOOLEAN /\ keyed' \in Conns \cup {None}
      BY <1>1, <1>2, <2>1, <3>1 DEF FeedTypeOK
    <3>3. ~recovering'
      BY <3>1
    <3>4. generation > 0 => ~paused' /\ keyed' = conn
      <4>1. generation > 0 => (paused <=> recovering) /\ (recovering \/ keyed = conn)
        BY <1>2, <2>2 DEF Recovers
      <4>2. QED
        BY <2>1, <2>4, <3>1, <4>1
    <3>5. FeedTypeOK'
      BY <1>2, <2>2, <3>2 DEF FeedTypeOK
    <3>6. generation <= conn /\ generation < conn
      BY <1>2, <2>2 DEF Recovers
    <3>7. QED
      BY <2>2, <3>3, <3>4, <3>5, <3>6 DEF Recovers
  <2>5. QED
    BY <2>3, <2>4
<1>5. CASE FeedEnds
  <2>1. /\ reader = "feed" /\ reader' = "pause"
        /\ UNCHANGED <<conn, next, keyed, recovering, generation, paused, stop>>
    BY <1>5 DEF FeedEnds, bridge
  <2>2. QED
    BY <1>1, <1>2, <2>1 DEF FeedTypeOK, Recovers
<1>6. CASE Pause
  <2>1. /\ reader = "pause" /\ reader' = "begin" /\ paused' = TRUE
        /\ UNCHANGED <<conn, next, keyed, recovering, generation, stop>>
    BY <1>6 DEF Pause
  <2>2. QED
    BY <1>1, <1>2, <2>1 DEF FeedTypeOK, Recovers
<1>7. CASE BeginRecovery
  <2>1. /\ reader = "begin" /\ reader' = "ask" /\ recovering' = TRUE
        /\ generation' = generation + 1 /\ keyed' = None
        /\ UNCHANGED <<conn, next, paused, stop>>
    BY <1>7 DEF BeginRecovery
  <2>2. generation' \in Generations /\ generation' <= conn
    BY <1>1, <1>2, <2>1 DEF Recovers
  <2>3. QED
    BY <1>2, <2>1, <2>2 DEF FeedTypeOK, Recovers
<1>8. CASE Adopt
  <2>1. /\ reader = "adopt" /\ reader' = "feed" /\ conn' = next /\ next' = None
        /\ UNCHANGED <<keyed, recovering, generation, paused, stop>>
    BY <1>8 DEF Adopt, bridge
  <2>2. next # None /\ next \in Conns /\ next \in Nat /\ conn < next
    BY <1>1, <1>2, <2>1 DEF Ordered
  <2>3. generation < conn'
    BY <1>1, <1>2, <2>1, <2>2 DEF Recovers
  <2>4. generation <= conn'
    BY <1>1, <2>1, <2>2, <2>3
  <2>5. QED
    BY <1>2, <2>1, <2>2, <2>3, <2>4 DEF FeedTypeOK, Recovers
<1>9. ASSUME reader \in {"ask", "await", "header", "wait"},
             reader' \in {"ask", "await", "header", "adopt", "wait", "done"},
             UNCHANGED <<conn, keyed, bridge, stop>>, next' \in Conns \cup {None}
      PROVE  FeedTypeOK' /\ Recovers'
  BY <1>2, <1>9 DEF FeedTypeOK, Recovers, bridge
<1>10. CASE Ask \/ AskFails \/ Unanswered \/ Retry \/ ReaderReturns \/ Compatible
  <2>1. next' = next
    BY <1>10 DEF Ask, AskFails, Unanswered, Retry, ReaderReturns, Compatible
  <2>2. QED
    BY <1>1, <1>9, <1>10, <2>1
    DEF Ask, AskFails, Unanswered, Retry, ReaderReturns, Compatible, Goes
<1>11. CASE Answered
  <2>1. answers \in Seq(Conns \cup {None})
    BY DEF ReaderInv, SourceInv, SourceTypeOK
  <2>2. next' \in Conns \cup {None}
    BY <1>11, <2>1, TailIs DEF Answered
  <2>3. QED
    BY <1>9, <1>11, <2>2 DEF Answered, Goes
<1>12. CASE Refused
  BY <1>9, <1>12 DEF Refused, Goes
<1>13. CASE StopRecovery
  <2>1. UNCHANGED <<reader, conn, next, keyed, recovering, generation, paused>>
        /\ stop' = "stopped"
    BY <1>13 DEF StopRecovery, feed, bridge
  <2>2. QED
    BY <1>2, <2>1 DEF FeedTypeOK, Recovers
<1>14. QED
  BY <1>3, <1>4, <1>5, <1>6, <1>7, <1>8, <1>10, <1>11, <1>12, <1>13 DEF ReaderSteps

LEMMA ReaderInit == Init => ReaderInv
<1> SUFFICES ASSUME Init PROVE ReaderInv
  OBVIOUS
<1>1. /\ 1 \in Conns /\ MaxConns \in Nat \ {0} /\ None \notin Nat /\ Conns = 1..MaxConns
      /\ 0 \in 0..MaxFrames /\ Generations = 0..MaxConns
  BY SourceAssumption DEF Conns, Generations
<1>2. /\ made = 1 /\ at = "accept" /\ serving = None /\ pump = "none" /\ sent = 0
      /\ worker = "reading" /\ holding = None /\ asks = 0 /\ answers = <<>> /\ link = TRUE
      /\ reader = "first" /\ conn = 1 /\ next = None /\ keyed = None
      /\ recovering = FALSE /\ generation = 0 /\ paused = FALSE /\ stop = "no"
      /\ sock = [c \in Conns |-> IF c = 1 THEN [Unused EXCEPT !.client = "bridge",
                                                              !.server = "queued"]
                                 ELSE Unused]
  BY DEF Init, SourceInit
<1>3. Unused \in Socket /\ Unused.data = <<>> /\ Unused.server = "none"
  <2>1. PICK d \in Seq(Frames) : d = <<>>
    <3>1. <<>> \in Seq(Frames)
      OBVIOUS
    <3>2. QED
      BY <3>1, Zenon
  <2>2. Unused = [client |-> "none", server |-> "none", head |-> "none", data |-> d]
    BY <2>1 DEF Unused
  <2>3. [client |-> "none", server |-> "none", head |-> "none", data |-> d] \in Socket
    BY DEF Socket
  <2>4. QED
    BY <2>1, <2>2, <2>3
<1> DEFINE s == [Unused EXCEPT !.client = "bridge", !.server = "queued"]
<1>4. s \in Socket /\ s.data = <<>>
  BY <1>3 DEF Socket
<1>5. sock = [c \in Conns |-> IF c = 1 THEN s ELSE Unused]
  BY <1>2
<1> HIDE DEF s
<1>6. sock \in [Conns -> Socket]
  BY <1>3, <1>4, <1>5
<1>7. SourceTypeOK
  <2>1. <<>> \in Seq(Conns \cup {None})
    OBVIOUS
  <2>2. answers \in Seq(Conns \cup {None})
    BY <1>2, <2>1, Zenon
  <2>3. QED
    BY <1>1, <1>2, <1>6, <2>2 DEF SourceTypeOK, Socket
<1>8. Serving
  BY <1>2 DEF Serving
<1>9. ASSUME NEW c \in Conns PROVE Recorded(c)
  <2>1. c \in Nat \ {0} /\ sock[c].data = <<>> /\ (c # 1 => sock[c] = Unused)
    BY <1>1, <1>3, <1>4, <1>5
  <2>2. c > made => sock[c] = Unused
    BY <1>2, <2>1
  <2>3. DOMAIN sock[c].data = {}
    BY <2>1
  <2>4. QED
    BY <2>1, <2>2, <2>3 DEF Recorded
<1>10. FeedTypeOK /\ Recovers
  <2>1. FeedTypeOK
    <3>1. 0 \in Generations /\ next \in Conns \cup {None} /\ keyed \in Conns \cup {None}
      BY <1>1, <1>2
    <3>2. QED
      BY <1>1, <1>2, <3>1 DEF FeedTypeOK
  <2>2. Recovers
    BY <1>2 DEF Recovers
  <2>3. QED
    BY <2>1, <2>2
<1>11. Ordered
  <2>1. DOMAIN answers = {}
    BY <1>2
  <2>2. QED
    BY <1>1, <1>2, <2>1 DEF Ordered
<1>12. QED
  BY <1>7, <1>8, <1>9, <1>10, <1>11 DEF ReaderInv, SourceInv

\* What a viewer does, or the end of the stop, is no matter of the reader's.
LEMMA ReaderAside ==
    ASSUME ReaderInv, UNCHANGED <<source, feed, bridge>>, stop' \in {"no", "stopped", "failed"}
    PROVE  ReaderInv'
<1>1. /\ UNCHANGED <<sock, made, at, serving, pump, sent, worker, holding, asks, answers, link>>
      /\ UNCHANGED <<reader, conn, next, keyed, recovering, generation, paused>>
  BY DEF source, daemon, broker, feed, bridge
<1>2. SourceTypeOK'
  BY <1>1 DEF ReaderInv, SourceInv, SourceTypeOK
<1>3. Serving'
  BY <1>1 DEF ReaderInv, SourceInv, Serving
<1>4. SourceInv'
  BY <1>1, <1>2, <1>3, SourceInvSame DEF ReaderInv, Upto
<1>5. FeedTypeOK' /\ Ordered' /\ Recovers'
  BY <1>1 DEF ReaderInv, FeedTypeOK, Ordered, Recovers
<1>6. QED
  BY <1>4, <1>5 DEF ReaderInv

LEMMA ViewerAside ==
    ASSUME NEW v \in Viewers, ViewerSteps(v)
    PROVE  UNCHANGED <<source, feed, bridge, stop>>
BY DEF ViewerSteps, Offer, Connects, OnConnected, Loses, CloseViewer, Collect, Take,
       WriteSample, Written, Skipped, Becomes

LEMMA ReaderKept == ReaderInv /\ [Next]_vars => ReaderInv'
<1> SUFFICES ASSUME ReaderInv, [Next]_vars PROVE ReaderInv'
  OBVIOUS
<1>1. stop \in {"no", "stopped", "failed"} /\ (holding # None => holding <= made)
  BY DEF ReaderInv, FeedTypeOK, Ordered
<1>2. CASE SourceSteps
  <2>1. SourceNext /\ UNCHANGED <<feed, bridge, stop>>
    BY <1>2 DEF SourceSteps
  <2>2. SourceInv' /\ Ordered'
    BY <1>1, <2>1, SourceKept, OrderedSource DEF ReaderInv
  <2>3. FeedTypeOK' /\ Recovers'
    BY <2>1 DEF ReaderInv, FeedTypeOK, Recovers, feed, bridge
  <2>4. QED
    BY <2>2, <2>3 DEF ReaderInv
<1>3. CASE ReaderSteps \/ StopRecovery
  BY <1>3, ReaderSource, OrderedReader, RecoversKept DEF ReaderInv
<1>4. CASE Fail
  BY <1>4, ReaderAside DEF Fail
<1>5. CASE \E v \in Viewers : ViewerSteps(v)
  <2>1. UNCHANGED <<source, feed, bridge, stop>>
    BY <1>5, ViewerAside
  <2>2. QED
    BY <1>1, <2>1, ReaderAside
<1>6. CASE UNCHANGED vars
  BY <1>1, <1>6, ReaderAside DEF vars
<1>7. QED
  BY <1>2, <1>3, <1>4, <1>5, <1>6 DEF Next

LEMMA ReaderAlways == Spec => []ReaderInv
BY ReaderInit, ReaderKept, PTL DEF Spec

\* Input is let through only while a picture of the connection that is read has been shown:
\* from the loss of a capture until then the bridge is paused, whatever the broker answers and
\* however often the reader tries again (beginRecovery, broadcast).
THEOREM InputWaitsForPicture == Spec => []InputNeedsPicture
<1>1. ReaderInv => InputNeedsPicture
  BY DEF ReaderInv, FeedTypeOK, Recovers, InputNeedsPicture
<1>2. QED
  BY <1>1, ReaderAlways, PTL

-----------------------------------------------------------------------------
(* What the updates of a viewer are *)

Peer == [life : {"new", "offered", "live", "closing", "closed"},
         ready : BOOLEAN,
         queue : Seq(Samples),
         taken : Samples \cup {NoSample},
         shown : [of : 0..MaxConns, n : 0..MaxFrames]]

PeerTypeOK == viewers \in SUBSET Viewers /\ peer \in [Viewers -> Peer]

AtRest(p) == ~p.ready /\ p.queue = <<>> /\ p.taken = NoSample /\ p.shown = Unseen

LEMMA Scales ==
    /\ MaxConns \in Nat /\ MaxFrames \in Nat /\ Conns = 1..MaxConns /\ 0 \in 0..MaxConns
    /\ 0 \in 0..MaxFrames /\ Generations = 0..MaxConns
BY SourceAssumption DEF Conns, Generations

LEMMA SampleIs ==
    ASSUME NEW f \in Frames, NEW g \in Generations
    PROVE  /\ Sample(f, g) \in Samples /\ Sample(f, g).of = f.of /\ Sample(f, g).n = f.n
           /\ Sample(f, g).key = f.key /\ Sample(f, g).gen = g
BY DEF Sample, Samples, Frames

LEMMA NoSampleIs == NoSample \notin Samples /\ NoSample.n = 0
<1>1. NoSample.n = 0
  BY DEF NoSample, Sample, NoFrame
<1>2. \A s \in Samples : s.n # 0
  BY Scales DEF Samples
<1>3. QED
  BY <1>1, <1>2

LEMMA SamplesAre ==
    ASSUME NEW s \in Samples
    PROVE  /\ s # NoSample /\ s.of \in 0..MaxConns /\ s.n \in 0..MaxFrames
           /\ s.gen \in Nat /\ s.n \in Nat
BY NoSampleIs, Scales DEF Samples

LEMMA Nothing == \A T : <<>> \in Seq(T)
OBVIOUS

LEMMA IdleIs ==
    ASSUME NEW l \in {"new", "offered", "live", "closing", "closed"}
    PROVE  Idle(l) \in Peer /\ Idle(l).life = l /\ AtRest(Idle(l))
<1>1. PICK q \in Seq(Samples) : q = <<>>
  <2>1. <<>> \in Seq(Samples)
    BY Nothing
  <2>2. QED
    BY <2>1, Zenon
<1>2. PICK u \in [of : 0..MaxConns, n : 0..MaxFrames] : u = Unseen
  <2>1. Unseen \in [of : 0..MaxConns, n : 0..MaxFrames]
    BY Scales DEF Unseen
  <2>2. QED
    BY <2>1, Zenon
<1>3. Idle(l) = [life |-> l, ready |-> FALSE, queue |-> q, taken |-> NoSample, shown |-> u]
  BY <1>1, <1>2 DEF Idle
<1> HIDE DEF Idle, NoSample, Unseen
<1> DEFINE i == [life |-> l, ready |-> FALSE, queue |-> q, taken |-> NoSample, shown |-> u]
<1>4. i \in Peer
  BY DEF Peer
<1>5. /\ i.life = l /\ ~i.ready /\ i.queue = q /\ i.taken = NoSample /\ i.shown = u
  OBVIOUS
<1> HIDE DEF i
<1>6. Idle(l) = i
  BY <1>3 DEF i
<1>7. QED
  BY <1>1, <1>2, <1>4, <1>5, <1>6 DEF AtRest

LEMMA SentIs ==
    ASSUME NEW v \in Viewers, peer[v] \in Peer, NEW f \in Frames, generation \in Generations
    PROVE  /\ Sent(v, f) \in Peer /\ Sent(v, f).life = peer[v].life /\ Sent(v, f).ready
           /\ Sent(v, f).queue = Append(peer[v].queue, Sample(f, generation))
           /\ Sent(v, f).taken = peer[v].taken /\ Sent(v, f).shown = peer[v].shown
<1>1. Append(peer[v].queue, Sample(f, generation)) \in Seq(Samples)
  BY SampleIs, AppendIs DEF Peer
<1>2. PICK q \in Seq(Samples) : q = Append(peer[v].queue, Sample(f, generation))
  BY <1>1
<1> DEFINE s == [peer[v] EXCEPT !.ready = TRUE, !.queue = q]
<1>3. Sent(v, f) = s
  BY <1>2 DEF Sent
<1>4. s \in Peer /\ s.life = peer[v].life /\ s.ready /\ s.queue = q
      /\ s.taken = peer[v].taken /\ s.shown = peer[v].shown
  BY DEF Peer
<1> HIDE DEF s
<1>5. QED
  BY <1>2, <1>3, <1>4

LEMMA UnreadyIs ==
    ASSUME NEW p \in Peer
    PROVE  /\ Unready(p) \in Peer /\ Unready(p).life = p.life /\ ~Unready(p).ready
           /\ Unready(p).queue = <<>>
           /\ Unready(p).taken = p.taken /\ Unready(p).shown = p.shown
<1>1. PICK q \in Seq(Samples) : q = <<>>
  <2>1. <<>> \in Seq(Samples)
    BY Nothing
  <2>2. QED
    BY <2>1, Zenon
<1> DEFINE s == [p EXCEPT !.ready = FALSE, !.queue = q]
<1>2. Unready(p) = s
  BY <1>1 DEF Unready
<1>3. s \in Peer /\ s.life = p.life /\ ~s.ready /\ s.queue = q /\ s.taken = p.taken
      /\ s.shown = p.shown
  BY DEF Peer
<1> HIDE DEF s
<1>4. QED
  BY <1>1, <1>2, <1>3

LEMMA ClosingIs ==
    ASSUME PeerTypeOK, NEW vs, NEW v \in Viewers
    PROVE  /\ Closing(vs)[v] \in Peer
           /\ IF v \in vs /\ peer[v].life \in {"offered", "live"}
              THEN Closing(vs)[v].life = "closing" /\ AtRest(Closing(vs)[v])
              ELSE Closing(vs)[v] = peer[v]
BY IdleIs DEF Closing, PeerTypeOK

\* What a step does to a viewer, which is p before it and q after it: its samples stay, or it
\* is over, or its goroutine receives one, leaves it out or shows it.
Still(p, q) ==
    /\ q.queue = p.queue /\ q.taken = p.taken /\ q.shown = p.shown
    /\ q.ready => p.ready
Takes(p, q) ==
    /\ p.taken = NoSample /\ p.queue # <<>>
    /\ q.taken = Head(p.queue) /\ q.queue = Tail(p.queue)
    /\ q.shown = p.shown /\ q.ready = p.ready
Lost(p) == recovering \/ p.taken.gen # generation
Leaves(p, q) ==
    /\ p.taken # NoSample /\ q.taken = NoSample
    /\ q.queue = p.queue /\ q.ready = p.ready
Skips(p, q) == Leaves(p, q) /\ Lost(p) /\ q.shown = p.shown
Writes(p, q) ==
    /\ Leaves(p, q) /\ ~Lost(p)
    /\ q.shown.of = p.taken.of /\ q.shown.n = p.taken.n

Effect(p, q) == Still(p, q) \/ AtRest(q) \/ Takes(p, q) \/ Skips(p, q) \/ Writes(p, q)

LEMMA BecomesIs ==
    ASSUME PeerTypeOK, NEW v \in Viewers, NEW p \in Peer, Becomes(v, p)
    PROVE  /\ peer' \in [Viewers -> Peer] /\ peer'[v] = p
           /\ \A w \in Viewers \ {v} : peer'[w] = peer[w]
BY DEF Becomes, PeerTypeOK

\* A step of one viewer: which stage it is in afterwards, and what became of its samples.
LEMMA ViewerEffect ==
    ASSUME PeerTypeOK, NEW v \in Viewers, ViewerSteps(v)
    PROVE  /\ peer' \in [Viewers -> Peer]
           /\ \A w \in Viewers \ {v} : peer'[w] = peer[w]
           /\ Effect(peer[v], peer'[v])
           /\ \/ peer'[v].life = peer[v].life /\ viewers' = viewers
              \/ peer'[v].life \in {"closing", "closed"} /\ AtRest(peer'[v])
                   /\ viewers' = viewers
              \/ peer[v].life = "offered" /\ peer'[v].life = "live" /\ viewers' = viewers
              \/ /\ peer[v].life = "new" /\ peer'[v].life = "offered" /\ AtRest(peer'[v])
                 /\ stop # "failed" /\ v \in viewers' /\ viewers' \ {v} \subseteq viewers
                 /\ \A w \in viewers : peer[w].life \in {"offered", "live"} => w \in viewers'
              \/ /\ peer[v].life = "closed" /\ peer'[v] = peer[v] /\ viewers' = viewers \ {v}
<1>1. peer[v] \in Peer /\ peer \in [Viewers -> Peer]
  BY DEF PeerTypeOK
<1>2. CASE Offer(v)
  <2>1. peer[v].life = "new" /\ stop # "failed" /\ Becomes(v, Idle("offered"))
    BY <1>2 DEF Offer
  <2>2. PICK vs \in Pruned : viewers' = vs \cup {v}
    BY <1>2 DEF Offer
  <2>3. /\ vs \subseteq viewers
        /\ \A w \in viewers : peer[w].life \in {"offered", "live"} => w \in vs
    BY DEF Pruned
  <2>4. QED
    BY <2>1, <2>2, <2>3, IdleIs, BecomesIs DEF Effect
<1>3. ASSUME viewers' = viewers, NEW l \in {"closing", "closed"},
             Becomes(v, Idle(l))
      PROVE  /\ peer' \in [Viewers -> Peer] /\ \A w \in Viewers \ {v} : peer'[w] = peer[w]
             /\ Effect(peer[v], peer'[v]) /\ peer'[v].life = l /\ AtRest(peer'[v])
  BY <1>3, IdleIs, BecomesIs DEF Effect
<1>4. CASE Loses(v)
  BY <1>3, <1>4 DEF Loses
<1>5. CASE CloseViewer(v)
  BY <1>3, <1>5 DEF CloseViewer
<1>6. CASE Connects(v)
  <2> DEFINE p == [peer[v] EXCEPT !.life = "live"]
  <2>1. p \in Peer /\ p.life = "live" /\ Still(peer[v], p)
    BY <1>1 DEF Peer, Still
  <2>2. Becomes(v, p) /\ peer[v].life = "offered" /\ viewers' = viewers
    BY <1>6 DEF Connects
  <2> HIDE DEF p
  <2>3. QED
    BY <2>1, <2>2, BecomesIs DEF Effect
<1>7. CASE OnConnected(v)
  <2> DEFINE p == [peer[v] EXCEPT !.ready = FALSE]
  <2>1. p \in Peer /\ p.life = peer[v].life /\ Still(peer[v], p)
    BY <1>1 DEF Peer, Still
  <2>2. Becomes(v, p) /\ viewers' = viewers
    BY <1>7 DEF OnConnected
  <2> HIDE DEF p
  <2>3. QED
    BY <2>1, <2>2, BecomesIs DEF Effect
<1>8. CASE Collect(v)
  <2>1. peer[v].life = "closed" /\ viewers' = viewers \ {v} /\ peer' = peer
    BY <1>8 DEF Collect
  <2>2. Still(peer[v], peer'[v])
    BY <2>1 DEF Still
  <2>3. QED
    BY <1>1, <2>1, <2>2 DEF Effect
<1>9. CASE Take(v)
  <2>1. peer[v].queue \in Seq(Samples) /\ peer[v].queue # <<>> /\ peer[v].taken = NoSample
    BY <1>1, <1>9 DEF Take, Peer
  <2>2. PICK h \in Samples : h = Head(peer[v].queue)
    BY <2>1, TailIs
  <2>3. PICK t \in Seq(Samples) : t = Tail(peer[v].queue)
    BY <2>1, TailIs
  <2> DEFINE p == [peer[v] EXCEPT !.taken = h, !.queue = t]
  <2>4. p \in Peer /\ p.life = peer[v].life /\ p.taken = h /\ p.queue = t
        /\ p.shown = peer[v].shown /\ p.ready = peer[v].ready
    BY <1>1 DEF Peer
  <2>5. Becomes(v, p) /\ viewers' = viewers
    BY <1>9, <2>2, <2>3 DEF Take
  <2> HIDE DEF p
  <2>6. peer'[v] = p
    BY <2>4, <2>5, BecomesIs
  <2>7. Takes(peer[v], peer'[v])
    BY <2>1, <2>2, <2>3, <2>4, <2>6 DEF Takes
  <2>8. QED
    BY <2>4, <2>5, <2>6, <2>7, BecomesIs DEF Effect
<1>10. CASE WriteSample(v)
  <2>1. peer[v].taken # NoSample /\ viewers' = viewers
    BY <1>10 DEF WriteSample
  <2>2. CASE Lost(peer[v]) /\ Skipped(v)
    <3>1. PICK x \in Samples \cup {NoSample} : x = NoSample
      OBVIOUS
    <3> DEFINE p == [peer[v] EXCEPT !.taken = x]
    <3>2. p \in Peer /\ p.life = peer[v].life /\ p.taken = x /\ p.queue = peer[v].queue
          /\ p.shown = peer[v].shown /\ p.ready = peer[v].ready
      BY <1>1 DEF Peer
    <3>3. Becomes(v, p)
      BY <2>2, <3>1 DEF Skipped
    <3> HIDE DEF p
    <3>4. peer'[v] = p
      BY <3>2, <3>3, BecomesIs
    <3>5. Skips(peer[v], peer'[v])
      BY <2>1, <2>2, <3>1, <3>2, <3>4 DEF Skips, Leaves
    <3>6. QED
      BY <2>1, <3>2, <3>3, <3>4, <3>5, BecomesIs DEF Effect
  <2>3. CASE ~Lost(peer[v]) /\ Written(v)
    <3>1. PICK x \in Samples \cup {NoSample} : x = NoSample
      OBVIOUS
    <3>2. peer[v].taken \in Samples
      BY <1>1, <2>1 DEF Peer
    <3>3. [of |-> peer[v].taken.of, n |-> peer[v].taken.n]
            \in [of : 0..MaxConns, n : 0..MaxFrames]
      BY <3>2, SamplesAre
    <3>4. PICK u \in [of : 0..MaxConns, n : 0..MaxFrames] :
            u = [of |-> peer[v].taken.of, n |-> peer[v].taken.n]
      BY <3>3
    <3> DEFINE p == [peer[v] EXCEPT !.taken = x, !.shown = u]
    <3>5. p \in Peer /\ p.life = peer[v].life /\ p.taken = x /\ p.queue = peer[v].queue
          /\ p.shown = u /\ p.ready = peer[v].ready
      BY <1>1 DEF Peer
    <3>6. Becomes(v, p)
      BY <2>3, <3>1, <3>4 DEF Written
    <3> HIDE DEF p
    <3>7. peer'[v] = p
      BY <3>5, <3>6, BecomesIs
    <3>8. Writes(peer[v], peer'[v])
      BY <2>1, <2>3, <3>1, <3>4, <3>5, <3>7 DEF Writes, Leaves
    <3>9. QED
      BY <2>1, <3>5, <3>6, <3>7, <3>8, BecomesIs DEF Effect
  <2>4. CASE ~Lost(peer[v]) /\ Becomes(v, Idle("closing"))
    BY <1>3, <2>1, <2>4
  <2>5. QED
    BY <1>10, <2>2, <2>3, <2>4 DEF WriteSample, Lost
<1>11. QED
  BY <1>2, <1>4, <1>5, <1>6, <1>7, <1>8, <1>9, <1>10 DEF ViewerSteps

-----------------------------------------------------------------------------
(* Viewers are open only while the bridge has them. *)

Peers ==
    \A v \in Viewers :
        /\ peer[v].life # "live" => AtRest(peer[v])
        /\ peer[v].life \in {"offered", "live"} => v \in viewers
        /\ v \in viewers => peer[v].life # "new"
        /\ stop = "failed" /\ v \in viewers => peer[v].life \in {"closing", "closed"}

\* A sample of f is queued for it.
Fed(p, q, f) ==
    /\ f.key \/ p.ready
    /\ q.ready /\ q.queue = Append(p.queue, Sample(f, generation))
    /\ q.taken = p.taken /\ q.shown = p.shown

\* A broadcast: whoever is ready is sent the frame, or is closed.
LEMMA SendEffect ==
    ASSUME PeerTypeOK, Peers, generation \in Generations, NEW f \in Frames, Send(f)
    PROVE  /\ peer' \in [Viewers -> Peer] /\ viewers' \subseteq viewers
           /\ \A v \in Viewers :
                \/ AtRest(peer'[v]) /\ peer'[v].life = "closing"
                \/ /\ peer'[v] = peer[v] /\ ~peer[v].ready
                   /\ v \in viewers /\ peer[v].life # "closed" => v \in viewers'
                \/ /\ Fed(peer[v], peer'[v], f) /\ peer'[v].life = peer[v].life
                   /\ peer[v].life = "live" /\ v \in viewers'
<1> DEFINE full == {v \in Receivers(f) : Len(peer[v].queue) = MaxQueue}
<1>1. /\ viewers' = {v \in viewers : peer[v].life # "closed"} \ full
      /\ peer' = [v \in Viewers |-> IF v \in Receivers(f) \ full
                                    THEN Sent(v, f) ELSE Closing(full)[v]]
  BY DEF Send
<1>2. full \subseteq Receivers(f)
  OBVIOUS
<1> HIDE DEF full
<1>3. peer \in [Viewers -> Peer] /\ viewers \in SUBSET Viewers
  BY DEF PeerTypeOK
<1>4. ASSUME NEW v \in Viewers
      PROVE  /\ peer'[v] \in Peer
             /\ \/ AtRest(peer'[v]) /\ peer'[v].life = "closing"
                \/ /\ peer'[v] = peer[v] /\ ~peer[v].ready
                   /\ v \in viewers /\ peer[v].life # "closed" => v \in viewers'
                \/ /\ Fed(peer[v], peer'[v], f) /\ peer'[v].life = peer[v].life
                   /\ peer[v].life = "live" /\ v \in viewers'
  <2>1. peer[v] \in Peer
    BY <1>3
  <2>2. CASE v \in Receivers(f) \ full
    <3>1. peer'[v] = Sent(v, f)
      BY <1>1, <2>2
    <3>2. v \in viewers /\ peer[v].life = "live" /\ (peer[v].ready \/ f.key)
      BY <2>2 DEF Receivers
    <3>3. v \in viewers'
      BY <1>1, <2>2, <3>2
    <3>4. QED
      BY <2>1, <3>1, <3>2, <3>3, SentIs DEF Fed
  <2>3. CASE v \in full
    <3>1. peer'[v] = Closing(full)[v] /\ peer[v].life = "live"
      BY <1>1, <1>2, <2>3 DEF Receivers
    <3>2. QED
      BY <2>3, <3>1, ClosingIs
  <2>4. CASE v \notin Receivers(f)
    <3>1. peer'[v] = Closing(full)[v] /\ v \notin full
      BY <1>1, <1>2, <2>4
    <3>2. peer'[v] = peer[v]
      BY <3>1, ClosingIs
    <3>3. ~peer[v].ready
      <4>1. peer[v].life # "live" => ~peer[v].ready
        BY DEF Peers, AtRest
      <4>2. peer[v].life = "live" => v \in viewers
        BY DEF Peers
      <4>3. QED
        BY <2>4, <4>1, <4>2 DEF Receivers
    <3>4. v \in viewers /\ peer[v].life # "closed" => v \in viewers'
      BY <1>1, <3>1
    <3>5. QED
      BY <2>1, <3>2, <3>3, <3>4
  <2>5. QED
    BY <2>2, <2>3, <2>4
<1>5. peer' = [v \in Viewers |-> peer'[v]]
  BY <1>1
<1>6. peer' \in [Viewers -> Peer]
  BY <1>4, <1>5
<1>7. QED
  BY <1>1, <1>4, <1>6

LEMMA BeginEffect ==
    ASSUME PeerTypeOK, BeginRecovery
    PROVE  /\ peer' \in [Viewers -> Peer] /\ viewers' = viewers
           /\ \A v \in Viewers : IF v \in viewers THEN peer'[v] = Unready(peer[v])
                                 ELSE peer'[v] = peer[v]
<1>1. peer' = [v \in Viewers |-> IF v \in viewers THEN Unready(peer[v]) ELSE peer[v]]
      /\ viewers' = viewers
  BY DEF BeginRecovery
<1>2. \A v \in Viewers : peer[v] \in Peer /\ Unready(peer[v]) \in Peer
  BY UnreadyIs DEF PeerTypeOK
<1>3. QED
  BY <1>1, <1>2

LEMMA FailEffect ==
    ASSUME PeerTypeOK, Fail
    PROVE  /\ peer' \in [Viewers -> Peer] /\ viewers' = viewers
           /\ \A v \in Viewers : IF v \in viewers /\ peer[v].life \in {"offered", "live"}
                                 THEN peer'[v].life = "closing" /\ AtRest(peer'[v])
                                 ELSE peer'[v] = peer[v]
<1>1. peer' = Closing(viewers) /\ viewers' = viewers
  BY DEF Fail
<1>2. \A v \in Viewers : Closing(viewers)[v] \in Peer
  BY ClosingIs
<1>3. Closing(viewers) = [v \in Viewers |-> Closing(viewers)[v]]
  BY DEF Closing
<1>4. Closing(viewers) \in [Viewers -> Peer]
  BY <1>2, <1>3
<1>5. QED
  BY <1>1, <1>4, ClosingIs

\* What takes no part in the viewers' business.
Aside == UNCHANGED <<peers, recovering, generation>>

LEMMA ReaderStepsAre ==
    ASSUME ReaderSteps \/ SourceSteps \/ StopRecovery
    PROVE  Aside \/ Feed \/ BeginRecovery
<1>1. CASE FirstHeader \/ FeedEnds \/ Pause \/ Adopt
  BY <1>1 DEF FirstHeader, FeedEnds, Pause, Adopt, Aside, bridge
<1>2. CASE Ask \/ AskFails \/ Unanswered \/ Compatible \/ Refused \/ Retry \/ ReaderReturns
  BY <1>2 DEF Ask, AskFails, Unanswered, Compatible, Refused, Retry, ReaderReturns, Goes, Aside,
              bridge
<1>3. CASE Answered
  BY <1>3 DEF Answered, Goes, Aside, bridge
<1>4. CASE SourceSteps \/ StopRecovery
  BY <1>4 DEF SourceSteps, StopRecovery, Aside, bridge
<1>5. QED
  BY <1>1, <1>2, <1>3, <1>4 DEF ReaderSteps

PeerInv == PeerTypeOK /\ Peers

LEMMA PeerKept ==
    ASSUME ReaderInv, PeerInv, [Next]_vars
    PROVE  PeerInv'
<1>1. PeerTypeOK /\ Peers /\ generation \in Generations /\ viewers \in SUBSET Viewers
  BY DEF PeerInv, PeerTypeOK, ReaderInv, FeedTypeOK
<1>2. ASSUME UNCHANGED peers, stop' = "failed" => stop = "failed"
      PROVE  PeerInv'
  BY <1>1, <1>2 DEF PeerInv, PeerTypeOK, Peers, peers
<1>3. CASE Feed
  <2> DEFINE f == Head(sock[conn].data)
  <2>1. f \in Frames /\ Broadcast(f) /\ stop' = stop
    BY <1>3, HeadOf DEF Feed
  <2> HIDE DEF f
  <2>2. CASE UNCHANGED peers
    BY <1>2, <2>1, <2>2
  <2>3. CASE Send(f)
    <3>1. /\ peer' \in [Viewers -> Peer] /\ viewers' \subseteq viewers
          /\ \A v \in Viewers :
                \/ AtRest(peer'[v]) /\ peer'[v].life = "closing"
                \/ /\ peer'[v] = peer[v]
                   /\ v \in viewers /\ peer[v].life # "closed" => v \in viewers'
                \/ peer'[v].life = peer[v].life /\ peer[v].life = "live" /\ v \in viewers'
      BY <1>1, <2>1, <2>3, SendEffect
    <3>2. Peers'
      BY <1>1, <2>1, <3>1 DEF Peers
    <3>3. QED
      BY <1>1, <3>1, <3>2 DEF PeerInv, PeerTypeOK
  <2>4. QED
    BY <2>1, <2>2, <2>3 DEF Broadcast
<1>4. CASE BeginRecovery
  <2>1. /\ peer' \in [Viewers -> Peer] /\ viewers' = viewers /\ stop' = stop
        /\ \A v \in Viewers : IF v \in viewers THEN peer'[v] = Unready(peer[v])
                              ELSE peer'[v] = peer[v]
    BY <1>1, <1>4, BeginEffect DEF BeginRecovery
  <2>2. ASSUME NEW v \in Viewers
        PROVE  peer'[v].life = peer[v].life /\ (AtRest(peer[v]) => AtRest(peer'[v]))
    <3>1. peer[v] \in Peer
      BY <1>1 DEF PeerTypeOK
    <3>2. QED
      BY <2>1, <3>1, UnreadyIs DEF AtRest
  <2>3. Peers'
    BY <1>1, <2>1, <2>2 DEF Peers
  <2>4. QED
    BY <1>1, <2>1, <2>3 DEF PeerInv, PeerTypeOK
<1>5. CASE ReaderSteps \/ SourceSteps \/ StopRecovery
  <2>1. CASE Aside
    <3>1. stop' = "failed" => stop = "failed"
      <4>1. CASE SourceSteps \/ StopRecovery
        BY <4>1 DEF SourceSteps, StopRecovery
      <4>2. CASE ReaderSteps
        BY <4>2
        DEF ReaderSteps, FirstHeader, Feed, FeedEnds, Pause, BeginRecovery, Ask, AskFails,
            Answered, Unanswered, Compatible, Refused, Adopt, Retry, ReaderReturns, Goes
      <4>3. QED
        BY <1>5, <4>1, <4>2
    <3>2. QED
      BY <1>2, <2>1, <3>1 DEF Aside
  <2>2. QED
    BY <1>3, <1>4, <1>5, <2>1, ReaderStepsAre
<1>6. CASE Fail
  <2>1. /\ peer' \in [Viewers -> Peer] /\ viewers' = viewers
        /\ \A v \in Viewers : IF v \in viewers /\ peer[v].life \in {"offered", "live"}
                              THEN peer'[v].life = "closing" /\ AtRest(peer'[v])
                              ELSE peer'[v] = peer[v]
    BY <1>1, <1>6, FailEffect
  <2>2. \A v \in Viewers : peer[v].life \in {"new", "offered", "live", "closing", "closed"}
    BY <1>1 DEF PeerTypeOK, Peer
  <2>3. Peers'
    BY <1>1, <2>1, <2>2 DEF Peers
  <2>4. QED
    BY <1>1, <2>1, <2>3 DEF PeerInv, PeerTypeOK
<1>7. ASSUME NEW v \in Viewers, ViewerSteps(v)
      PROVE  PeerInv'
  <2>1. stop' = stop
    BY <1>7, ViewerAside
  <2>2. /\ peer' \in [Viewers -> Peer] /\ \A w \in Viewers \ {v} : peer'[w] = peer[w]
        /\ Effect(peer[v], peer'[v])
        /\ \/ peer'[v].life = peer[v].life /\ viewers' = viewers
           \/ peer'[v].life \in {"closing", "closed"} /\ AtRest(peer'[v])
                /\ viewers' = viewers
           \/ peer[v].life = "offered" /\ peer'[v].life = "live" /\ viewers' = viewers
           \/ /\ peer[v].life = "new" /\ peer'[v].life = "offered" /\ AtRest(peer'[v])
              /\ stop # "failed" /\ v \in viewers' /\ viewers' \ {v} \subseteq viewers
              /\ \A w \in viewers : peer[w].life \in {"offered", "live"} => w \in viewers'
           \/ /\ peer[v].life = "closed" /\ peer'[v] = peer[v] /\ viewers' = viewers \ {v}
    BY <1>1, <1>7, ViewerEffect
  <2>3. viewers' \in SUBSET Viewers
    BY <1>1, <1>7, <2>2
  <2>4. AtRest(peer[v]) => peer'[v] = peer[v] \/ AtRest(peer'[v])
    BY <2>2 DEF Effect, AtRest, Still, Takes, Skips, Writes, Leaves
  <2>5. ASSUME NEW w \in Viewers
        PROVE  /\ peer'[w].life # "live" => AtRest(peer'[w])
               /\ peer'[w].life \in {"offered", "live"} => w \in viewers'
               /\ w \in viewers' => peer'[w].life # "new"
               /\ stop' = "failed" /\ w \in viewers' => peer'[w].life \in {"closing", "closed"}
    <3>1. /\ peer[w].life # "live" => AtRest(peer[w])
          /\ peer[w].life \in {"offered", "live"} => w \in viewers
          /\ w \in viewers => peer[w].life # "new"
          /\ stop = "failed" /\ w \in viewers => peer[w].life \in {"closing", "closed"}
      BY <1>1 DEF Peers
    <3>2. CASE w = v
      BY <2>1, <2>2, <2>4, <3>1, <3>2
    <3>3. CASE w # v
      <4>1. peer'[w] = peer[w]
        BY <2>2, <3>3
      <4>2. w \in viewers' => w \in viewers
        BY <2>2, <3>3
      <4>3. peer[w].life \in {"offered", "live"} => w \in viewers'
        BY <2>2, <3>1, <3>3
      <4>4. QED
        BY <2>1, <3>1, <4>1, <4>2, <4>3
    <3>4. QED
      BY <3>2, <3>3
  <2>6. QED
    BY <2>2, <2>3, <2>5 DEF PeerInv, PeerTypeOK, Peers
<1>8. CASE UNCHANGED vars
  BY <1>2, <1>8 DEF vars
<1>9. QED
  BY <1>5, <1>6, <1>7, <1>8 DEF Next

LEMMA PeerInit == Init => PeerInv
<1> SUFFICES ASSUME Init PROVE PeerInv
  OBVIOUS
<1>1. viewers = {} /\ peer = [v \in Viewers |-> Idle("new")] /\ stop = "no"
  BY DEF Init
<1>2. \A v \in Viewers : /\ peer[v] \in Peer /\ peer[v].life = "new" /\ AtRest(peer[v])
  BY <1>1, IdleIs
<1>3. peer \in [Viewers -> Peer]
  BY <1>1, IdleIs
<1>4. QED
  BY <1>1, <1>2, <1>3 DEF PeerInv, PeerTypeOK, Peers

LEMMA PeerAlways == Spec => [](ReaderInv /\ PeerInv)
<1>1. Init => ReaderInv /\ PeerInv
  BY ReaderInit, PeerInit
<1>2. ReaderInv /\ PeerInv /\ [Next]_vars => (ReaderInv /\ PeerInv)'
  BY ReaderKept, PeerKept
<1>3. QED
  BY <1>1, <1>2, PTL DEF Spec

\* Every variable keeps to its type: no connection is asked for beyond those there are, no
\* picture is recorded or broadcast that is not one, and a generation is never counted without
\* a connection that was lost (daemon, broker, readRecoverable, the viewers' goroutines).
THEOREM RecoveryTypeCorrect == Spec => []TypeOK
<1>1. ReaderInv /\ PeerInv => TypeOK
  BY DEF ReaderInv, SourceInv, FeedTypeOK, PeerInv, PeerTypeOK, Peer, TypeOK
<1>2. QED
  BY <1>1, PeerAlways, PTL

\* Once the server has failed no viewer is left open: neither one that had offered before nor
\* one that offers, connects or is being sent a frame while the server stops (fail, offer).
THEOREM FailureEndsViewers == Spec => []FailureClosesAll
<1>1. PeerInv => FailureClosesAll
  BY DEF PeerInv, PeerTypeOK, Peers, FailureClosesAll
<1>2. QED
  BY <1>1, PeerAlways, PTL

-----------------------------------------------------------------------------
(* What is on its way to a viewer, while a capture is read and after it is lost. *)

\* What is on its way to a viewer, of the capture that is read now.
Current(s) == s # NoSample /\ s.gen = generation

Origin(p) ==
    /\ \A i \in DOMAIN p.queue : p.queue[i].gen = generation /\ p.queue[i].of = conn
    /\ p.queue # <<>> => ~recovering
    /\ p.taken # NoSample => p.taken.gen <= generation
    /\ Current(p.taken) => ~recovering /\ p.taken.of = conn

Origins == \A v \in Viewers : Origin(peer[v])

LEMMA TypedPeer ==
    ASSUME PeerTypeOK, NEW v \in Viewers
    PROVE  /\ peer[v] \in Peer /\ peer[v].queue \in Seq(Samples)
           /\ peer[v].taken \in Samples \cup {NoSample}
BY DEF PeerTypeOK, Peer

LEMMA OriginKept ==
    ASSUME ReaderInv, PeerInv, Origins, [Next]_vars
    PROVE  Origins'
<1>1. /\ PeerTypeOK /\ Peers /\ generation \in Generations /\ generation \in Nat /\ conn \in Conns
  BY Scales DEF PeerInv, ReaderInv, FeedTypeOK
<1>2. ASSUME NEW v \in Viewers
      PROVE  /\ Origin(peer[v]) /\ peer[v].queue \in Seq(Samples)
             /\ peer[v].taken \in Samples \cup {NoSample}
  BY <1>1, TypedPeer DEF Origins
<1>3. ASSUME UNCHANGED <<peer, generation>>, recovering' => recovering,
             ~recovering => conn' = conn
      PROVE  Origins'
  BY <1>2, <1>3 DEF Origins, Origin, Current
<1>4. CASE Feed
  <2> DEFINE f == Head(sock[conn].data)
  <2>1. /\ f \in Frames /\ f.of = conn /\ Broadcast(f) /\ UNCHANGED <<conn, generation>>
    BY <1>4, HeadOf DEF Feed
  <2> HIDE DEF f
  <2>2. CASE recovering /\ ~f.key
    <3>1. UNCHANGED <<peer, recovering>>
      BY <2>1, <2>2 DEF Broadcast, peers
    <3>2. QED
      BY <1>3, <2>1, <3>1
  <2>3. CASE ~(recovering /\ ~f.key)
    <3>1. Send(f) /\ ~recovering'
      BY <2>1, <2>3 DEF Broadcast
    <3> DEFINE s == Sample(f, generation)
    <3>2. s \in Samples /\ s.of = conn /\ s.gen = generation
      BY <1>1, <2>1, SampleIs
    <3>3. ASSUME NEW v \in Viewers PROVE Origin(peer[v])'
      <4>1. \/ AtRest(peer'[v])
            \/ peer'[v] = peer[v]
            \/ Fed(peer[v], peer'[v], f)
        BY <1>1, <2>1, <3>1, SendEffect
      <4>2. CASE AtRest(peer'[v])
        BY <4>2, NoSampleIs DEF AtRest, Origin, Current
      <4>3. CASE peer'[v] = peer[v]
        BY <1>2, <2>1, <3>1, <4>3 DEF Origin, Current
      <4>4. CASE Fed(peer[v], peer'[v], f)
        <5>1. /\ peer'[v].queue = Append(peer[v].queue, s) /\ peer'[v].taken = peer[v].taken
          BY <4>4 DEF Fed
        <5> HIDE DEF s
        <5>2. \A i \in DOMAIN peer'[v].queue :
                 \/ i \in DOMAIN peer[v].queue /\ peer'[v].queue[i] = peer[v].queue[i]
                 \/ peer'[v].queue[i] = s
          <6>1. peer[v].queue \in Seq(Samples)
            BY <1>2
          <6>2. QED
            BY <3>2, <5>1, <6>1, AppendIs
        <5>3. QED
          BY <1>2, <2>1, <3>1, <3>2, <5>1, <5>2 DEF Origin, Current
      <4>5. QED
        BY <4>1, <4>2, <4>3, <4>4
    <3>4. QED
      BY <3>3 DEF Origins
  <2>4. QED
    BY <2>2, <2>3
<1>5. CASE BeginRecovery
  <2>1. /\ \A v \in Viewers : IF v \in viewers THEN peer'[v] = Unready(peer[v])
                              ELSE peer'[v] = peer[v]
        /\ generation' = generation + 1
    BY <1>1, <1>5, BeginEffect DEF BeginRecovery
  <2>2. ASSUME NEW v \in Viewers PROVE Origin(peer[v])'
    <3>1. CASE v \in viewers
      <4>1. peer'[v].queue = <<>> /\ peer'[v].taken = peer[v].taken
        BY <1>1, <2>1, <3>1, UnreadyIs, TypedPeer
      <4>2. peer[v].taken # NoSample => peer[v].taken.gen \in Nat /\ peer[v].taken.gen <= generation
        BY <1>2, SamplesAre DEF Origin
      <4>3. QED
        BY <1>1, <2>1, <4>1, <4>2 DEF Origin, Current
    <3>2. CASE v \notin viewers
      <4>1. peer'[v] = peer[v] /\ (peer[v].life # "live" => AtRest(peer[v]))
        BY <1>1, <2>1, <3>2 DEF Peers
      <4>2. peer[v].life # "live"
        BY <1>1, <3>2 DEF Peers
      <4>3. QED
        BY <4>1, <4>2 DEF AtRest, Origin, Current
    <3>3. QED
      BY <3>1, <3>2
  <2>3. QED
    BY <2>2 DEF Origins
<1>6. CASE ReaderSteps \/ SourceSteps \/ StopRecovery
  <2>1. CASE Aside
    <3>1. UNCHANGED <<peer, recovering, generation>>
      BY <2>1 DEF Aside, peers
    <3>2. ~recovering => conn' = conn
      <4>1. CASE Adopt
        BY <4>1 DEF Adopt, ReaderInv, Recovers
      <4>2. CASE SourceSteps \/ StopRecovery
        BY <4>2 DEF SourceSteps, StopRecovery, feed
      <4>3. CASE ReaderSteps /\ ~Adopt
        BY <4>3
        DEF ReaderSteps, FirstHeader, Feed, FeedEnds, Pause, BeginRecovery, Ask, AskFails,
            Answered, Unanswered, Compatible, Refused, Retry, ReaderReturns, Goes
      <4>4. QED
        BY <1>6, <4>1, <4>2, <4>3
    <3>3. QED
      BY <1>3, <3>1, <3>2
  <2>2. QED
    BY <1>4, <1>5, <1>6, <2>1, ReaderStepsAre
<1>7. CASE Fail
  <2>1. /\ \A v \in Viewers : AtRest(peer'[v]) \/ peer'[v] = peer[v]
        /\ UNCHANGED <<conn, generation, recovering>>
    BY <1>1, <1>7, FailEffect DEF Fail, feed, bridge
  <2>2. QED
    BY <1>2, <2>1 DEF Origins, Origin, Current, AtRest
<1>8. ASSUME NEW v \in Viewers, ViewerSteps(v)
      PROVE  Origins'
  <2>1. UNCHANGED <<conn, generation, recovering>>
    BY <1>8, ViewerAside DEF feed, bridge
  <2>2. /\ \A w \in Viewers \ {v} : peer'[w] = peer[w]
        /\ Effect(peer[v], peer'[v])
    BY <1>1, <1>8, ViewerEffect
  <2>3. Origin(peer[v])'
    <3>1. CASE Still(peer[v], peer'[v])
      BY <1>2, <2>1, <3>1 DEF Still, Origin, Current
    <3>2. CASE AtRest(peer'[v])
      BY <3>2 DEF AtRest, Origin, Current
    <3>3. CASE Takes(peer[v], peer'[v])
      <4> DEFINE q == peer[v].queue
      <4>1. /\ q \in Seq(Samples) /\ q # <<>> /\ peer'[v].taken = Head(q)
            /\ peer'[v].queue = Tail(q)
        BY <1>2, <3>3 DEF Takes
      <4>2. /\ \A i \in DOMAIN q : q[i].gen = generation /\ q[i].of = conn
            /\ ~recovering
        BY <1>2, <4>1 DEF Origin
      <4> HIDE DEF q
      <4>3. /\ \A i \in DOMAIN Tail(q) : i + 1 \in DOMAIN q /\ Tail(q)[i] = q[i + 1]
            /\ Head(q) = q[1] /\ 1 \in DOMAIN q
        BY <4>1, TailIs
      <4>4. QED
        BY <1>1, <2>1, <4>1, <4>2, <4>3 DEF Origin, Current
    <3>4. CASE Leaves(peer[v], peer'[v])
      BY <1>2, <2>1, <3>4 DEF Leaves, Origin, Current
    <3>5. QED
      BY <2>2, <3>1, <3>2, <3>3, <3>4 DEF Effect, Skips, Writes
  <2>4. ASSUME NEW w \in Viewers PROVE Origin(peer[w])'
    <3>1. CASE w = v
      BY <2>3, <3>1
    <3>2. CASE w # v
      BY <1>2, <2>1, <2>2, <3>2 DEF Origin, Current
    <3>3. QED
      BY <3>1, <3>2
  <2>5. QED
    BY <2>4 DEF Origins
<1>9. CASE UNCHANGED vars
  BY <1>3, <1>9 DEF vars, feed, bridge, peers
<1>10. QED
  BY <1>6, <1>7, <1>8, <1>9 DEF Next

LEMMA OriginInit == Init => Origins
<1> SUFFICES ASSUME Init, NEW v \in Viewers PROVE Origin(peer[v])
  BY DEF Origins
<1>1. peer = [w \in Viewers |-> Idle("new")]
  BY DEF Init
<1>2. AtRest(peer[v])
  BY <1>1, IdleIs
<1>3. QED
  BY <1>2 DEF AtRest, Origin, Current

\* What a viewer sees change, it was in the hands of its goroutine for.
LEMMA Showing ==
    ASSUME ReaderInv, PeerInv, [Next]_vars, NEW v \in Viewers,
           peer'[v].shown # peer[v].shown, peer'[v].shown # Unseen
    PROVE  Writes(peer[v], peer'[v])
<1>1. /\ PeerTypeOK /\ Peers /\ generation \in Generations
  BY DEF PeerInv, ReaderInv, FeedTypeOK
<1>2. CASE Feed
  <2>1. /\ Head(sock[conn].data) \in Frames /\ Broadcast(Head(sock[conn].data))
    BY <1>2, HeadOf DEF Feed
  <2>2. peer' = peer \/ Send(Head(sock[conn].data))
    BY <2>1 DEF Broadcast, peers
  <2>3. peer'[v].shown = peer[v].shown \/ AtRest(peer'[v])
    BY <1>1, <2>1, <2>2, SendEffect DEF Fed
  <2>4. QED
    BY <2>3 DEF AtRest
<1>3. CASE BeginRecovery
  BY <1>1, <1>3, BeginEffect, UnreadyIs, TypedPeer
<1>4. CASE ReaderSteps \/ SourceSteps \/ StopRecovery
  BY <1>2, <1>3, <1>4, ReaderStepsAre DEF Aside, peers
<1>5. CASE Fail
  BY <1>1, <1>5, FailEffect DEF AtRest
<1>6. ASSUME NEW w \in Viewers, ViewerSteps(w)
      PROVE  Writes(peer[v], peer'[v])
  BY <1>1, <1>6, ViewerEffect DEF Effect, Still, AtRest, Takes, Skips
<1>7. CASE UNCHANGED vars
  BY <1>7 DEF vars, peers
<1>8. QED
  BY <1>4, <1>5, <1>6, <1>7 DEF Next

\* A viewer is never shown what is left of a capture that was lost: while one is replaced it is
\* shown nothing, and then only records of the connection that is read, whatever was in its
\* channel or in the hands of its goroutine (beginRecovery, the viewer's goroutine).
THEOREM OldPictureIsDropped == Spec => LostPictureNotShown
<1>1. Init => ReaderInv /\ PeerInv /\ Origins
  BY ReaderInit, PeerInit, OriginInit
<1>2. ReaderInv /\ PeerInv /\ Origins /\ [Next]_vars => (ReaderInv /\ PeerInv /\ Origins)'
  BY ReaderKept, PeerKept, OriginKept
<1>3. ASSUME ReaderInv, PeerInv, Origins, [Next]_vars
      PROVE  \A v \in Viewers :
               peer'[v].shown # peer[v].shown /\ peer'[v].shown # Unseen =>
                 ~recovering /\ peer'[v].shown.of = conn
  <2> SUFFICES ASSUME NEW v \in Viewers, peer'[v].shown # peer[v].shown,
                      peer'[v].shown # Unseen
               PROVE  ~recovering /\ peer'[v].shown.of = conn
    OBVIOUS
  <2>1. Writes(peer[v], peer'[v])
    BY <1>3, Showing
  <2>2. Origin(peer[v])
    BY <1>3 DEF Origins
  <2>3. QED
    BY <2>1, <2>2 DEF Writes, Leaves, Lost, Origin, Current
<1>4. QED
  BY <1>1, <1>2, <1>3, PTL DEF Spec, LostPictureNotShown

-----------------------------------------------------------------------------
(* A viewer that is sent pictures is sent each of them. *)

\* s can be decoded after p.
Follows(s, p) == s.key \/ (s.of = p.of /\ s.n = p.n + 1)

\* The last picture sent to a viewer of the capture that is read now, or shown to it.
Latest(p) == IF p.queue # <<>> THEN p.queue[Len(p.queue)]
             ELSE IF Current(p.taken) THEN p.taken ELSE p.shown

\* The next record of conn, read or not yet written, comes after n.
Continues(n) ==
    /\ sock[conn].server # "queued"
    /\ sock[conn].data # <<>> => sock[conn].data[1].n = n + 1
    /\ sock[conn].data = <<>> /\ serving = conn /\ pump # "ended"
            /\ sock[conn].client # "closed" => n = Upto

\* Continues stays true when nothing is written to the connection that is read.
LEMMA ContinuesSame ==
    ASSUME NEW n, Continues(n), conn' = conn, sock'[conn].server \in {sock[conn].server, "closed"},
           sock'[conn].data = sock[conn].data,
           sock[conn].client = "closed" => sock'[conn].client = "closed",
           serving' = conn /\ pump' # "ended" =>
             serving = conn /\ pump # "ended" /\ Upto' = Upto
    PROVE  Continues(n)'
BY DEF Continues

\* The end of the connection that is read leaves nothing to continue with.
LEMMA ContinuesDropped ==
    ASSUME NEW n, Continues(n), conn' = conn, sock'[conn].server = sock[conn].server,
           sock'[conn].data = <<>>, sock'[conn].client = "closed"
    PROVE  Continues(n)'
BY DEF Continues

LEMMA ContinuesSource ==
    ASSUME ReaderInv, SourceNext, UNCHANGED feed, NEW n \in Nat, Continues(n)
    PROVE  Continues(n)'
<1>1. /\ SourceInv /\ SourceTypeOK /\ sock \in [Conns -> Socket] /\ conn' = conn
      /\ \A c \in Conns : sock[c] \in Socket
      /\ made \in Nat /\ sent \in Nat /\ Conns \subseteq Nat /\ None \notin Conns /\ conn \in Conns
      /\ conn <= made /\ (holding # None => holding \in Conns /\ holding # conn)
  BY SourceTypes DEF ReaderInv, SourceInv, SourceTypeOK, FeedTypeOK, Ordered, feed
<1>2. ASSUME UNCHANGED sock, serving' = serving, pump' # "ended" => pump # "ended", Upto' = Upto
      PROVE  Continues(n)'
  BY <1>1, <1>2, ContinuesSame
<1>3. CASE Accept
  <2>1. PICK c \in Conns : /\ sock[c].server = "queued" /\ serving' = c
                           /\ sock' = [sock EXCEPT ![c] = [sock[c] EXCEPT !.server = "served"]]
    BY <1>3 DEF Accept
  <2>2. c # conn
    BY <2>1 DEF Continues
  <2>3. sock'[conn] = sock[conn]
    BY <1>1, <2>1, <2>2
  <2>4. QED
    BY <1>1, <2>1, <2>2, <2>3, ContinuesSame
<1>4. ASSUME serving # None, Return
      PROVE  Continues(n)'
  <2>1. serving \in Conns /\ sock' = HungUp(sock, serving) /\ serving' = None
    BY <1>1, <1>4, ServedMade DEF Return
  <2>2. /\ sock'[conn].server \in {sock[conn].server, "closed"}
        /\ sock'[conn].data = sock[conn].data /\ sock'[conn].client = sock[conn].client
    BY <1>1, <2>1, HungUpIs
  <2>3. QED
    BY <1>1, <2>1, <2>2, ContinuesSame
<1>5. CASE ServeFails \/ Join
  BY <1>1, <1>4, <1>5 DEF ServeFails, Join, SourceInv, Serving
<1>6. CASE Declare
  <2>1. PICK h \in {"same", "other"} :
          sock' = [sock EXCEPT ![serving] = [sock[serving] EXCEPT !.head = h]]
    BY <1>6 DEF Declare
  <2> DEFINE s == [sock[serving] EXCEPT !.head = h]
  <2>2. serving \in Conns
    BY <1>1, <1>6, ServedMade DEF Declare, SourceInv, Serving
  <2>3. /\ s.data = sock[serving].data /\ s.server = sock[serving].server
        /\ s.client = sock[serving].client
    BY <1>1, <2>2 DEF Socket
  <2> HIDE DEF s
  <2>4. sock'[serving] = s /\ \A d \in Conns \ {serving} : sock'[d] = sock[d]
    BY <1>1, <2>1, <2>2 DEF s
  <2>5. /\ serving' = serving /\ sent' = sent
        /\ \/ at = "open" /\ at' = "encode" /\ pump' = pump
           \/ pump = "head" /\ pump' = "write" /\ at' = at
    BY <1>6 DEF Declare
  <2>6. Upto' = Upto /\ (pump' # "ended" => pump # "ended")
    BY <2>5 DEF Upto
  <2>7. QED
    BY <1>1, <2>2, <2>3, <2>4, <2>5, <2>6, ContinuesSame
<1>7. CASE StartEncoder
  <2>1. UNCHANGED <<sock, serving, sent>> /\ pump = "none" /\ pump' = "read"
    BY <1>1, <1>7 DEF StartEncoder, SourceInv, Serving
  <2>2. QED
    BY <1>2, <2>1 DEF Upto
<1>8. CASE CaptureEnds \/ DaemonStarts \/ WorkerEnds
  <2>1. UNCHANGED <<sock, serving, sent, pump>>
    BY <1>8 DEF CaptureEnds, DaemonStarts, WorkerEnds, daemon
  <2>2. QED
    BY <1>2, <2>1 DEF Upto
<1>9. CASE DaemonDies
  <2>1. /\ sock' = [c \in Conns |-> IF sock[c].server \in {"queued", "served"}
                                    THEN [sock[c] EXCEPT !.server = "closed"] ELSE sock[c]]
        /\ serving' = None
    BY <1>9 DEF DaemonDies
  <2> DEFINE s == [sock[conn] EXCEPT !.server = "closed"]
  <2>2. s.data = sock[conn].data /\ s.server = "closed" /\ s.client = sock[conn].client
    BY <1>1 DEF Socket
  <2> HIDE DEF s
  <2>3. sock'[conn] = s \/ sock'[conn] = sock[conn]
    BY <1>1, <2>1 DEF s
  <2>4. QED
    BY <1>1, <2>1, <2>2, <2>3, ContinuesSame
<1>10. CASE ReadEncoder
  <2>1. /\ UNCHANGED <<sock, serving>> /\ pump = "read" /\ sent' = sent + 1
        /\ pump' \in {"head", "write"}
    BY <1>10 DEF ReadEncoder
  <2>2. Upto' = Upto
    BY <1>1, <2>1 DEF Upto
  <2>3. QED
    BY <1>2, <2>1, <2>2
<1>11. CASE ReadEnds \/ WriteEnds
  <2>1. /\ serving' = serving /\ pump' = "ended" /\ pump \in {"read", "head", "write"}
        /\ sock' = IF at = "x11" THEN sock ELSE HungUp(sock, serving)
    BY <1>11 DEF ReadEnds, WriteEnds, PumpEnds
  <2>2. serving \in Conns
    BY <1>1, <2>1, ServedMade DEF SourceInv, Serving
  <2>3. /\ sock'[conn].server \in {sock[conn].server, "closed"}
        /\ sock'[conn].data = sock[conn].data /\ sock'[conn].client = sock[conn].client
    BY <1>1, <2>1, <2>2, HungUpIs
  <2>4. QED
    BY <1>1, <2>1, <2>3, ContinuesSame
<1>12. CASE WriteRecord
  <2>1. PICK k \in BOOLEAN :
          LET f == [of |-> serving, n |-> sent, key |-> k]
              s == [sock EXCEPT ![serving].data = Append(@, f)]
          IN sock' = IF at = "join" THEN HungUp(s, serving) ELSE s
    BY <1>12 DEF WriteRecord
  <2>2. /\ pump = "write" /\ sock[serving].client # "closed" /\ serving' = serving
        /\ sent' = sent /\ pump' \in {"ended", "read"}
    BY <1>12 DEF WriteRecord
  <2>3. serving \in Conns /\ sent >= 1 /\ sent \in 1..MaxFrames
    BY <1>1, <2>2, ServedMade DEF SourceInv, SourceTypeOK, Serving
  <2> DEFINE f == [of |-> serving, n |-> sent, key |-> k]
             e == Append(sock[serving].data, f)
             r == [sock[serving] EXCEPT !.data = e]
             s == [sock EXCEPT ![serving] = r]
  <2>4. f \in Frames /\ f.n = sent
    BY <2>3 DEF Frames
  <2>5. sock' = IF at = "join" THEN HungUp(s, serving) ELSE s
    BY <2>1
  <2> HIDE DEF f
  <2>6. /\ e # <<>> /\ e \in Seq(Frames) /\ sock[serving].data \in Seq(Frames)
        /\ e[1] = IF sock[serving].data = <<>> THEN f ELSE sock[serving].data[1]
    <3>1. sock[serving].data \in Seq(Frames)
      BY <1>1, <2>3, SourceTypes
    <3>2. QED
      BY <2>4, <3>1
  <2> HIDE DEF e
  <2>7. r \in Socket /\ r.data = e /\ r.server = sock[serving].server
        /\ r.client = sock[serving].client
    BY <1>1, <2>3, <2>6 DEF Socket
  <2> HIDE DEF r
  <2>8. /\ s \in [Conns -> Socket] /\ s[serving] = r
        /\ \A c \in Conns \ {serving} : s[c] = sock[c]
    BY <1>1, <2>3, <2>7
  <2> HIDE DEF s
  <2>9. /\ sock'[serving].data = e /\ sock'[serving].server \in {sock[serving].server, "closed"}
        /\ \A c \in Conns \ {serving} : sock'[c] = sock[c]
    BY <2>3, <2>5, <2>7, <2>8, HungUpIs
  <2>10. CASE serving = conn
    <3>1. sock[conn].data = <<>> => n = sent - 1
      BY <2>2, <2>10 DEF Continues, Upto
    <3>2. e[1].n = n + 1
      <4>1. CASE sock[conn].data = <<>>
        BY <1>1, <2>4, <2>6, <2>10, <3>1, <4>1
      <4>2. CASE sock[conn].data # <<>>
        BY <2>6, <2>10, <4>2 DEF Continues
      <4>3. QED
        BY <4>1, <4>2
    <3>3. QED
      BY <1>1, <2>6, <2>9, <2>10, <3>2 DEF Continues
  <2>11. CASE serving # conn
    <3>1. sock'[conn] = sock[conn]
      BY <1>1, <2>9, <2>11
    <3>2. QED
      BY <1>1, <2>2, <2>11, <3>1, ContinuesSame
  <2>12. QED
    BY <2>10, <2>11
<1>13. ASSUME UNCHANGED daemon, sock'[conn] = sock[conn]
       PROVE  Continues(n)'
  BY <1>1, <1>13, ContinuesSame DEF daemon, Upto
<1>14. CASE TakeAsk
  <2>1. sock' = sock \/ sock' = [sock EXCEPT ![made + 1] = [sock[made + 1] EXCEPT
                                   !.client = "broker", !.server = "queued"]]
    BY <1>14 DEF TakeAsk
  <2>2. made + 1 # conn
    BY <1>1
  <2>3. UNCHANGED daemon /\ sock'[conn] = sock[conn]
    BY <1>1, <1>14, <2>1, <2>2 DEF TakeAsk
  <2>4. QED
    BY <1>13, <2>3
<1>15. CASE SendAnswer
  <2>1. /\ UNCHANGED daemon
        /\ sock' = IF holding = None THEN sock
                   ELSE [sock EXCEPT ![holding] = [sock[holding] EXCEPT !.client = "flight"]]
    BY <1>15 DEF SendAnswer
  <2>2. sock'[conn] = sock[conn]
    BY <1>1, <2>1
  <2>3. QED
    BY <1>13, <2>1, <2>2
<1>16. CASE SendFails
  <2>1. UNCHANGED daemon /\ sock'[conn] = sock[conn]
    BY <1>1, <1>16, DroppedIs DEF SendFails
  <2>2. QED
    BY <1>13, <2>1
<1>17. QED
  BY <1>3, <1>5, <1>6, <1>7, <1>8, <1>9, <1>10, <1>11, <1>12, <1>14, <1>15, <1>16
  DEF SourceNext, MainStep, PumpStep, WorkerStep

LEMMA ContinuesReader ==
    ASSUME ReaderInv, ReaderSteps \/ StopRecovery, ~Feed, ~Adopt, NEW n, Continues(n)
    PROVE  Continues(n)'
<1>1. /\ SourceTypeOK /\ sock \in [Conns -> Socket] /\ conn \in Conns /\ None \notin Conns
      /\ next \in Conns \cup {None} /\ answers \in Seq(Conns \cup {None})
      /\ (next # None => conn < next) /\ Conns \subseteq Nat
  BY SourceTypes DEF ReaderInv, SourceInv, SourceTypeOK, FeedTypeOK, Ordered
<1>2. ASSUME UNCHANGED <<daemon, conn>>, sock'[conn] = sock[conn]
      PROVE  Continues(n)'
  BY <1>2, ContinuesSame DEF daemon, Upto
<1>3. CASE FirstHeader
  <2>1. UNCHANGED <<daemon, conn>> /\ sock' = Unread(conn)
    BY <1>3 DEF FirstHeader
  <2>2. QED
    BY <1>1, <2>1, UnreadIs, ContinuesSame DEF daemon, Upto
<1>4. CASE FeedEnds
  <2>1. UNCHANGED <<daemon, conn>> /\ sock' = Dropped(sock, conn)
    BY <1>4 DEF FeedEnds
  <2>2. QED
    BY <1>1, <2>1, DroppedIs, ContinuesDropped
<1>5. CASE Pause
  BY <1>2, <1>5 DEF Pause, source
<1>6. CASE BeginRecovery
  <2>1. UNCHANGED <<source, conn>>
    BY <1>6 DEF BeginRecovery
  <2>2. QED
    BY <1>2, <2>1 DEF source
<1>7. CASE Ask \/ AskFails \/ Unanswered \/ Retry \/ ReaderReturns
  BY <1>2, <1>7 DEF Ask, AskFails, Unanswered, Retry, ReaderReturns, Goes
<1>8. CASE Answered
  <2>1. /\ UNCHANGED <<daemon, conn>> /\ answers # <<>> /\ next' = Head(answers)
        /\ IF next' = None THEN sock' = sock
           ELSE sock' = [sock EXCEPT ![next'] = [sock[next'] EXCEPT !.client = "bridge"]]
    BY <1>8 DEF Answered, Goes
  <2>2. next' # None => conn < next'
    <3>1. 1 \in DOMAIN answers /\ answers[1] = next'
      BY <1>1, <2>1, TailIs
    <3>2. QED
      BY <3>1 DEF ReaderInv, Ordered
  <2>3. next' # None => next' # conn
    BY <1>1, <2>2
  <2>4. sock'[conn] = sock[conn]
    BY <1>1, <2>1, <2>3
  <2>5. QED
    BY <1>2, <2>1, <2>4
<1>9. CASE Compatible \/ Refused
  <2>1. UNCHANGED <<daemon, conn>> /\ sock' \in {Unread(next), Dropped(sock, next)}
        /\ reader = "header"
    BY <1>9 DEF Compatible, Refused, Goes
  <2>2. next \in Conns /\ conn \in Conns \ {next}
    BY <1>1, <2>1 DEF ReaderInv, Ordered
  <2>3. sock'[conn] = sock[conn]
    <3>1. Unread(next)[conn] = sock[conn]
      BY <1>1, <2>2, UnreadIs
    <3>2. Dropped(sock, next)[conn] = sock[conn]
      BY <1>1, <2>2, DroppedIs
    <3>3. QED
      BY <2>1, <3>1, <3>2
  <2>4. QED
    BY <1>2, <2>1, <2>3
<1>10. CASE StopRecovery
  <2>1. /\ UNCHANGED <<daemon, conn>>
        /\ sock' = [c \in Conns |-> IF c = conn \/ sock[c].client = "flight"
                                    THEN Dropped(sock, c)[c] ELSE sock[c]]
    BY <1>10 DEF StopRecovery, feed
  <2>2. sock'[conn] = Dropped(sock, conn)[conn]
    BY <1>1, <2>1
  <2>3. QED
    BY <1>1, <2>1, <2>2, DroppedIs, ContinuesDropped
<1>11. QED
  BY <1>3, <1>4, <1>5, <1>6, <1>7, <1>8, <1>9, <1>10 DEF ReaderSteps

\* The record that has just been taken is the one that the rest continues.
LEMMA ContinuesFed ==
    ASSUME ReaderInv, Feed, NEW n, n = Head(sock[conn].data).n
    PROVE  Continues(n)'
<1> DEFINE d == sock[conn].data
           t == Tail(d)
<1>1. /\ SourceTypeOK /\ conn \in Conns /\ d # <<>> /\ UNCHANGED <<conn, daemon>>
      /\ sock' = Next1(conn)
  BY DEF ReaderInv, SourceInv, FeedTypeOK, Feed
<1>2. /\ sock'[conn].server = sock[conn].server /\ sock'[conn].data = t
  BY <1>1, Next1Is
<1>3. d \in Seq(Frames) /\ Recorded(conn)
  BY <1>1, SourceTypes DEF ReaderInv, SourceInv
<1>4. /\ sock[conn].server # "queued"
      /\ \A i \in DOMAIN d : d[i].n = d[1].n + i - 1
      /\ serving = conn /\ pump # "ended" => d[Len(d)].n = Upto
  BY <1>1, <1>3 DEF Recorded
<1> HIDE DEF d
<1>5. /\ Len(d) \in Nat \ {0} /\ DOMAIN d = 1..Len(d) /\ Len(t) = Len(d) - 1
      /\ Head(d) = d[1] /\ \A i \in 1..Len(d) - 1 : t[i] = d[i + 1]
      /\ t \in Seq(Frames)
  BY <1>1, <1>3, TailIs
<1>6. n = d[1].n
  BY <1>5 DEF d
<1>7. d[1].n \in Nat
  BY <1>3, <1>5, FrameNumbers
<1> HIDE DEF t
<1>8. CASE t = <<>>
  <2>1. Len(d) = 1
    <3>1. Len(t) = 0
      BY <1>8
    <3>2. Len(d) \in Nat /\ Len(t) = Len(d) - 1
      BY <1>5
    <3>3. QED
      BY <3>1, <3>2
  <2>2. serving = conn /\ pump # "ended" => n = Upto
    BY <1>4, <1>6, <2>1
  <2>3. QED
    BY <1>1, <1>2, <1>4, <1>8, <2>2 DEF Continues, Upto, daemon
<1>9. CASE t # <<>>
  <2>1. Len(t) # 0
    BY <1>5, <1>9
  <2>2. Len(d) >= 2 /\ 2 \in DOMAIN d /\ t[1] = d[2]
    BY <1>5, <2>1
  <2>3. t[1].n = n + 1
    BY <1>4, <1>6, <1>7, <2>2
  <2>4. QED
    BY <1>1, <1>2, <1>4, <1>9, <2>3 DEF Continues
<1>10. QED
  BY <1>8, <1>9

\* What a viewer was shown, what is in its goroutine's hands and what its channel holds follow
\* one another, up to the last picture that was read of the connection if it is ready.
Unbroken(p) ==
    /\ \A i \in DOMAIN p.queue : i + 1 \in DOMAIN p.queue => Follows(p.queue[i + 1], p.queue[i])
    /\ p.queue # <<>> =>
        CASE p.taken = NoSample -> Follows(p.queue[1], p.shown)
          [] Current(p.taken)   -> Follows(p.queue[1], p.taken)
          [] OTHER              -> p.queue[1].key
    /\ Current(p.taken) => Follows(p.taken, p.shown)
    /\ p.ready => /\ ~recovering
                  /\ p.taken # NoSample /\ ~Current(p.taken) => p.queue # <<>>
                  /\ Latest(p).of = conn /\ Continues(Latest(p).n)

Pictures == \A v \in Viewers : Unbroken(peer[v])

LEMMA LatestType ==
    ASSUME PeerTypeOK, NEW v \in Viewers
    PROVE  Latest(peer[v]).n \in Nat
<1>1. /\ peer[v].queue \in Seq(Samples) /\ peer[v].taken \in Samples \cup {NoSample}
      /\ peer[v].shown \in [of : 0..MaxConns, n : 0..MaxFrames] /\ MaxFrames \in Nat
  BY TypedPeer, Scales DEF Peer
<1>2. CASE peer[v].queue # <<>>
  <2>1. peer[v].queue[Len(peer[v].queue)] \in Samples
    BY <1>1, <1>2
  <2>2. QED
    BY <1>2, <2>1, SamplesAre DEF Latest
<1>3. CASE peer[v].queue = <<>> /\ Current(peer[v].taken)
  <2>1. peer[v].taken \in Samples
    BY <1>1, <1>3 DEF Current
  <2>2. QED
    BY <1>3, <2>1, SamplesAre DEF Latest
<1>4. CASE peer[v].queue = <<>> /\ ~Current(peer[v].taken)
  <2>1. peer[v].shown.n \in Nat
    BY <1>1
  <2>2. QED
    BY <1>4, <2>1 DEF Latest
<1>5. QED
  BY <1>2, <1>3, <1>4

\* Nothing is on its way to a viewer that waits for a key frame.
LEMMA UnbrokenVoid ==
    ASSUME NEW v \in Viewers, peer'[v].queue = <<>>, ~Current(peer[v].taken)',
           ~peer'[v].ready
    PROVE  Unbroken(peer[v])'
<1>1. DOMAIN peer'[v].queue = {}
  OBVIOUS
<1>2. QED
  BY <1>1 DEF Unbroken

LEMMA UnbrokenRest ==
    ASSUME NEW v \in Viewers, AtRest(peer'[v])
    PROVE  Unbroken(peer[v])'
BY UnbrokenVoid DEF AtRest, Current

LEMMA UnbrokenStill ==
    ASSUME PeerTypeOK, NEW v \in Viewers, Unbroken(peer[v]), Still(peer[v], peer'[v]),
           UNCHANGED <<generation, conn>>,
           peer'[v].ready => ~recovering' /\ \A n \in Nat : Continues(n) => Continues(n)'
    PROVE  Unbroken(peer[v])'
<1>1. PICK m \in Nat : m = Latest(peer[v]).n
  BY LatestType
<1>2. /\ peer'[v].queue = peer[v].queue /\ peer'[v].taken = peer[v].taken
      /\ peer'[v].shown = peer[v].shown /\ (peer'[v].ready => peer[v].ready)
  BY DEF Still
<1>3. /\ Current(peer[v].taken)' <=> Current(peer[v].taken)
      /\ Latest(peer[v])' = Latest(peer[v])
  BY <1>2 DEF Current, Latest
<1>4. peer'[v].ready => /\ ~recovering' /\ Latest(peer[v]).of = conn /\ Continues(m)'
                        /\ peer[v].taken # NoSample /\ ~Current(peer[v].taken) =>
                             peer[v].queue # <<>>
  <2>1. peer[v].ready => /\ Latest(peer[v]).of = conn /\ Continues(m)
                         /\ peer[v].taken # NoSample /\ ~Current(peer[v].taken) =>
                              peer[v].queue # <<>>
    BY <1>1 DEF Unbroken
  <2>2. QED
    BY <1>2, <2>1
<1>5. /\ \A i \in DOMAIN peer[v].queue : i + 1 \in DOMAIN peer[v].queue =>
           Follows(peer[v].queue[i + 1], peer[v].queue[i])
      /\ peer[v].queue # <<>> =>
           CASE peer[v].taken = NoSample -> Follows(peer[v].queue[1], peer[v].shown)
             [] Current(peer[v].taken)   -> Follows(peer[v].queue[1], peer[v].taken)
             [] OTHER                    -> peer[v].queue[1].key
      /\ Current(peer[v].taken) => Follows(peer[v].taken, peer[v].shown)
  BY DEF Unbroken
<1>6. QED
  BY <1>1, <1>2, <1>3, <1>4, <1>5 DEF Unbroken, Continues, Follows

LEMMA UnbrokenTakes ==
    ASSUME PeerTypeOK, NEW v \in Viewers, Origin(peer[v]), Unbroken(peer[v]),
           Takes(peer[v], peer'[v]), UNCHANGED <<generation, conn, recovering>>,
           \A n \in Nat : Continues(n) => Continues(n)'
    PROVE  Unbroken(peer[v])'
<1> DEFINE d == peer[v].queue
           t == peer'[v].queue
<1>1. /\ d \in Seq(Samples) /\ d # <<>> /\ t = Tail(d) /\ peer'[v].taken = Head(d)
      /\ peer[v].taken = NoSample /\ peer'[v].shown = peer[v].shown
      /\ peer'[v].ready = peer[v].ready
  BY TypedPeer DEF Takes
<1>2. PICK m \in Nat : m = Latest(peer[v]).n
  BY LatestType
<1>3. /\ \A i \in DOMAIN d : i + 1 \in DOMAIN d => Follows(d[i + 1], d[i])
      /\ Follows(d[1], peer[v].shown)
      /\ peer[v].ready => ~recovering /\ d[Len(d)].of = conn /\ Continues(m)
      /\ m = d[Len(d)].n
  <2>1. Latest(peer[v]) = d[Len(d)]
    BY <1>1 DEF Latest
  <2>2. d # <<>> => Follows(d[1], peer[v].shown)
    <3>1. peer[v].taken = NoSample /\ ~Current(peer[v].taken)
      BY <1>1 DEF Current
    <3>2. d # <<>> =>
            CASE peer[v].taken = NoSample -> Follows(d[1], peer[v].shown)
              [] Current(peer[v].taken)   -> Follows(d[1], peer[v].taken)
              [] OTHER                    -> d[1].key
      BY DEF Unbroken
    <3>3. QED
      BY <3>1, <3>2
  <2>3. peer[v].ready => ~recovering /\ Latest(peer[v]).of = conn /\ Continues(m)
    BY <1>2 DEF Unbroken
  <2>4. \A i \in DOMAIN d : i + 1 \in DOMAIN d => Follows(d[i + 1], d[i])
    BY DEF Unbroken
  <2>5. QED
    BY <1>1, <1>2, <2>1, <2>2, <2>3, <2>4
<1>4. \A i \in DOMAIN d : d[i].gen = generation
  BY DEF Origin
<1> HIDE DEF d, t
<1>5. /\ Len(d) \in Nat \ {0} /\ DOMAIN d = 1..Len(d) /\ DOMAIN t = 1..Len(d) - 1
      /\ Len(t) = Len(d) - 1 /\ peer'[v].taken = d[1] /\ d[1] \in Samples /\ t \in Seq(Samples)
      /\ \A i \in 1..Len(d) - 1 : t[i] = d[i + 1]
  BY <1>1, TailIs
<1>6. peer'[v].taken # NoSample /\ Current(peer[v].taken)'
  BY <1>1, <1>4, <1>5, SamplesAre DEF Current
<1>7. \A i \in DOMAIN t : i + 1 \in DOMAIN t => Follows(t[i + 1], t[i])
  <2> SUFFICES ASSUME NEW i \in DOMAIN t, i + 1 \in DOMAIN t PROVE Follows(t[i + 1], t[i])
    OBVIOUS
  <2>1. /\ i + 1 \in DOMAIN d /\ (i + 1) + 1 \in DOMAIN d /\ t[i] = d[i + 1]
        /\ t[i + 1] = d[(i + 1) + 1]
    BY <1>5
  <2>2. QED
    BY <1>3, <2>1
<1>8. t # <<>> => /\ Follows(t[1], d[1]) /\ t[Len(t)] = d[Len(d)]
  <2> SUFFICES ASSUME t # <<>> PROVE Follows(t[1], d[1]) /\ t[Len(t)] = d[Len(d)]
    OBVIOUS
  <2>1. Len(t) # 0
    BY <1>5
  <2>2. /\ 1 \in DOMAIN d /\ 1 + 1 \in DOMAIN d /\ t[1] = d[1 + 1] /\ Len(t) \in 1..Len(d) - 1
        /\ Len(t) + 1 = Len(d)
    BY <1>5, <2>1
  <2>3. QED
    BY <1>3, <1>5, <2>2
<1>9. t = <<>> => d[1] = d[Len(d)]
  <2> SUFFICES ASSUME t = <<>> PROVE Len(d) = 1
    OBVIOUS
  <2>1. Len(t) = 0
    OBVIOUS
  <2>2. Len(d) \in Nat /\ Len(t) = Len(d) - 1
    BY <1>5
  <2>3. QED
    BY <2>1, <2>2
<1>10. Latest(peer[v])' = d[Len(d)]
  <2>1. CASE t # <<>>
    BY <1>8, <2>1 DEF Latest, t
  <2>2. CASE t = <<>>
    <3>1. Latest(peer[v])' = peer'[v].taken
      BY <1>6, <2>2 DEF Latest, t
    <3>2. QED
      BY <1>5, <1>9, <2>2, <3>1
  <2>3. QED
    BY <2>1, <2>2
<1>11. peer'[v].ready => Continues(m)' /\ ~recovering' /\ d[Len(d)].of = conn'
  BY <1>1, <1>3
<1>12. QED
  BY <1>1, <1>3, <1>5, <1>6, <1>7, <1>8, <1>10, <1>11 DEF Unbroken, Continues, Follows, t

LEMMA UnbrokenSkips ==
    ASSUME PeerTypeOK, NEW v \in Viewers, Origin(peer[v]), Unbroken(peer[v]),
           Skips(peer[v], peer'[v]), UNCHANGED <<generation, conn, recovering>>,
           \A n \in Nat : Continues(n) => Continues(n)'
    PROVE  Unbroken(peer[v])'
<1>1. /\ peer'[v].queue = peer[v].queue /\ peer'[v].taken = NoSample
      /\ peer'[v].shown = peer[v].shown /\ peer'[v].ready = peer[v].ready
      /\ peer[v].taken # NoSample
  BY DEF Skips, Leaves
<1>2. ~Current(peer[v].taken) /\ ~Current(peer[v].taken)'
  BY <1>1 DEF Skips, Lost, Origin, Current
<1>3. PICK m \in Nat : m = Latest(peer[v]).n
  BY LatestType
<1>4. /\ \A i \in DOMAIN peer[v].queue : i + 1 \in DOMAIN peer[v].queue =>
           Follows(peer[v].queue[i + 1], peer[v].queue[i])
      /\ peer[v].queue # <<>> => peer[v].queue[1].key
      /\ peer[v].ready => ~recovering /\ Latest(peer[v]).of = conn /\ Continues(m)
  BY <1>1, <1>2, <1>3 DEF Unbroken
<1>5. Latest(peer[v])' = Latest(peer[v])
  BY <1>1, <1>2 DEF Latest
<1>6. peer'[v].ready => Continues(m)'
  BY <1>1, <1>4
<1>7. QED
  BY <1>1, <1>2, <1>3, <1>4, <1>5, <1>6 DEF Unbroken, Continues, Follows

LEMMA UnbrokenWrites ==
    ASSUME PeerTypeOK, NEW v \in Viewers, Origin(peer[v]), Unbroken(peer[v]),
           Writes(peer[v], peer'[v]), UNCHANGED <<generation, conn, recovering>>,
           \A n \in Nat : Continues(n) => Continues(n)'
    PROVE  Unbroken(peer[v])'
<1>1. /\ peer'[v].queue = peer[v].queue /\ peer'[v].taken = NoSample
      /\ peer'[v].shown.of = peer[v].taken.of /\ peer'[v].shown.n = peer[v].taken.n
      /\ peer'[v].ready = peer[v].ready /\ peer[v].taken # NoSample
  BY DEF Writes, Leaves
<1>2. Current(peer[v].taken) /\ ~Current(peer[v].taken)'
  BY <1>1 DEF Writes, Lost, Current
<1>3. PICK m \in Nat : m = Latest(peer[v]).n
  BY LatestType
<1>4. /\ \A i \in DOMAIN peer[v].queue : i + 1 \in DOMAIN peer[v].queue =>
           Follows(peer[v].queue[i + 1], peer[v].queue[i])
      /\ peer[v].queue # <<>> => Follows(peer[v].queue[1], peer[v].taken)
      /\ peer[v].ready => ~recovering /\ Latest(peer[v]).of = conn /\ Continues(m)
  BY <1>1, <1>2, <1>3 DEF Unbroken
<1>5. Latest(peer[v])'.of = Latest(peer[v]).of /\ Latest(peer[v])'.n = m
  BY <1>1, <1>2, <1>3 DEF Latest
<1>6. peer'[v].ready => Continues(m)'
  BY <1>1, <1>4
<1>7. QED
  BY <1>1, <1>2, <1>3, <1>4, <1>5, <1>6 DEF Unbroken, Continues, Follows

LEMMA UnbrokenFed ==
    ASSUME ReaderInv, PeerTypeOK, NEW v \in Viewers, Unbroken(peer[v]), Feed, ~recovering',
           Fed(peer[v], peer'[v], Head(sock[conn].data))
    PROVE  Unbroken(peer[v])'
<1> DEFINE f == Head(sock[conn].data)
           s == Sample(f, generation)
           d == peer[v].queue
           e == peer'[v].queue
<1>1. /\ f \in Frames /\ f.of = conn /\ UNCHANGED <<conn, generation>> /\ sock[conn].data # <<>>
      /\ f = sock[conn].data[1] /\ generation \in Generations
  BY HeadOf DEF Feed, ReaderInv, FeedTypeOK
<1>2. PICK k : k = f.n
  OBVIOUS
<1>3. Continues(k)'
  BY <1>2, ContinuesFed
<1>4. PICK m \in Nat : m = Latest(peer[v]).n
  BY LatestType
<1>5. sock[conn].data # <<>> /\ Continues(m) => k = m + 1
  BY <1>1, <1>2 DEF Continues
<1>6. /\ d \in Seq(Samples) /\ e = Append(d, s) /\ peer'[v].taken = peer[v].taken
      /\ peer'[v].shown = peer[v].shown /\ peer'[v].ready /\ (f.key \/ peer[v].ready)
  BY TypedPeer DEF Fed
<1>7. /\ \A i \in DOMAIN d : i + 1 \in DOMAIN d => Follows(d[i + 1], d[i])
      /\ d # <<>> =>
           CASE peer[v].taken = NoSample -> Follows(d[1], peer[v].shown)
             [] Current(peer[v].taken)   -> Follows(d[1], peer[v].taken)
             [] OTHER                    -> d[1].key
      /\ Current(peer[v].taken) => Follows(peer[v].taken, peer[v].shown)
      /\ peer[v].ready =>
           /\ peer[v].taken # NoSample /\ ~Current(peer[v].taken) => d # <<>>
           /\ Latest(peer[v]).of = conn /\ Continues(m)
  BY <1>4 DEF Unbroken
<1>8. s \in Samples /\ s.of = conn /\ s.n = k /\ s.key = f.key
  BY <1>1, <1>2, SampleIs
<1>9. Current(peer[v].taken)' <=> Current(peer[v].taken)
  BY <1>1, <1>6 DEF Current
<1>10. Follows(s, Latest(peer[v]))
       \/ (s.key /\ ~peer[v].ready)
  BY <1>1, <1>4, <1>5, <1>6, <1>7, <1>8 DEF Follows
<1> HIDE DEF f, s, d, e
<1>11. /\ Len(e) = Len(d) + 1 /\ DOMAIN e = 1..Len(d) + 1 /\ DOMAIN d = 1..Len(d)
       /\ Len(d) \in Nat /\ \A i \in 1..Len(d) : e[i] = d[i]
       /\ e[Len(d) + 1] = s /\ e # <<>>
  BY <1>6, <1>8, AppendIs
<1>12. \A i \in DOMAIN e : i + 1 \in DOMAIN e => Follows(e[i + 1], e[i])
  <2> SUFFICES ASSUME NEW i \in DOMAIN e, i + 1 \in DOMAIN e PROVE Follows(e[i + 1], e[i])
    OBVIOUS
  <2>1. i \in 1..Len(d) /\ e[i] = d[i]
    BY <1>11
  <2>2. CASE i = Len(d)
    <3>1. d # <<>>
      BY <1>6, <2>1
    <3>2. Latest(peer[v]) = d[i]
      BY <2>2, <3>1 DEF Latest, d
    <3>3. e[i + 1] = s
      BY <1>11, <2>2
    <3>4. QED
      BY <1>10, <2>1, <3>2, <3>3 DEF Follows
  <2>3. CASE i # Len(d)
    <3>1. i + 1 \in 1..Len(d)
      BY <1>11, <2>1, <2>3
    <3>2. QED
      BY <1>7, <1>11, <2>1, <3>1
  <2>4. QED
    BY <2>2, <2>3
<1>13. (CASE peer[v].taken = NoSample -> Follows(e[1], peer[v].shown)
          [] Current(peer[v].taken)   -> Follows(e[1], peer[v].taken)
          [] OTHER                    -> e[1].key)
  <2>1. CASE d # <<>>
    <3>1. e[1] = d[1]
      BY <1>6, <1>11, <2>1
    <3>2. QED
      BY <1>7, <2>1, <3>1
  <2>2. CASE d = <<>>
    <3>1. e[1] = s
      <4>1. Len(d) = 0
        BY <2>2
      <4>2. QED
        BY <1>11, <4>1
    <3>2. Latest(peer[v]) = IF Current(peer[v].taken) THEN peer[v].taken ELSE peer[v].shown
      BY <2>2 DEF Latest, d
    <3>3. peer[v].taken = NoSample => ~Current(peer[v].taken)
      BY DEF Current
    <3>4. CASE s.key
      BY <3>1, <3>4 DEF Follows
    <3>5. CASE ~s.key
      <4>1. peer[v].ready /\ Follows(s, Latest(peer[v]))
        BY <1>6, <1>8, <1>10, <3>5
      <4>2. peer[v].taken = NoSample \/ Current(peer[v].taken)
        BY <1>7, <2>2, <4>1
      <4>3. QED
        BY <3>1, <3>2, <3>3, <4>1, <4>2
    <3>6. QED
      BY <3>4, <3>5
  <2>3. QED
    BY <2>1, <2>2
<1>14. Latest(peer[v])' = s
  <2>1. e[Len(e)] = s
    BY <1>11
  <2>2. QED
    BY <1>11, <2>1 DEF Latest, e
<1>15. QED
  BY <1>1, <1>3, <1>6, <1>7, <1>8, <1>9, <1>11, <1>12, <1>13, <1>14
  DEF Unbroken, Continues, Follows, e

LEMMA ContinuesAside ==
    ASSUME UNCHANGED <<source, conn>>, NEW n, Continues(n)
    PROVE  Continues(n)'
BY ContinuesSame DEF source, daemon, Upto

LEMMA PicturesKept ==
    ASSUME ReaderInv, PeerInv, Origins, Pictures, [Next]_vars
    PROVE  Pictures'
<1>1. /\ PeerTypeOK /\ Peers /\ generation \in Generations /\ generation \in Nat
  BY Scales DEF PeerInv, ReaderInv, FeedTypeOK
<1>2. ASSUME NEW v \in Viewers
      PROVE  /\ Origin(peer[v]) /\ Unbroken(peer[v])
             /\ peer[v].ready => ~recovering
             /\ peer[v].taken \in Samples \cup {NoSample}
  <2>1. Unbroken(peer[v])
    BY DEF Pictures
  <2>2. peer[v].ready => ~recovering
    BY <2>1 DEF Unbroken
  <2>3. QED
    BY <1>1, <2>1, <2>2, TypedPeer DEF Origins
<1>3. ASSUME UNCHANGED <<peer, conn, generation, recovering>>,
             recovering \/ \A n \in Nat : Continues(n) => Continues(n)'
      PROVE  Pictures'
  <2>1. ASSUME NEW v \in Viewers PROVE Unbroken(peer[v])'
    <3>1. Still(peer[v], peer'[v])
      BY <1>3 DEF Still
    <3>2. peer'[v].ready => ~recovering' /\ \A n \in Nat : Continues(n) => Continues(n)'
      BY <1>2, <1>3
    <3>3. QED
      BY <1>1, <1>2, <1>3, <3>1, <3>2, UnbrokenStill
  <2>2. QED
    BY <2>1 DEF Pictures
<1>4. CASE Feed
  <2> DEFINE f == Head(sock[conn].data)
  <2>1. /\ f \in Frames /\ Broadcast(f) /\ UNCHANGED <<conn, generation>>
    BY <1>4, HeadOf DEF Feed
  <2> HIDE DEF f
  <2>2. CASE recovering /\ ~f.key
    <3>1. UNCHANGED <<peer, recovering>>
      BY <2>1, <2>2 DEF Broadcast, peers
    <3>2. QED
      BY <1>3, <2>1, <2>2, <3>1
  <2>3. CASE ~(recovering /\ ~f.key)
    <3>1. Send(f) /\ ~recovering'
      BY <2>1, <2>3 DEF Broadcast
    <3>2. ASSUME NEW v \in Viewers PROVE Unbroken(peer[v])'
      <4>1. \/ AtRest(peer'[v])
            \/ peer'[v] = peer[v] /\ ~peer[v].ready
            \/ Fed(peer[v], peer'[v], f)
        BY <1>1, <2>1, <3>1, SendEffect
      <4>2. CASE AtRest(peer'[v])
        BY <4>2, UnbrokenRest
      <4>3. CASE peer'[v] = peer[v] /\ ~peer[v].ready
        <5>1. Still(peer[v], peer'[v]) /\ ~peer'[v].ready
          BY <4>3 DEF Still
        <5>2. QED
          BY <1>1, <1>2, <2>1, <5>1, UnbrokenStill
      <4>4. CASE Fed(peer[v], peer'[v], f)
        BY <1>1, <1>2, <1>4, <3>1, <4>4, UnbrokenFed DEF f
      <4>5. QED
        BY <4>1, <4>2, <4>3, <4>4
    <3>3. QED
      BY <3>2 DEF Pictures
  <2>4. QED
    BY <2>2, <2>3
<1>5. CASE BeginRecovery
  <2>1. /\ \A v \in Viewers : IF v \in viewers THEN peer'[v] = Unready(peer[v])
                              ELSE peer'[v] = peer[v]
        /\ generation' = generation + 1
    BY <1>1, <1>5, BeginEffect DEF BeginRecovery
  <2>2. ASSUME NEW v \in Viewers PROVE Unbroken(peer[v])'
    <3>1. CASE v \in viewers
      <4>1. peer'[v].queue = <<>> /\ peer'[v].taken = peer[v].taken /\ ~peer'[v].ready
        BY <1>1, <2>1, <3>1, UnreadyIs, TypedPeer
      <4>2. peer[v].taken # NoSample => peer[v].taken.gen \in Nat /\ peer[v].taken.gen <= generation
        BY <1>2, SamplesAre DEF Origin
      <4>3. ~Current(peer[v].taken)'
        BY <1>1, <2>1, <4>1, <4>2 DEF Current
      <4>4. QED
        BY <4>1, <4>3, UnbrokenVoid
    <3>2. CASE v \notin viewers
      <4>1. AtRest(peer'[v])
        BY <1>1, <2>1, <3>2 DEF Peers
      <4>2. QED
        BY <4>1, UnbrokenRest
    <3>3. QED
      BY <3>1, <3>2
  <2>3. QED
    BY <2>2 DEF Pictures
<1>6. CASE Adopt
  <2>1. recovering /\ UNCHANGED <<peer, generation>>
    BY <1>6 DEF Adopt, ReaderInv, Recovers, bridge, peers
  <2>2. ASSUME NEW v \in Viewers PROVE Unbroken(peer[v])'
    <3>1. peer'[v].queue = <<>> /\ ~peer'[v].ready /\ ~Current(peer[v].taken)'
      BY <1>2, <2>1 DEF Origin, Current
    <3>2. QED
      BY <3>1, UnbrokenVoid
  <2>3. QED
    BY <2>2 DEF Pictures
<1>7. CASE (ReaderSteps \/ SourceSteps \/ StopRecovery) /\ ~Feed /\ ~Adopt /\ ~BeginRecovery
  <2>1. UNCHANGED <<peer, recovering, generation>>
    BY <1>7, ReaderStepsAre DEF Aside, peers
  <2>2. CASE SourceSteps
    <3>1. SourceNext /\ UNCHANGED feed /\ conn' = conn
      BY <2>2 DEF SourceSteps, feed
    <3>2. QED
      BY <1>3, <2>1, <3>1, ContinuesSource
  <2>3. CASE ReaderSteps \/ StopRecovery
    <3>1. conn' = conn
      BY <1>7, <2>3
      DEF ReaderSteps, FirstHeader, FeedEnds, Pause, Ask, AskFails, Answered, Unanswered,
          Compatible, Refused, Retry, ReaderReturns, Goes, StopRecovery, feed
    <3>2. \A n \in Nat : Continues(n) => Continues(n)'
      BY <1>7, <2>3, ContinuesReader
    <3>3. QED
      BY <1>3, <2>1, <3>1, <3>2
  <2>4. QED
    BY <1>7, <2>2, <2>3
<1>8. CASE Fail
  <2>1. /\ \A v \in Viewers : AtRest(peer'[v]) \/ peer'[v] = peer[v]
        /\ UNCHANGED <<conn, generation, recovering, source>>
    BY <1>1, <1>8, FailEffect DEF Fail, feed, bridge
  <2>2. ASSUME NEW v \in Viewers PROVE Unbroken(peer[v])'
    <3>1. CASE AtRest(peer'[v])
      BY <3>1, UnbrokenRest
    <3>2. CASE peer'[v] = peer[v]
      <4>1. Still(peer[v], peer'[v])
        BY <3>2 DEF Still
      <4>2. QED
        BY <1>1, <1>2, <2>1, <3>2, <4>1, ContinuesAside, UnbrokenStill
    <3>3. QED
      BY <2>1, <3>1, <3>2
  <2>3. QED
    BY <2>2 DEF Pictures
<1>9. ASSUME NEW v \in Viewers, ViewerSteps(v)
      PROVE  Pictures'
  <2>1. UNCHANGED <<conn, generation, recovering, source>>
    BY <1>9, ViewerAside DEF feed, bridge
  <2>2. \A n \in Nat : Continues(n) => Continues(n)'
    BY <2>1, ContinuesAside
  <2>3. /\ \A w \in Viewers \ {v} : peer'[w] = peer[w]
        /\ Effect(peer[v], peer'[v])
    BY <1>1, <1>9, ViewerEffect
  <2>4. ASSUME NEW w \in Viewers, Still(peer[w], peer'[w])
        PROVE  Unbroken(peer[w])'
    BY <1>1, <1>2, <2>1, <2>2, <2>4, UnbrokenStill DEF Still
  <2>5. Unbroken(peer[v])'
    <3>1. CASE Still(peer[v], peer'[v])
      BY <2>4, <3>1
    <3>2. CASE AtRest(peer'[v])
      BY <3>2, UnbrokenRest
    <3>3. CASE Takes(peer[v], peer'[v])
      BY <1>1, <1>2, <2>1, <2>2, <3>3, UnbrokenTakes
    <3>4. CASE Skips(peer[v], peer'[v])
      BY <1>1, <1>2, <2>1, <2>2, <3>4, UnbrokenSkips
    <3>5. CASE Writes(peer[v], peer'[v])
      BY <1>1, <1>2, <2>1, <2>2, <3>5, UnbrokenWrites
    <3>6. QED
      BY <2>3, <3>1, <3>2, <3>3, <3>4, <3>5 DEF Effect
  <2>6. ASSUME NEW w \in Viewers PROVE Unbroken(peer[w])'
    <3>1. CASE w = v
      BY <2>5, <3>1
    <3>2. CASE w # v
      <4>1. Still(peer[w], peer'[w])
        BY <2>3, <3>2 DEF Still
      <4>2. QED
        BY <2>4, <4>1
    <3>3. QED
      BY <3>1, <3>2
  <2>7. QED
    BY <2>6 DEF Pictures
<1>10. CASE UNCHANGED vars
  BY <1>3, <1>10, ContinuesAside DEF vars, feed, bridge, peers
<1>11. QED
  BY <1>4, <1>5, <1>6, <1>7, <1>8, <1>9, <1>10 DEF Next

LEMMA PicturesInit == Init => Pictures
<1> SUFFICES ASSUME Init, NEW v \in Viewers PROVE Unbroken(peer[v])
  BY DEF Pictures
<1>1. peer = [w \in Viewers |-> Idle("new")]
  BY DEF Init
<1>2. AtRest(peer[v])
  BY <1>1, IdleIs
<1>3. DOMAIN peer[v].queue = {}
  BY <1>2 DEF AtRest
<1>4. QED
  BY <1>2, <1>3 DEF AtRest, Unbroken, Current

\* What a viewer is shown can be decoded: a key frame, or the frame after the one it was shown
\* last, of the same connection. Whatever the sockets and channels hold, a viewer that is too
\* slow is closed, and one that a capture was lost for waits for a key frame: it never misses a
\* frame unawares (broadcast, beginRecovery, the viewer's goroutine).
THEOREM NoFrameIsMissed == Spec => PictureContinues
<1> DEFINE Inv == ReaderInv /\ PeerInv /\ Origins /\ Pictures
<1>1. Init => Inv
  BY ReaderInit, PeerInit, OriginInit, PicturesInit
<1>2. Inv /\ [Next]_vars => Inv'
  BY ReaderKept, PeerKept, OriginKept, PicturesKept
<1>3. ASSUME Inv, [Next]_vars
      PROVE  \A v \in Viewers :
               LET was == peer[v].shown
                   is == peer'[v].shown
               IN is # was /\ is # Unseen =>
                    peer[v].taken.key \/ (is.of = was.of /\ is.n = was.n + 1)
  <2> SUFFICES ASSUME NEW v \in Viewers, peer'[v].shown # peer[v].shown,
                      peer'[v].shown # Unseen
               PROVE  peer[v].taken.key \/ (peer'[v].shown.of = peer[v].shown.of
                                             /\ peer'[v].shown.n = peer[v].shown.n + 1)
    OBVIOUS
  <2>1. Writes(peer[v], peer'[v])
    BY <1>3, Showing
  <2>2. Current(peer[v].taken)
    BY <2>1 DEF Writes, Leaves, Lost, Current
  <2>3. Follows(peer[v].taken, peer[v].shown)
    BY <1>3, <2>2 DEF Pictures, Unbroken
  <2>4. QED
    BY <2>1, <2>3 DEF Follows, Writes
<1> HIDE DEF Inv
<1>4. QED
  BY <1>1, <1>2, <1>3, PTL DEF Spec, PictureContinues
=============================================================================
