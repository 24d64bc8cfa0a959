-------------------------- MODULE InputBridgeProofs --------------------------
(* Proofs about InputBridge, for any number of browsers, acquires, events and   *)
(* recoveries and any capacity of the queue.                                    *)
EXTENDS InputBridge, TLAPS, FiniteSetTheorems

-----------------------------------------------------------------------------
(* The invariant for the types: what is made is bounded by what was asked for. *)

Acquires(s) == {i \in DOMAIN s : s[i].type = "acquire"}

Counted ==
    /\ nonces + Cardinality(Acquires(queue)) <= asks
    /\ grants + Cardinality(Acquires(req)) <= nonces
    /\ paused = "set" => epoch < MaxPauses

IsRequest(m) ==
    /\ m.type \in {"acquire", "event", "release"}
    /\ m.type = "event" => m.seq <= MaxEvents

\* A browser numbers its events from 1 to MaxEvents, and the release comes after them.
Numbered ==
    /\ \A c \in Clients : mine[c].seq <= MaxEvents
    /\ \A i \in DOMAIN queue : queue[i].seq <= MaxEvents
    /\ sequence <= MaxEvents
    /\ \A i \in DOMAIN req : IsRequest(req[i])
    /\ \A i \in DOMAIN rep : rep[i].type = "ready" => rep[i].seq = 0

LEMMA AppendType ==
    ASSUME NEW T, NEW s \in Seq(T), NEW x \in T
    PROVE  /\ Append(s, x) \in Seq(T) /\ Len(Append(s, x)) = Len(s) + 1
           /\ DOMAIN Append(s, x) = 1..Len(s) + 1 /\ DOMAIN s = 1..Len(s)
           /\ \A i \in 1..Len(s) : Append(s, x)[i] = s[i]
           /\ Append(s, x)[Len(s) + 1] = x
OBVIOUS

LEMMA TailType ==
    ASSUME NEW T, NEW s \in Seq(T), s # <<>>
    PROVE  /\ Tail(s) \in Seq(T) /\ Head(s) \in T /\ Head(s) = s[1]
           /\ Len(s) \in Nat \ {0} /\ Len(Tail(s)) = Len(s) - 1
           /\ DOMAIN Tail(s) = 1..Len(s) - 1 /\ DOMAIN s = 1..Len(s)
           /\ \A i \in 1..Len(s) - 1 : Tail(s)[i] = s[i + 1]
OBVIOUS

LEMMA FewAcquires ==
    ASSUME NEW T, NEW s \in Seq(T)
    PROVE  IsFiniteSet(Acquires(s)) /\ Cardinality(Acquires(s)) \in Nat
<1>1. Acquires(s) \in SUBSET (1..Len(s)) /\ 1 \in Int /\ Len(s) \in Int
  BY DEF Acquires
<1>2. IsFiniteSet(1..Len(s))
  BY <1>1, FS_Interval
<1>3. IsFiniteSet(Acquires(s))
  BY <1>1, <1>2, FS_Subset
<1>4. QED
  BY <1>3, FS_CardinalityType

LEMMA OneMoreAcquire ==
    ASSUME NEW T, NEW s \in Seq(T), NEW x \in T
    PROVE  Cardinality(Acquires(Append(s, x)))
             = Cardinality(Acquires(s)) + IF x.type = "acquire" THEN 1 ELSE 0
<1>1. IsFiniteSet(Acquires(s)) /\ Cardinality(Acquires(s)) \in Nat
  BY FewAcquires
<1>2. CASE x.type = "acquire"
  <2>1. Acquires(Append(s, x)) = Acquires(s) \cup {Len(s) + 1}
    BY <1>2, AppendType DEF Acquires
  <2>2. Len(s) + 1 \notin Acquires(s)
    BY DEF Acquires
  <2>3. QED
    BY <1>1, <1>2, <2>1, <2>2, FS_AddElement
<1>3. CASE x.type # "acquire"
  <2>1. Acquires(Append(s, x)) = Acquires(s)
    BY <1>3, AppendType DEF Acquires
  <2>2. QED
    BY <1>1, <1>3, <2>1
<1>4. QED
  BY <1>2, <1>3

LEMMA OneAcquireFewer ==
    ASSUME NEW T, NEW s \in Seq(T), s # <<>>
    PROVE  Cardinality(Acquires(Tail(s)))
             = Cardinality(Acquires(s)) - IF Head(s).type = "acquire" THEN 1 ELSE 0
<1> DEFINE A == Acquires(s) \ {1}
           B == Acquires(Tail(s))
           f == [i \in A |-> i - 1]
<1>1. IsFiniteSet(Acquires(s)) /\ Cardinality(Acquires(s)) \in Nat
  BY FewAcquires
<1>2. IsFiniteSet(A) /\ Cardinality(A) = Cardinality(Acquires(s))
                                          - IF Head(s).type = "acquire" THEN 1 ELSE 0
  <2>1. 1 \in Acquires(s) <=> Head(s).type = "acquire"
    BY TailType DEF Acquires
  <2>2. /\ IsFiniteSet(A)
        /\ Cardinality(A) = IF 1 \in Acquires(s) THEN Cardinality(Acquires(s)) - 1
                            ELSE Cardinality(Acquires(s))
    BY <1>1, FS_RemoveElement
  <2>3. QED
    BY <1>1, <2>1, <2>2
<1>3. ExistsBijection(A, B)
  <2>1. \A i \in A : i \in 2..Len(s) /\ s[i].type = "acquire"
    BY TailType DEF Acquires
  <2>2. \A i \in A : f[i] \in B
    <3> SUFFICES ASSUME NEW i \in A PROVE i - 1 \in B
      OBVIOUS
    <3>1. i \in 2..Len(s) /\ s[i].type = "acquire"
      BY <2>1
    <3>2. i - 1 \in 1..Len(s) - 1 /\ Tail(s)[i - 1] = s[i]
      BY <3>1, TailType
    <3>3. QED
      BY <3>1, <3>2, TailType DEF Acquires
  <2>3. \A i, j \in A : f[i] = f[j] => i = j
    BY <2>1
  <2>4. \A k \in B : \E i \in A : f[i] = k
    <3> SUFFICES ASSUME NEW k \in B PROVE \E i \in A : f[i] = k
      OBVIOUS
    <3>1. k \in 1..Len(s) - 1 /\ s[k + 1].type = "acquire"
      BY TailType DEF Acquires
    <3>2. k + 1 \in A /\ (k + 1) - 1 = k
      BY <3>1, TailType DEF Acquires
    <3>3. QED
      BY <3>2
  <2>5. f \in [A -> B]
    BY <2>2
  <2>6. f \in Bijection(A, B)
    BY <2>3, <2>4, <2>5 DEF Bijection, Injection, Surjection, IsInjective
  <2>7. QED
    BY <2>6 DEF ExistsBijection
<1>4. Cardinality(B) = Cardinality(A)
  BY <1>2, <1>3, FS_Bijection
<1>5. QED
  BY <1>2, <1>4

LEMMA MessageType ==
    ASSUME NEW t \in {"acquire", "event", "release", "ready", "unavailable", "ack", "released"},
           NEW g \in Grants, NEW n \in Numbers \cup Grants
    PROVE  Message(t, g, n) \in Messages
BY DEF Message, Messages

LEMMA Zeros == 0 \in Grants /\ 0 \in Numbers /\ Unavailable \in Messages
BY BridgeAssumption DEF Grants, Numbers, Message, Messages, Unavailable

LEMMA ToldType ==
    ASSUME TypeOK, NEW c \in Clients \cup {None}, NEW m \in Messages
    PROVE  Told(c, m) \in [Clients -> Seq(Messages)]
<1>1. \A d \in Clients : Append(down[d], m) \in Seq(Messages)
  BY AppendType DEF TypeOK
<1>2. QED
  BY <1>1 DEF TypeOK, Told

\* run releases for a reason.
Reasoned == run = "release" <=> then # "none"

Typed == TypeOK /\ Counted /\ Numbered /\ Reasoned

LEMMA TypedAtFirst == Init => Typed
<1> SUFFICES ASSUME Init PROVE Typed
  OBVIOUS
<1>1. /\ 0 \in Numbers /\ 1 \in Numbers /\ 0 \in Grants /\ 0 \in 0..MaxPauses
      /\ 0 <= MaxQueue /\ 0 <= MaxEvents
  BY BridgeAssumption DEF Grants, Numbers
<1>2. queue \in Seq(Command) /\ Len(queue) = 0 /\ DOMAIN queue = {}
  BY DEF Init
<1>3. req \in Seq(Messages) /\ DOMAIN req = {} /\ rep \in Seq(Messages) /\ DOMAIN rep = {}
  BY DEF Init
<1>4. down \in [Clients -> Seq(Messages)]
  BY DEF Init
<1>5. mine \in [Clients -> [gen : Grants, seq : Numbers]]
      /\ \A c \in Clients : mine[c].seq <= MaxEvents
  BY <1>1 DEF Init
<1>6. TypeOK
  BY <1>1, <1>2, <1>3, <1>4, <1>5 DEF Init, TypeOK
<1>7. Acquires(queue) = {} /\ Acquires(req) = {}
  BY <1>2, <1>3 DEF Acquires
<1>8. Cardinality(Acquires(queue)) = 0 /\ Cardinality(Acquires(req)) = 0
  BY <1>7, FS_EmptySet
<1>9. Counted
  BY <1>8 DEF Init, Counted
<1>10. Numbered
  BY <1>1, <1>2, <1>3, <1>5 DEF Init, Numbered
<1>11. Reasoned
  BY DEF Init, Reasoned
<1>12. QED
  BY <1>6, <1>9, <1>10, <1>11 DEF Typed

\* What a browser submits is queued at most.
LEMMA SubmitType ==
    ASSUME Typed, NEW c \in Clients, NEW type \in {"acquire", "event", "release"},
           NEW gen \in Grants, NEW seq \in 0..MaxEvents, Submit(c, type, gen, seq)
    PROVE  /\ queue' \in Seq(Command) /\ Len(queue') <= MaxQueue
           /\ down' \in [Clients -> Seq(Messages)] /\ gone' \in SUBSET Clients
           /\ \A i \in DOMAIN queue' : queue'[i].seq <= MaxEvents
           /\ Cardinality(Acquires(queue'))
                <= Cardinality(Acquires(queue)) + IF type = "acquire" THEN 1 ELSE 0
<1> USE DEF Typed, TypeOK
<1> DEFINE cmd == [client |-> c, type |-> type, gen |-> gen, seq |-> seq, epoch |-> epoch]
<1>1. cmd \in Command /\ cmd.type = type /\ cmd.seq = seq
  BY BridgeAssumption DEF Command, Numbers
<1>2. Told(c, Unavailable) \in [Clients -> Seq(Messages)]
  BY ToldType, Zeros
<1>3. Cardinality(Acquires(queue)) \in Nat
  BY FewAcquires
<1>4. CASE queue' = Append(queue, cmd) /\ Len(queue) < MaxQueue /\ UNCHANGED <<down, gone>>
  <2>1. \A i \in DOMAIN queue' : queue'[i].seq <= MaxEvents
    BY <1>1, <1>4, AppendType DEF Numbered
  <2>2. queue' \in Seq(Command) /\ Len(queue') <= MaxQueue
    BY <1>1, <1>4, AppendType, BridgeAssumption
  <2>3. Cardinality(Acquires(queue'))
          = Cardinality(Acquires(queue)) + IF type = "acquire" THEN 1 ELSE 0
    BY <1>1, <1>4, OneMoreAcquire
  <2>4. QED
    BY <1>3, <1>4, <2>1, <2>2, <2>3
<1>5. CASE UNCHANGED queue /\ down' \in {down, Told(c, Unavailable)}
           /\ gone' \in {gone, gone \cup {c}}
  BY <1>2, <1>3, <1>5 DEF Numbered
<1>6. QED
  BY <1>4, <1>5 DEF Submit

LEMMA BrowseType ==
    ASSUME Typed, NEW c \in Clients, Browse(c)
    PROVE  Typed'
<1> USE DEF Typed
<1> DEFINE Queued(q) == /\ q \in Seq(Command) /\ Len(q) <= MaxQueue
                        /\ \A i \in DOMAIN q : q[i].seq <= MaxEvents
           Mine(m) == /\ m \in [Clients -> [gen : Grants, seq : Numbers]]
                      /\ \A d \in Clients : m[d].seq <= MaxEvents
           More == Cardinality(Acquires(queue'))
<1>1. /\ Cardinality(Acquires(queue)) \in Nat /\ nonces \in Nat /\ asks \in Nat
      /\ nonces + Cardinality(Acquires(queue)) <= asks
  BY FewAcquires, BridgeAssumption DEF TypeOK, Counted, Grants
<1>2. Queued(queue) /\ Mine(mine)
  BY DEF TypeOK, Numbered
<1>3. ASSUME NEW e \in 0..MaxEvents, NEW g \in Grants
      PROVE  Mine([mine EXCEPT ![c] = [gen |-> g, seq |-> e]])
  <2>1. e \in Numbers /\ e <= MaxEvents
    BY BridgeAssumption DEF Numbers
  <2>2. QED
    BY <1>2, <2>1
<1>4. Cleared(c) => Mine(mine') /\ flight' \in SUBSET Clients
  <2>1. mine[c] \in [gen : Grants, seq : Numbers] /\ mine[c].seq \in 0..MaxEvents
    BY <1>2, BridgeAssumption DEF Numbers
  <2>2. Cleared(c) => mine' = [mine EXCEPT ![c] = [gen |-> 0, seq |-> mine[c].seq]]
    BY <1>2, <2>1 DEF Cleared
  <2>3. Cleared(c) => flight' \in SUBSET Clients
    BY DEF Cleared, TypeOK
  <2>4. QED
    BY <1>3, <2>1, <2>2, <2>3, Zeros
<1>5. CASE Acquire(c)
  <2>1. Submit(c, "acquire", 0, 0) /\ asks' = asks + 1 /\ asks < MaxAsks
    BY <1>5 DEF Acquire
  <2>2. /\ Queued(queue')
        /\ down' \in [Clients -> Seq(Messages)] /\ gone' \in SUBSET Clients
        /\ More <= Cardinality(Acquires(queue)) + 1
    BY <2>1, SubmitType, Zeros, BridgeAssumption
  <2>3. More \in Nat
    BY <2>2, FewAcquires
  <2>4. asks' \in Grants
    BY <1>1, <2>1, BridgeAssumption DEF Grants
  <2>5. nonces + More <= asks'
    BY <1>1, <2>1, <2>2, <2>3
  <2>6. QED
    BY <1>5, <2>2, <2>4, <2>5
    DEF Acquire, To, TypeOK, Counted, Numbered, Reasoned, bridge, fields, capture, daemon
<1>6. CASE SendEvent(c)
  <2>1. Submit(c, "event", mine[c].gen, mine[c].seq + 1) /\ mine[c].seq < MaxEvents
        /\ mine' = [mine EXCEPT ![c].seq = mine[c].seq + 1] /\ asks' = asks /\ nonces' = nonces
    BY <1>6 DEF SendEvent
  <2>2. mine[c].seq + 1 \in 0..MaxEvents /\ mine[c].gen \in Grants
    BY <1>2, <2>1, BridgeAssumption DEF Numbers
  <2>3. /\ Queued(queue')
        /\ down' \in [Clients -> Seq(Messages)] /\ gone' \in SUBSET Clients
        /\ More <= Cardinality(Acquires(queue)) + 0
    BY <2>1, <2>2, SubmitType
  <2>4. More \in Nat
    BY <2>3, FewAcquires
  <2>5. mine' = [mine EXCEPT ![c] = [gen |-> mine[c].gen, seq |-> mine[c].seq + 1]]
    <3>1. mine[c] \in [gen : Grants, seq : Numbers]
      BY <1>2
    <3>2. [mine[c] EXCEPT !.seq = mine[c].seq + 1]
            = [gen |-> mine[c].gen, seq |-> mine[c].seq + 1]
      BY <3>1
    <3>3. QED
      BY <2>1, <3>2, Zenon
  <2>6. Mine(mine')
    BY <1>3, <2>2, <2>5
  <2>7. nonces' + More <= asks'
    BY <1>1, <2>1, <2>3, <2>4
  <2>8. QED
    BY <1>6, <2>3, <2>6, <2>7
    DEF SendEvent, TypeOK, Counted, Numbered, Reasoned, bridge, fields, capture, daemon
<1>7. CASE Release(c)
  <2>1. Submit(c, "release", 0, 0) /\ asks' = asks /\ nonces' = nonces
    BY <1>7 DEF Release
  <2>2. /\ Queued(queue')
        /\ down' \in [Clients -> Seq(Messages)] /\ gone' \in SUBSET Clients
        /\ More <= Cardinality(Acquires(queue)) + 0
    BY <2>1, SubmitType, Zeros, BridgeAssumption
  <2>3. More \in Nat
    BY <2>2, FewAcquires
  <2>4. nonces' + More <= asks'
    BY <1>1, <2>1, <2>2, <2>3
  <2>5. QED
    BY <1>4, <1>7, <2>2, <2>4
    DEF Release, To, TypeOK, Counted, Numbered, Reasoned, bridge, fields, capture, daemon
<1>8. CASE Fail(c)
  BY <1>4, <1>8
  DEF Fail, To, TypeOK, Counted, Numbered, Reasoned, bridge, fields, capture, daemon
<1>9. CASE ChannelClosed(c)
  BY <1>9
  DEF ChannelClosed, TypeOK, Counted, Numbered, Reasoned, browsers, bridge, fields, capture,
      daemon
<1>10. CASE Receive(c)
  <2>1. down[c] \in Seq(Messages) /\ down[c] # <<>>
    BY <1>10 DEF Receive, TypeOK
  <2>2. Head(down[c]) \in Messages /\ Tail(down[c]) \in Seq(Messages)
    BY <2>1, TailType
  <2>3. down' \in [Clients -> Seq(Messages)]
    BY <1>10, <2>2 DEF Receive, TypeOK
  <2>4. state' \in [Clients -> {"idle", "acquiring", "controlling", "releasing", "unavailable",
                                "closed"}]
    BY <1>10 DEF Receive, To, TypeOK
  <2>5. mine' = [mine EXCEPT ![c] = [gen |-> Head(down[c]).gen, seq |-> 0]] => Mine(mine')
    <3>1. Head(down[c]).gen \in Grants /\ 0 \in 0..MaxEvents
      BY <2>2, BridgeAssumption DEF Messages
    <3>2. QED
      BY <1>3, <3>1
  <2>6. Mine(mine') /\ flight' \in SUBSET Clients
    BY <1>2, <1>4, <1>10, <2>5 DEF Receive, TypeOK
  <2>7. QED
    BY <1>10, <2>3, <2>4, <2>6
    DEF Receive, TypeOK, Counted, Numbered, Reasoned, bridge, fields, capture, daemon
<1>11. QED
  BY <1>5, <1>6, <1>7, <1>8, <1>9, <1>10 DEF Browse

\* What run takes from its queue, and what it leaves there.
LEMMA TakenType ==
    ASSUME Typed, NEW cmd, Handle(cmd)
    PROVE  /\ cmd \in Command /\ cmd.seq <= MaxEvents
           /\ queue' \in Seq(Command) /\ Len(queue') <= MaxQueue
           /\ \A i \in DOMAIN queue' : queue'[i].seq <= MaxEvents
           /\ Cardinality(Acquires(queue')) \in Nat
           /\ Cardinality(Acquires(queue'))
                = Cardinality(Acquires(queue)) - IF cmd.type = "acquire" THEN 1 ELSE 0
<1> USE DEF Typed, TypeOK, Handle
<1>1. queue \in Seq(Command) /\ queue # <<>> /\ cmd = Head(queue) /\ queue' = Tail(queue)
  OBVIOUS
<1>2. Len(queue) \in Nat /\ Len(queue') = Len(queue) - 1 /\ queue' \in Seq(Command)
  BY <1>1, TailType
<1>3. cmd \in Command /\ cmd.seq <= MaxEvents
  BY <1>1, TailType DEF Numbered
<1>4. \A i \in DOMAIN queue' : queue'[i].seq <= MaxEvents
  BY <1>1, TailType DEF Numbered
<1>5. Cardinality(Acquires(queue')) \in Nat
  BY <1>2, FewAcquires
<1>6. Cardinality(Acquires(queue'))
        = Cardinality(Acquires(queue)) - IF cmd.type = "acquire" THEN 1 ELSE 0
  BY <1>1, OneAcquireFewer
<1>7. Len(queue') <= MaxQueue
  BY <1>2, BridgeAssumption
<1>8. QED
  BY <1>2, <1>3, <1>4, <1>5, <1>6, <1>7

\* A request more, which is no acquire.
LEMMA SentType ==
    ASSUME Typed, NEW t \in {"event", "release"}, NEW g \in Grants, NEW n \in Numbers,
           t = "event" => n <= MaxEvents,
           req' = Append(req, Message(t, g, n))
    PROVE  /\ req' \in Seq(Messages)
           /\ \A i \in DOMAIN req' : IsRequest(req'[i])
           /\ Cardinality(Acquires(req')) = Cardinality(Acquires(req))
<1> DEFINE m == Message(t, g, n)
<1>1. m \in Messages /\ m.type = t /\ IsRequest(m)
  BY MessageType DEF Message, IsRequest
<1>2. req \in Seq(Messages)
  BY DEF Typed, TypeOK
<1> HIDE DEF m
<1>3. req' = Append(req, m)
  BY DEF m
<1>4. Cardinality(Acquires(req')) = Cardinality(Acquires(req)) + 0
  BY <1>1, <1>2, <1>3, OneMoreAcquire
<1>5. \A i \in DOMAIN req' : IsRequest(req'[i])
  BY <1>1, <1>2, <1>3, AppendType DEF Typed, Numbered
<1>6. Cardinality(Acquires(req)) \in Nat
  BY <1>2, FewAcquires
<1>7. QED
  BY <1>1, <1>2, <1>3, <1>4, <1>5, <1>6, AppendType

\* What is left of the replies when one has been taken.
LEMMA HeardType ==
    ASSUME Typed, rep # <<>>
    PROVE  /\ Head(rep) \in Messages /\ Tail(rep) \in Seq(Messages)
           /\ \A i \in DOMAIN Tail(rep) : Tail(rep)[i].type = "ready" => Tail(rep)[i].seq = 0
BY TailType DEF Typed, TypeOK, Numbered

\* A reply more.
LEMMA SaidType ==
    ASSUME Typed, NEW m \in Messages, m.type = "ready" => m.seq = 0, Says(m)
    PROVE  /\ rep' \in Seq(Messages)
           /\ \A i \in DOMAIN rep' : rep'[i].type = "ready" => rep'[i].seq = 0
<1>1. rep \in Seq(Messages) /\ \A i \in DOMAIN rep : rep[i].type = "ready" => rep[i].seq = 0
  BY DEF Typed, TypeOK, Numbered
<1>2. CASE rep' = rep
  BY <1>1, <1>2
<1>3. CASE rep' = Append(rep, m)
  BY <1>1, <1>3, AppendType
<1>4. QED
  BY <1>2, <1>3 DEF Says

\* What the fields are after clear.
LEMMA ClearType ==
    ASSUME Clear
    PROVE  /\ owner' \in Clients \cup {None} /\ generation' \in Grants
           /\ sequence' \in Numbers /\ sequence' <= MaxEvents /\ under' \in 0..MaxPauses
           /\ overdue' \in BOOLEAN
<1>1. overdue' \in BOOLEAN
  BY Zenon DEF Clear
<1>2. QED
  BY <1>1, Zeros, BridgeAssumption DEF Clear

LEMMA HandleType ==
    ASSUME Typed, NEW cmd,
           \/ Drop(cmd) \/ HandleLocally(cmd) \/ HandleAcquire(cmd)
           \/ HandleEvent(cmd) \/ HandleRelease(cmd)
    PROVE  Typed'
<1> USE DEF Typed
<1>1. Handle(cmd)
  BY DEF Drop, HandleLocally, HandleAcquire, HandleEvent, HandleRelease
<1> DEFINE Queued == /\ queue' \in Seq(Command) /\ Len(queue') <= MaxQueue
                     /\ \A i \in DOMAIN queue' : queue'[i].seq <= MaxEvents
           Sent == /\ req' \in Seq(Messages)
                   /\ \A i \in DOMAIN req' : IsRequest(req'[i])
           Fewer == Cardinality(Acquires(queue'))
           More == Cardinality(Acquires(req'))
<1>2. /\ cmd \in Command /\ cmd.seq <= MaxEvents /\ Queued /\ Fewer \in Nat
      /\ Fewer = Cardinality(Acquires(queue)) - IF cmd.type = "acquire" THEN 1 ELSE 0
  BY <1>1, TakenType
<1>3. /\ nonces \in Nat /\ asks \in Nat /\ asks <= MaxAsks /\ grants \in Nat
      /\ Cardinality(Acquires(queue)) \in Nat /\ Cardinality(Acquires(req)) \in Nat
      /\ nonces + Cardinality(Acquires(queue)) <= asks
      /\ grants + Cardinality(Acquires(req)) <= nonces
  BY FewAcquires, BridgeAssumption DEF TypeOK, Counted, Grants
<1>4. nonces + Fewer <= asks
  BY <1>2, <1>3
<1>5. cmd.client \in Clients /\ cmd.client \in Clients \cup {None} /\ cmd.epoch \in 0..MaxPauses
      /\ cmd.seq \in Numbers /\ cmd.gen \in Grants
  BY <1>2 DEF Command
<1>6. CASE Drop(cmd)
  BY <1>2, <1>4, <1>5, <1>6
  DEF Drop, Handle, Loop, TypeOK, Counted, Numbered, Reasoned, browsers, held, capture, daemon
<1>7. CASE HandleLocally(cmd)
  <2>1. Message("released", 0, 0) \in Messages
    BY Zeros, MessageType
  <2>2. down' \in [Clients -> Seq(Messages)]
    BY <1>5, <1>7, <2>1, ToldType, Zeros DEF HandleLocally
  <2>3. QED
    BY <1>2, <1>4, <1>7, <2>2
    DEF HandleLocally, Handle, Loop, TypeOK, Counted, Numbered, Reasoned, browsers, held,
        capture, daemon
<1>8. CASE HandleAcquire(cmd)
  <2>1. cmd.type = "acquire" /\ nonces' = nonces + 1 /\ asks' = asks /\ grants' = grants
        /\ req' = Append(req, Message("acquire", 0, nonces'))
    BY <1>8 DEF HandleAcquire, Handle, browsers, daemon
  <2>2. Fewer = Cardinality(Acquires(queue)) - 1
    BY <1>2, <2>1
  <2>3. nonces' + Fewer <= asks' /\ nonces' \in Grants
    BY <1>2, <1>3, <2>1, <2>2, BridgeAssumption DEF Grants
  <2>4. Message("acquire", 0, nonces') \in Messages
        /\ Message("acquire", 0, nonces').type = "acquire"
        /\ IsRequest(Message("acquire", 0, nonces'))
    BY <2>3, MessageType, Zeros DEF Message, IsRequest
  <2>5. req \in Seq(Messages)
    BY DEF TypeOK
  <2>6. More = Cardinality(Acquires(req)) + 1
    BY <2>1, <2>4, <2>5, OneMoreAcquire
  <2>7. grants' + More <= nonces'
    BY <1>3, <2>1, <2>6
  <2>8. Sent
    BY <2>1, <2>4, <2>5, AppendType DEF Numbered
  <2>9. QED
    BY <1>2, <1>5, <1>8, <2>1, <2>3, <2>7, <2>8
    DEF HandleAcquire, Handle, Waits, TypeOK, Counted, Numbered, Reasoned, browsers, capture,
        daemon
<1>9. CASE HandleEvent(cmd)
  <2>1. req' = req \/ req' = Append(req, Message("event", cmd.gen, cmd.seq))
    BY <1>9 DEF HandleEvent
  <2>2. Sent /\ More = Cardinality(Acquires(req))
    BY <1>2, <1>5, <2>1, SentType DEF TypeOK, Numbered
  <2>3. sequence' \in Numbers /\ sequence' <= MaxEvents /\ gone' \in SUBSET Clients
    BY <1>2, <1>5, <1>9 DEF HandleEvent, TypeOK, Numbered
  <2>4. QED
    BY <1>2, <1>4, <1>9, <2>2, <2>3
    DEF HandleEvent, Handle, Waits, Loop, TypeOK, Counted, Numbered, Reasoned, browsers,
        capture, daemon
<1>10. CASE HandleRelease(cmd)
  <2>1. sequence + 1 \in Numbers /\ generation \in Grants
    BY BridgeAssumption DEF TypeOK, Numbered, Numbers
  <2>2. req' = Append(req, Message("release", generation, sequence + 1))
    BY <1>10 DEF HandleRelease, SendRelease
  <2>3. Sent /\ More = Cardinality(Acquires(req))
    BY <2>1, <2>2, SentType
  <2>4. QED
    BY <1>2, <1>4, <1>10, <2>3
    DEF HandleRelease, SendRelease, Handle, TypeOK, Counted, Numbered, Reasoned, browsers,
        held, capture, daemon
<1>11. QED
  BY <1>6, <1>7, <1>8, <1>9, <1>10

LEMMA AwaitType ==
    ASSUME Typed, rep # <<>>, NEW m, m = Head(rep),
           AwaitAcquire(m) \/ AwaitAck(m) \/ AwaitRelease(m)
    PROVE  Typed'
<1> USE DEF Typed
<1> DEFINE Sent == /\ req' \in Seq(Messages)
                   /\ \A i \in DOMAIN req' : IsRequest(req'[i])
                   /\ Cardinality(Acquires(req')) = Cardinality(Acquires(req))
           Fields == /\ owner' \in Clients \cup {None} /\ generation' \in Grants
                     /\ sequence' \in Numbers /\ sequence' <= MaxEvents /\ under' \in 0..MaxPauses
                     /\ overdue' \in BOOLEAN
           Down == down' \in [Clients -> Seq(Messages)]
<1>1. /\ m \in Messages /\ rep' = Tail(rep) /\ rep' \in Seq(Messages)
      /\ \A i \in DOMAIN rep' : rep'[i].type = "ready" => rep'[i].seq = 0
  BY HeardType DEF AwaitAcquire, AwaitAck, AwaitRelease, Hears
<1>2. req' = req => Sent
  BY DEF TypeOK, Numbered
<1>3. UNCHANGED fields => Fields
  BY DEF fields, TypeOK, Numbered
<1>4. Told(owner, Unavailable) \in [Clients -> Seq(Messages)]
      /\ Told(owner, m) \in [Clients -> Seq(Messages)]
  BY <1>1, ToldType, Zeros DEF TypeOK
<1>5. m.gen \in Grants
  BY <1>1 DEF Messages
<1>6. CASE AwaitAcquire(m)
  <2>1. Message("release", m.gen, 0 + 1) \in Messages /\ 0 + 1 \in Numbers
    BY <1>5, MessageType, BridgeAssumption DEF Numbers
  <2>2. req' = req \/ req' = Append(req, Message("release", m.gen, 0 + 1))
    BY <1>6 DEF AwaitAcquire, SendRelease
  <2>3. Sent
    BY <1>2, <1>5, <2>1, <2>2, SentType
  <2>4. Fields
    BY <1>3, <1>5, <1>6, ClearType, Zeros, BridgeAssumption
    DEF AwaitAcquire, fields, TypeOK, Numbered
  <2>5. Down
    BY <1>4, <1>6 DEF AwaitAcquire, TypeOK
  <2>6. QED
    BY <1>1, <1>6, <2>3, <2>4, <2>5
    DEF AwaitAcquire, Hears, Loop, SendRelease, TypeOK, Counted, Numbered, Reasoned, browsers,
        capture,
        daemon
<1>7. CASE AwaitAck(m)
  <2>1. Fields /\ Down
    BY <1>3, <1>4, <1>7, ClearType DEF AwaitAck
  <2>2. QED
    BY <1>1, <1>7, <2>1
    DEF AwaitAck, Hears, Loop, TypeOK, Counted, Numbered, Reasoned, browsers, capture, daemon
<1>8. CASE AwaitRelease(m)
  <2>1. Fields
    BY <1>8, ClearType DEF AwaitRelease
  <2>2. cur.client \in Clients \cup {None}
    BY DEF TypeOK, Command, NoCommand
  <2>3. Message("released", 0, 0) \in Messages
    BY Zeros, MessageType
  <2>4. /\ Told(cur.client, Message("released", 0, 0)) \in [Clients -> Seq(Messages)]
        /\ Told(cur.client, Unavailable) \in [Clients -> Seq(Messages)]
    BY <2>2, <2>3, ToldType, Zeros
  <2>5. then # "none" => Down
    BY <1>4, <1>8, <2>4 DEF AwaitRelease, Afterwards, TypeOK
  <2>6. then # "none"
    BY <1>8 DEF AwaitRelease, Hears, Reasoned
  <2>7. QED
    BY <1>1, <1>8, <2>1, <2>5, <2>6
    DEF AwaitRelease, Hears, Loop, TypeOK, Counted, Numbered, Reasoned, browsers, capture, daemon
<1>9. QED
  BY <1>6, <1>7, <1>8

LEMMA LoopType ==
    ASSUME Typed, Top \/ Turn \/ Expired \/ Stop
    PROVE  Typed'
<1> USE DEF Typed
<1>1. /\ req \in Seq(Messages)
      /\ \A i \in DOMAIN req : IsRequest(req[i])
  BY DEF TypeOK, Numbered
<1>2. Told(owner, Unavailable) \in [Clients -> Seq(Messages)]
  BY ToldType, Zeros DEF TypeOK
<1>3. CASE Top
  <2>1. sequence + 1 \in Numbers /\ generation \in Grants
    BY BridgeAssumption DEF TypeOK, Numbered, Numbers
  <2>2. req' = req \/ req' = Append(req, Message("release", generation, sequence + 1))
    BY <1>3 DEF Top, SendRelease
  <2>3. /\ req' \in Seq(Messages)
        /\ \A i \in DOMAIN req' : IsRequest(req'[i])
        /\ Cardinality(Acquires(req')) = Cardinality(Acquires(req))
    BY <1>1, <2>1, <2>2, SentType
  <2>4. QED
    BY <1>3, <2>3
    DEF Top, SendRelease, Loop, TypeOK, Counted, Numbered, Reasoned, browsers, fields, capture,
        daemon
<1>4. CASE Turn
  BY <1>4
  DEF Turn, Loop, TypeOK, Counted, Numbered, Reasoned, browsers, held, capture, daemon
<1>5. CASE Expired
  BY <1>2, <1>5, HeardType, ClearType
  DEF Expired, Loop, TypeOK, Counted, Numbered, Reasoned, browsers, capture, daemon
<1>6. CASE Stop
  <2>1. /\ Cardinality(Acquires(queue)) \in Nat /\ nonces \in Nat /\ asks \in Nat
        /\ nonces + Cardinality(Acquires(queue)) <= asks
    BY FewAcquires, BridgeAssumption DEF TypeOK, Counted, Grants
  <2>2. queue' = <<>> /\ Acquires(<<>>) = {}
    BY <1>6 DEF Stop, End, Acquires
  <2>3. queue' \in Seq(Command) /\ Len(queue') <= MaxQueue /\ DOMAIN queue' = {}
    BY <2>2, BridgeAssumption
  <2>4. Cardinality(Acquires(queue')) = 0
    BY <2>2, FS_EmptySet
  <2>5. nonces + Cardinality(Acquires(queue')) <= asks
    BY <2>1, <2>4
  <2>6. rep' \in Seq(Messages) /\ DOMAIN rep' = {}
    BY <1>6 DEF Stop, End
  <2>7. QED
    BY <1>2, <1>6, <2>3, <2>5, <2>6, ClearType
    DEF Stop, End, TypeOK, Counted, Numbered, Reasoned, browsers, capture, daemon
<1>7. QED
  BY <1>3, <1>4, <1>5, <1>6

LEMMA RunType ==
    ASSUME Typed, Run
    PROVE  Typed'
BY HandleType, AwaitType, LoopType DEF Run, HandleNext, Await

LEMMA CaptureType ==
    ASSUME Typed, Pause \/ NextEpoch \/ Resume
    PROVE  Typed'
<1>1. epoch' \in 0..MaxPauses /\ (paused' = "set" => epoch' < MaxPauses)
  BY BridgeAssumption DEF Typed, TypeOK, Counted, Pause, NextEpoch, Resume
<1>2. paused' \in {"no", "set", "yes"}
  BY DEF Pause, NextEpoch, Resume
<1>3. QED
  BY <1>1, <1>2
  DEF Typed, TypeOK, Counted, Numbered, Reasoned, Pause, NextEpoch, Resume, browsers, bridge,
      fields, daemon

LEMMA ServeType ==
    ASSUME Typed, ServeIdle \/ ServeControl \/ Expire \/ Leave
    PROVE  Typed'
<1> USE DEF Typed
<1> DEFINE Said == /\ rep' \in Seq(Messages)
                   /\ \A i \in DOMAIN rep' : rep'[i].type = "ready" => rep'[i].seq = 0
           Left == /\ req' \in Seq(Messages)
                   /\ \A i \in DOMAIN req' : IsRequest(req'[i])
           m == Head(req)
           Fewer == Cardinality(Acquires(req'))
<1>1. /\ Cardinality(Acquires(req)) \in Nat /\ nonces \in Nat /\ grants \in Nat
      /\ nonces <= MaxAsks /\ grants + Cardinality(Acquires(req)) <= nonces
  BY FewAcquires, BridgeAssumption DEF TypeOK, Counted, Grants
<1>2. Said \/ rep' # rep
  BY DEF TypeOK, Numbered
<1>3. ASSUME req # <<>>, req' = Tail(req)
      PROVE  /\ Left /\ m \in Messages /\ IsRequest(m)
             /\ Fewer \in Nat
             /\ Fewer = Cardinality(Acquires(req)) - IF m.type = "acquire" THEN 1 ELSE 0
  <2>1. req \in Seq(Messages)
    BY DEF TypeOK
  <2>2. /\ Head(req) \in Messages /\ Tail(req) \in Seq(Messages) /\ Head(req) = req[1]
        /\ 1 \in DOMAIN req /\ \A i \in DOMAIN Tail(req) : i + 1 \in DOMAIN req
        /\ \A i \in DOMAIN Tail(req) : Tail(req)[i] = req[i + 1]
    BY <1>3, <2>1, TailType
  <2>3. Left /\ m \in Messages /\ IsRequest(m)
    BY <1>3, <2>2 DEF Numbered
  <2>4. Fewer = Cardinality(Acquires(req)) - IF m.type = "acquire" THEN 1 ELSE 0
    BY <1>3, <2>1, OneAcquireFewer
  <2>5. Fewer \in Nat
    BY <2>3, FewAcquires
  <2>6. QED
    BY <2>3, <2>4, <2>5
<1>4. 1 \in Numbers /\ 0 \in Grants
  BY Zeros, BridgeAssumption DEF Numbers
<1>5. CASE ServeIdle
  <2>1. /\ Left /\ m \in Messages /\ Fewer \in Nat /\ nonces' = nonces
        /\ Fewer = Cardinality(Acquires(req)) - IF m.type = "acquire" THEN 1 ELSE 0
    BY <1>3, <1>5 DEF ServeIdle
  <2>2. ASSUME m.type = "acquire", control' = grants + 1, grants' = grants + 1, next' = 1,
               Says(Message("ready", grants', 0))
        PROVE  /\ Said /\ control' \in Grants /\ grants' \in Grants /\ next' \in Numbers
               /\ grants' + Fewer <= nonces
    <3>1. Fewer = Cardinality(Acquires(req)) - 1
      BY <2>1, <2>2
    <3>2. grants + 1 \in Grants
      BY <1>1, <2>1, <3>1, BridgeAssumption DEF Grants
    <3>3. /\ Message("ready", grants', 0) \in Messages
          /\ Message("ready", grants', 0).seq = 0
      BY <2>2, <3>2, Zeros, MessageType DEF Message
    <3>4. Said
      BY <2>2, <3>3, SaidType
    <3>5. QED
      BY <1>1, <1>4, <2>1, <2>2, <3>1, <3>2, <3>4
  <2>3. ASSUME Says(Denied(m.seq)), m.type = "acquire" PROVE Said
    <3>1. m.seq \in Numbers \cup Grants
      BY <2>1 DEF Messages
    <3>2. Denied(m.seq) \in Messages /\ Denied(m.seq).type # "ready"
      BY <3>1, Zeros, MessageType DEF Denied, Message
    <3>3. QED
      BY <2>3, <3>2, SaidType
  <2>4. ASSUME Says(Unavailable) PROVE Said
    BY <2>4, Zeros, SaidType DEF Unavailable, Message
  <2>5. ASSUME UNCHANGED grants PROVE grants' + Fewer <= nonces
    BY <1>1, <2>1, <2>5
  <2>6. /\ Said /\ control' \in Grants /\ grants' \in Grants /\ next' \in Numbers
        /\ grants' + Fewer <= nonces
    BY <1>5, <2>2, <2>3, <2>4, <2>5 DEF ServeIdle, TypeOK
  <2>7. QED
    BY <1>5, <2>1, <2>6
    DEF ServeIdle, TypeOK, Counted, Numbered, Reasoned, browsers, bridge, fields, capture
<1>6. CASE ServeControl
  <2>1. /\ Left /\ m \in Messages /\ Fewer \in Nat /\ nonces' = nonces
        /\ IsRequest(m)
        /\ Fewer = Cardinality(Acquires(req)) - IF m.type = "acquire" THEN 1 ELSE 0
    BY <1>3, <1>6 DEF ServeControl
  <2>2. Message("ack", 0, next) \in Messages /\ Message("ack", 0, next).type # "ready"
    BY Zeros, MessageType DEF TypeOK, Message
  <2>3. Said
    BY <1>6, <2>2, SaidType DEF ServeControl
  <2>4. m.type \in {"event", "release"}
    BY <1>6, <2>1 DEF ServeControl, Accepts, IsRequest
  <2>5. control' \in Grants /\ next' \in Numbers
    BY <1>4, <1>6, <2>1, <2>4, BridgeAssumption
    DEF ServeControl, Accepts, IsRequest, TypeOK, Numbers
  <2>6. grants' + Fewer <= nonces'
    BY <1>1, <1>6, <2>1 DEF ServeControl
  <2>7. QED
    BY <1>6, <2>1, <2>3, <2>5, <2>6
    DEF ServeControl, TypeOK, Counted, Numbered, Reasoned, browsers, bridge, fields, capture
<1>7. CASE Expire
  <2>1. Said
    BY <1>7, Zeros, SaidType DEF Expire, Unavailable, Message
  <2>2. QED
    BY <1>4, <1>7, <2>1
    DEF Expire, TypeOK, Counted, Numbered, Reasoned, browsers, bridge, fields, capture
<1>8. CASE Leave
  BY <1>4, <1>8
  DEF Leave, TypeOK, Counted, Numbered, Reasoned, browsers, bridge, fields, capture
<1>9. QED
  BY <1>5, <1>6, <1>7, <1>8

LEMMA TypedAlways == Spec => []Typed
<1>1. Typed /\ [Next]_vars => Typed'
  <2> SUFFICES ASSUME Typed, [Next]_vars PROVE Typed'
    OBVIOUS
  <2>1. CASE \E c \in Clients : Browse(c)
    BY <2>1, BrowseType
  <2>2. CASE Run
    BY <2>2, RunType
  <2>3. CASE Pause \/ NextEpoch \/ Resume
    BY <2>3, CaptureType
  <2>4. CASE ServeIdle \/ ServeControl \/ Expire \/ Leave
    BY <2>4, ServeType
  <2>5. CASE UNCHANGED vars
    BY <2>5
    DEF vars, Typed, TypeOK, Counted, Numbered, Reasoned, browsers, bridge, fields, capture,
        daemon
  <2>6. QED
    BY <2>1, <2>2, <2>3, <2>4, <2>5 DEF Next
<1>2. QED
  BY <1>1, TypedAtFirst, PTL DEF Spec

\* Every field of the browsers, the bridge and the daemon keeps its type, and numbers keep
\* their bounds: no more grants than acquires, no event beyond those that were sent.
THEOREM BridgeTypeCorrect == Spec => []TypeOK
<1>1. Typed => TypeOK
  BY DEF Typed
<1>2. QED
  BY <1>1, TypedAlways, PTL

-----------------------------------------------------------------------------
(* The invariant for the socket: what is on its way, wherever run is. *)

\* What follows the first n replies when these are followed by control: nothing as long as
\* it lasts, and then the notice, unless the daemon leaves without one.
LastsFrom(n) ==
    \/ control # 0 /\ serving /\ Len(rep) = n
    \/ control = 0 /\ Len(rep) = n + 1 /\ rep[n + 1] = Unavailable
    \/ control = 0 /\ ~serving /\ Len(rep) = n

Notices(n) == \A i \in 1..n : rep[i] = Unavailable

\* Under the generation gen, of which the daemon expects n next.
Under(gen, n) == gen # 0 /\ control \in {0, gen} /\ (control # 0 => next = n)

\* Without an owner: what is left of a request that was answered by the notice.
Ownerless ==
    /\ control = 0 /\ generation = 0 /\ sequence = 0
    /\ Len(req) + Len(rep) <= 1 /\ Notices(Len(rep))
    /\ \A i \in DOMAIN req : req[i].type # "acquire"

Owned == req = <<>> /\ LastsFrom(0) /\ Under(generation, sequence + 1)

\* An acquire is not read, denied, or granted; before it comes what is left of the last owner.
AcquireUnread ==
    /\ control = 0 /\ Len(req) \in 1..2 /\ Len(req) + Len(rep) <= 2
    /\ Notices(Len(rep))
    /\ req[Len(req)] = Message("acquire", 0, nonces)
    /\ \A i \in 1..Len(req) - 1 : req[i].type # "acquire"
AcquireDenied ==
    /\ control = 0 /\ req = <<>> /\ Len(rep) \in 1..2
    /\ Notices(Len(rep) - 1) /\ rep[Len(rep)] = Denied(nonces)
AcquireGranted ==
    /\ req = <<>>
    /\ \E n \in 1..2 :
        /\ Notices(n - 1) /\ LastsFrom(n)
        /\ rep[n].type = "ready" /\ Under(rep[n].gen, 1)

\* An event or a release is not read, acknowledged, or refused after the notice.
Unread(m, n) ==
    /\ Len(req) = 1 /\ req[1] = m /\ LastsFrom(0) /\ Under(generation, n)
Refusal == req = <<>> /\ control = 0 /\ Len(rep) = 2 /\ Notices(2)
EventAcknowledged ==
    /\ req = <<>> /\ LastsFrom(1) /\ Under(generation, sequence + 1)
    /\ rep[1] = Message("ack", 0, sequence)
ReleaseAcknowledged ==
    /\ req = <<>> /\ control = 0 /\ Len(rep) = 1
    /\ rep[1] = Message("ack", 0, sequence + 1)

Dialogue ==
    /\ run \in {"top", "select"} => IF owner = None THEN Ownerless ELSE Owned
    /\ run = "acquire" =>
        /\ nonces # 0 /\ generation = 0 /\ sequence = 0
        /\ AcquireUnread \/ AcquireDenied \/ AcquireGranted
    /\ run = "event" =>
        /\ generation # 0
        /\ \/ Unread(Message("event", generation, sequence), sequence)
           \/ EventAcknowledged \/ Refusal
    /\ run = "release" =>
        /\ generation # 0
        /\ \/ Unread(Message("release", generation, sequence + 1), sequence + 1)
           \/ ReleaseAcknowledged \/ Refusal

\* Of several requests only the last can be an acquire, and under a control there is one
\* request at most, which it accepts: after the end of run, too.
InOrder ==
    /\ \A i \in DOMAIN req : req[i].type = "acquire" => i = Len(req)
    /\ control # 0 /\ req # <<>> => Len(req) = 1 /\ Accepts(req[1])
    /\ control # 0 => serving
    /\ run = "ended" => rep = <<>>

\* Whom run has in hand: the command it waits for is its owner's.
InHand ==
    /\ run \in {"acquire", "event", "release"} => owner # None
    /\ run \in {"top", "select", "ended"} => cur = NoCommand
    /\ run \in {"acquire", "event"} => cur # NoCommand
    /\ run = "release" => (cur # NoCommand <=> then \in {"asked", "late"})
    /\ run = "ended" => owner = None /\ queue = <<>>
    /\ cur # NoCommand => cur.client = owner /\ cur.client # None

SocketInv == Typed /\ Dialogue /\ InOrder /\ InHand

\* What the proofs below need of the types.
LEMMA Basics ==
    ASSUME Typed
    PROVE  /\ req \in Seq(Messages) /\ rep \in Seq(Messages)
           /\ generation \in Nat /\ sequence \in Nat /\ nonces \in Nat /\ grants \in Nat
           /\ control \in Nat /\ next \in Nat
           /\ None \notin Clients /\ owner \in Clients \cup {None}
           /\ serving \in BOOLEAN
BY BridgeAssumption DEF Typed, TypeOK, Grants, Numbers

\* A step that is none of the socket's, nor of the owner's.
LEMMA Elsewhere ==
    ASSUME Dialogue, InOrder,
           UNCHANGED <<owner, generation, sequence, nonces, req, rep, serving, control, next>>,
           run' = run \/ {run, run'} \subseteq {"top", "select"}
    PROVE  Dialogue' /\ InOrder'
BY DEF Dialogue, InOrder, Ownerless, Owned, AcquireUnread, AcquireDenied, AcquireGranted,
    Unread, Refusal, EventAcknowledged, ReleaseAcknowledged, LastsFrom, Notices, Under, Accepts

LEMMA InHandKept ==
    ASSUME Typed, InHand, Next
    PROVE  InHand'
<1> USE DEF InHand, Typed, TypeOK
<1>1. None \notin Clients /\ NoCommand.client = None /\ NoCommand \notin Command
      /\ \A cmd \in Command : cmd.client \in Clients
  BY BridgeAssumption DEF NoCommand, Command
<1>2. ASSUME NEW c \in Clients, Browse(c)
      PROVE  InHand'
  <2>1. UNCHANGED bridge /\ (run = "ended" => UNCHANGED queue)
    BY <1>2
    DEF Browse, Acquire, SendEvent, Release, Fail, ChannelClosed, Receive, Submit
  <2>2. QED
    BY <2>1 DEF bridge, fields
<1>3. ASSUME \/ Pause \/ NextEpoch \/ Resume \/ ServeIdle \/ ServeControl \/ Expire \/ Leave
             \/ Turn \/ Expired \/ Stop
      PROVE  InHand'
  BY <1>3
  DEF Pause, NextEpoch, Resume, ServeIdle, ServeControl, Expire, Leave, Turn, Expired, Stop,
      End, Clear, Loop, bridge, fields
<1>4. CASE Top
  BY <1>4 DEF Top, SendRelease, Loop, fields
<1>5. ASSUME NEW cmd, cmd \in Command,
             \/ Drop(cmd) \/ HandleLocally(cmd) \/ HandleAcquire(cmd)
             \/ HandleEvent(cmd) \/ HandleRelease(cmd)
      PROVE  InHand'
  <2>1. cmd.client \in Clients /\ cmd # NoCommand
    BY <1>1, <1>5
  <2>2. CASE Drop(cmd) \/ HandleLocally(cmd)
    BY <2>2 DEF Drop, HandleLocally, Handle, Loop, held
  <2>3. CASE HandleAcquire(cmd)
    BY <1>1, <2>1, <2>3 DEF HandleAcquire, Handle, Waits
  <2>4. CASE HandleEvent(cmd)
    BY <1>1, <2>1, <2>4 DEF HandleEvent, Handle, Waits, Loop, Refused
  <2>5. CASE HandleRelease(cmd)
    BY <1>1, <2>1, <2>5 DEF HandleRelease, Handle, SendRelease, held
  <2>6. QED
    BY <1>5, <2>2, <2>3, <2>4, <2>5
<1>6. CASE HandleNext
  <2>1. Head(queue) \in Command
    BY <1>6, TailType DEF HandleNext
  <2>2. QED
    BY <1>5, <1>6, <2>1 DEF HandleNext
<1>7. ASSUME NEW m, AwaitAcquire(m) \/ AwaitAck(m) \/ AwaitRelease(m)
      PROVE  InHand'
  BY <1>7
  DEF AwaitAcquire, AwaitAck, AwaitRelease, Hears, Clear, Loop, SendRelease, fields
<1>8. QED
  BY <1>2, <1>3, <1>4, <1>6, <1>7 DEF Next, Run, Await

\* The socket, for the steps that take nothing from it.
LEMMA SocketSending ==
    ASSUME SocketInv,
           \/ Top \/ Turn \/ Stop
           \/ \E cmd \in Command : \/ Drop(cmd) \/ HandleLocally(cmd) \/ HandleAcquire(cmd)
                                   \/ HandleEvent(cmd) \/ HandleRelease(cmd)
    PROVE  Dialogue' /\ InOrder'
<1> USE DEF SocketInv
<1>1. /\ req \in Seq(Messages) /\ rep \in Seq(Messages)
      /\ generation \in Nat /\ sequence \in Nat /\ nonces \in Nat /\ grants \in Nat
      /\ control \in Nat /\ next \in Nat
      /\ None \notin Clients /\ owner \in Clients \cup {None}
      /\ serving \in BOOLEAN
  BY Basics
<1>2. ASSUME NEW m \in Messages, req' = Append(req, m)
      PROVE  /\ Len(req') = Len(req) + 1 /\ req'[Len(req) + 1] = m
             /\ DOMAIN req = 1..Len(req) /\ DOMAIN req' = 1..Len(req) + 1
             /\ \A i \in 1..Len(req) : req'[i] = req[i]
             /\ Len(req) \in Nat
  BY <1>1, <1>2, AppendType
<1>3. ASSUME NEW why, SendRelease(generation, sequence, why), owner # None,
             run \in {"top", "select"},
             UNCHANGED <<rep, held, daemon>>
      PROVE  Dialogue' /\ InOrder'
  <2> DEFINE m == Message("release", generation, sequence + 1)
  <2>1. Owned
    BY <1>3 DEF Dialogue
  <2>2. req' = <<m>> /\ Len(req') = 1 /\ req'[1] = m /\ DOMAIN req' = {1}
    BY <1>3, <2>1 DEF SendRelease, Owned
  <2>3. m.type = "release" /\ m.gen = generation /\ m.seq = sequence + 1
    BY DEF Message
  <2>4. run' = "release" /\ UNCHANGED <<generation, sequence, control, next, serving, rep>>
    BY <1>3 DEF SendRelease, held, daemon
  <2>5. Unread(Message("release", generation, sequence + 1), sequence + 1)'
    BY <1>1, <2>1, <2>2, <2>4 DEF Unread, Owned, LastsFrom, Under
  <2>6. generation # 0
    BY <2>1 DEF Owned, Under
  <2>7. InOrder'
    BY <1>1, <2>1, <2>2, <2>3, <2>4 DEF InOrder, Owned, Under, Accepts
  <2>8. QED
    BY <2>4, <2>5, <2>6, <2>7 DEF Dialogue
<1>4. CASE Top
  BY <1>3, <1>4, Elsewhere DEF Top, Loop, held, fields, daemon
<1>5. CASE Turn
  BY <1>5, Elsewhere DEF Turn, Loop, held, daemon
<1>6. CASE Stop
  BY <1>6 DEF Stop, End, Dialogue, InOrder, Accepts, daemon
<1>7. ASSUME NEW cmd \in Command, Drop(cmd) \/ HandleLocally(cmd)
      PROVE  Dialogue' /\ InOrder'
  BY <1>7, Elsewhere DEF Drop, HandleLocally, Handle, Loop, held, daemon
<1>8. ASSUME NEW cmd \in Command, HandleAcquire(cmd)
      PROVE  Dialogue' /\ InOrder'
  <2> DEFINE m == Message("acquire", 0, nonces')
  <2>1. owner = None /\ run = "select" /\ run' = "acquire" /\ nonces' = nonces + 1
        /\ req' = Append(req, m) /\ UNCHANGED <<generation, sequence, rep, daemon>>
    BY <1>8 DEF HandleAcquire, Handle, Refused, Waits
  <2>2. Ownerless
    BY <2>1 DEF Dialogue
  <2>3. m \in Messages /\ m.type = "acquire"
    <3>1. nonces' \in Grants
      BY <1>8, HandleType DEF Typed, TypeOK
    <3>2. QED
      BY <3>1, MessageType, Zeros DEF Message
  <2> HIDE DEF m
  <2>4. /\ Len(req') = Len(req) + 1 /\ req'[Len(req) + 1] = m
        /\ DOMAIN req = 1..Len(req) /\ DOMAIN req' = 1..Len(req) + 1
        /\ \A i \in 1..Len(req) : req'[i] = req[i]
        /\ Len(req) \in Nat /\ Len(rep) \in Nat
    BY <1>1, <1>2, <2>1, <2>3
  <2>5. \A i \in 1..Len(req) : req'[i].type # "acquire"
    BY <2>2, <2>4 DEF Ownerless
  <2>6. AcquireUnread'
    BY <2>1, <2>2, <2>4, <2>5 DEF AcquireUnread, Ownerless, Notices, daemon, m
  <2>7. nonces' # 0 /\ generation' = 0 /\ sequence' = 0
    BY <1>1, <2>1, <2>2 DEF Ownerless
  <2>8. InOrder'
    BY <2>1, <2>2, <2>4, <2>5 DEF InOrder, Ownerless, daemon
  <2>9. QED
    BY <2>1, <2>6, <2>7, <2>8 DEF Dialogue
<1>9. ASSUME NEW cmd \in Command, HandleEvent(cmd)
      PROVE  Dialogue' /\ InOrder'
  <2> DEFINE m == Message("event", cmd.gen, cmd.seq)
  <2>1. owner # None /\ run = "select" /\ UNCHANGED <<owner, generation, rep, daemon, nonces>>
    BY <1>1, <1>9 DEF HandleEvent, Handle, Refused, Command
  <2>2. Owned
    BY <2>1 DEF Dialogue
  <2>3. CASE cmd.gen = generation /\ cmd.seq = sequence + 1
    <3>1. req' = Append(req, m) /\ sequence' = sequence + 1 /\ run' = "event"
          /\ cmd.gen = generation /\ cmd.seq = sequence'
      BY <1>9, <2>3 DEF HandleEvent, Waits
    <3>2. req' = <<m>> /\ Len(req') = 1 /\ req'[1] = m /\ DOMAIN req' = {1}
      BY <2>2, <3>1 DEF Owned
    <3>3. m.type = "event" /\ m.gen = generation /\ m.seq = sequence + 1
      BY <2>3 DEF Message
    <3>4. Unread(Message("event", generation, sequence), sequence)'
      BY <1>1, <2>1, <2>2, <3>1, <3>2 DEF Unread, Owned, LastsFrom, Under, daemon
    <3>5. generation # 0
      BY <2>2 DEF Owned, Under
    <3>6. InOrder'
      BY <1>1, <2>1, <2>2, <3>1, <3>2, <3>3 DEF InOrder, Owned, Under, Accepts, daemon
    <3>7. QED
      BY <2>1, <3>1, <3>4, <3>5, <3>6 DEF Dialogue
  <2>4. CASE ~(cmd.gen = generation /\ cmd.seq = sequence + 1)
    BY <1>9, <2>1, <2>4, Elsewhere DEF HandleEvent, Loop, daemon
  <2>5. QED
    BY <2>3, <2>4
<1>10. ASSUME NEW cmd \in Command, HandleRelease(cmd)
       PROVE  Dialogue' /\ InOrder'
  <2>1. owner # None
    BY <1>1, <1>10 DEF HandleRelease, Command
  <2>2. QED
    BY <1>3, <1>10, <2>1 DEF HandleRelease, Handle
<1>11. QED
  BY <1>4, <1>5, <1>6, <1>7, <1>8, <1>9, <1>10

\* A reply less.
LEMMA OneHeard ==
    ASSUME Typed, rep # <<>>, rep' = Tail(rep)
    PROVE  /\ Head(rep) = rep[1] /\ Len(rep) \in Nat \ {0} /\ Len(rep') = Len(rep) - 1
           /\ \A i \in 1..Len(rep) - 1 : rep'[i] = rep[i + 1]
           /\ Len(rep) = 1 => rep' = <<>>
BY Basics, TailType

\* Without an owner there is nothing but what is left of one request.
LEMMA OwnerLost ==
    ASSUME SocketInv, rep # <<>>, rep' = Tail(rep), Clear,
           control = 0, UNCHANGED <<req, daemon>>, run' \in {"top", "select"},
           Len(req) + Len(rep) <= 2, \A i \in DOMAIN req : req[i].type # "acquire",
           \A i \in 2..Len(rep) : rep[i] = Unavailable
    PROVE  Dialogue' /\ InOrder'
<1>1. /\ Len(rep) \in Nat \ {0} /\ Len(rep') = Len(rep) - 1
      /\ \A i \in 1..Len(rep) - 1 : rep'[i] = rep[i + 1]
  BY OneHeard DEF SocketInv
<1>2. Len(req) \in Nat
  BY Basics DEF SocketInv
<1>3. Notices(Len(rep))'
  BY <1>1 DEF Notices
<1>4. Ownerless'
  BY <1>1, <1>2, <1>3 DEF Ownerless, Clear, daemon
<1>5. QED
  BY <1>4 DEF Dialogue, InOrder, SocketInv, Clear, daemon

LEMMA SocketHearing ==
    ASSUME SocketInv, rep # <<>>, NEW m, m = Head(rep),
           Expired \/ AwaitAcquire(m) \/ AwaitAck(m) \/ AwaitRelease(m)
    PROVE  Dialogue' /\ InOrder'
<1> USE DEF SocketInv
<1>1. /\ req \in Seq(Messages) /\ rep \in Seq(Messages)
      /\ generation \in Nat /\ sequence \in Nat /\ nonces \in Nat /\ grants \in Nat
      /\ control \in Nat /\ next \in Nat
      /\ None \notin Clients /\ owner \in Clients \cup {None}
      /\ serving \in BOOLEAN
      /\ DOMAIN req = 1..Len(req) /\ Len(req) \in Nat
  BY Basics
<1>2. rep' = Tail(rep)
  BY DEF Expired, AwaitAcquire, AwaitAck, AwaitRelease, Hears
<1>3. /\ m = rep[1] /\ Len(rep) \in Nat \ {0} /\ Len(rep') = Len(rep) - 1
      /\ \A i \in 1..Len(rep) - 1 : rep'[i] = rep[i + 1]
      /\ Len(rep) = 1 => rep' = <<>>
  BY <1>2, OneHeard
<1>4. /\ Unavailable.type = "unavailable" /\ Unavailable.seq = 0
      /\ Denied(nonces).type = "unavailable" /\ Denied(nonces).seq = nonces
      /\ \A n : Message("ack", 0, n).type = "ack"
      /\ \A n : Message("acquire", 0, n).type = "acquire"
      /\ \A g, n : Message("event", g, n).type = "event"
      /\ \A g, n : Message("release", g, n).type = "release"
  BY DEF Unavailable, Denied, Message
<1>5. CASE Expired
  <2>1. control = 0 /\ Len(req) + Len(rep) <= 1
    BY <1>1, <1>3, <1>5 DEF Expired, Dialogue, Ownerless, Owned, LastsFrom
  <2>2. \A i \in DOMAIN req : req[i].type # "acquire"
    BY <1>1, <1>3, <2>1
  <2>3. QED
    BY <1>1, <1>2, <1>3, <1>5, <2>1, <2>2, OwnerLost DEF Expired, Loop, daemon
<1>6. CASE AwaitAcquire(m)
  <2>1. /\ run = "acquire" /\ UNCHANGED <<daemon, nonces>>
        /\ nonces # 0 /\ generation = 0 /\ sequence = 0
        /\ AcquireUnread \/ AcquireDenied \/ AcquireGranted
    BY <1>6 DEF AwaitAcquire, Hears, Dialogue
  <2>2. CASE Denies(m)
    <3>1. ~AcquireUnread
      BY <1>3, <1>4, <2>1, <2>2 DEF AcquireUnread, Notices, Denies
    <3>2. ~AcquireGranted
      BY <1>3, <1>4, <2>1, <2>2 DEF AcquireGranted, Notices, Denies
    <3>3. AcquireDenied
      BY <2>1, <3>1, <3>2
    <3>4. Len(rep) = 1
      BY <1>3, <1>4, <2>1, <2>2, <3>3 DEF AcquireDenied, Notices, Denies
    <3>5. m.type # "ready" /\ Clear /\ Loop("top") /\ UNCHANGED req
      BY <1>6, <2>2 DEF AwaitAcquire, Denies
    <3>6. control = 0 /\ req = <<>>
      BY <3>3 DEF AcquireDenied
    <3>7. QED
      BY <1>1, <1>2, <2>1, <3>4, <3>5, <3>6, OwnerLost DEF Loop
  <2>3. CASE m.type = "unavailable" /\ ~Denies(m)
    <3>1. UNCHANGED <<run, req, generation, sequence, control, next, serving>>
      BY <1>6, <2>1, <2>3 DEF AwaitAcquire, Denies, fields, daemon
    <3>2. AcquireUnread => AcquireUnread'
      BY <1>1, <1>3, <2>1, <3>1 DEF AcquireUnread, Notices
    <3>3. AcquireDenied => AcquireDenied'
      <4> SUFFICES ASSUME AcquireDenied PROVE AcquireDenied'
        OBVIOUS
      <4>1. Len(rep) = 2
        BY <1>3, <1>4, <2>3 DEF AcquireDenied, Denies
      <4>2. QED
        BY <1>1, <1>3, <2>1, <3>1, <4>1 DEF AcquireDenied, Notices
    <3>4. AcquireGranted => AcquireGranted'
      <4> SUFFICES ASSUME AcquireGranted PROVE AcquireGranted'
        OBVIOUS
      <4>1. PICK n \in 1..2 : /\ Notices(n - 1) /\ LastsFrom(n)
                              /\ rep[n].type = "ready" /\ Under(rep[n].gen, 1)
        BY DEF AcquireGranted
      <4>2. n = 2
        BY <1>3, <2>3, <4>1
      <4>3. Len(rep) >= 2
        BY <1>3, <4>1, <4>2 DEF LastsFrom
      <4>4. Notices(0)' /\ LastsFrom(1)' /\ rep'[1] = rep[2]
        BY <1>3, <3>1, <4>1, <4>2, <4>3 DEF Notices, LastsFrom
      <4>5. rep'[1].type = "ready" /\ Under(rep[1].gen, 1)'
        BY <3>1, <4>1, <4>2, <4>4 DEF Under
      <4>6. QED
        BY <3>1, <4>4, <4>5 DEF AcquireGranted
    <3>5. Dialogue'
      BY <2>1, <3>1, <3>2, <3>3, <3>4 DEF Dialogue
    <3>6. QED
      BY <2>1, <3>1, <3>5 DEF InOrder, Accepts
  <2>4. CASE m.type = "ready"
    <3>1. ~AcquireUnread
      BY <1>3, <1>4, <2>4 DEF AcquireUnread, Notices
    <3>2. ~AcquireDenied
      BY <1>3, <1>4, <2>4 DEF AcquireDenied, Notices
    <3>3. AcquireGranted
      BY <2>1, <3>1, <3>2
    <3>4. PICK n \in 1..2 : /\ Notices(n - 1) /\ LastsFrom(n)
                            /\ rep[n].type = "ready" /\ Under(rep[n].gen, 1)
      BY <3>3 DEF AcquireGranted
    <3>5. n = 1
      BY <1>3, <1>4, <2>4, <3>4 DEF Notices
    <3>6. generation' = m.gen /\ sequence' = 0 /\ m.type # "unavailable"
      BY <1>6, <2>4 DEF AwaitAcquire, Denies
    <3>7. UNCHANGED <<control, next, serving, owner>> /\ owner # None
      BY <1>6, <2>1, <2>4 DEF AwaitAcquire, Denies, InHand, daemon
    <3>8. LastsFrom(0)'
      BY <1>3, <3>4, <3>5, <3>7 DEF LastsFrom
    <3>9. Under(generation, sequence + 1)'
      BY <1>3, <3>4, <3>5, <3>6, <3>7 DEF Under
    <3>10. req = <<>>
      BY <3>3 DEF AcquireGranted
    <3>11. CASE run' = "top" /\ UNCHANGED req
      <4>1. Owned'
        BY <3>8, <3>9, <3>10, <3>11 DEF Owned
      <4>2. QED
        BY <2>1, <3>7, <3>10, <3>11, <4>1 DEF Dialogue, InOrder
    <3>12. CASE SendRelease(m.gen, 0, "late")
      <4> DEFINE r == Message("release", m.gen, 0 + 1)
      <4>1. run' = "release" /\ req' = <<r>> /\ Len(req') = 1 /\ req'[1] = r
            /\ DOMAIN req' = {1}
        BY <3>10, <3>12 DEF SendRelease
      <4>2. r.gen = generation' /\ r.seq = sequence' + 1 /\ r.type = "release"
            /\ r = Message("release", generation', sequence' + 1)
        BY <3>6 DEF Message
      <4>3. Unread(Message("release", generation, sequence + 1), sequence + 1)'
        BY <3>8, <3>9, <4>1, <4>2 DEF Unread
      <4>4. InOrder'
        BY <3>7, <3>9, <4>1, <4>2 DEF InOrder, Under, Accepts
      <4>5. QED
        BY <3>9, <4>1, <4>3, <4>4 DEF Dialogue, Under
    <3>13. QED
      BY <1>6, <2>4, <3>6, <3>11, <3>12 DEF AwaitAcquire, Denies, Loop
  <2>5. QED
    BY <1>6, <2>2, <2>3, <2>4 DEF AwaitAcquire
<1>7. ASSUME run \in {"event", "release"}, m.type = "unavailable", Clear,
             UNCHANGED <<req, daemon>>, run' \in {"top", "select"}
      PROVE  Dialogue' /\ InOrder'
  <2>1. ~EventAcknowledged /\ ~ReleaseAcknowledged
    BY <1>3, <1>4, <1>7 DEF EventAcknowledged, ReleaseAcknowledged
  <2>2. CASE Refusal
    <3>1. control = 0 /\ req = <<>> /\ Len(rep) = 2
          /\ \A i \in 2..Len(rep) : rep[i] = Unavailable
      BY <2>2 DEF Refusal, Notices
    <3>2. QED
      BY <1>1, <1>2, <1>7, <3>1, OwnerLost
  <2>3. CASE ~Refusal
    <3>1. Len(req) = 1 /\ req[1].type # "acquire" /\ LastsFrom(0)
      BY <1>4, <1>7, <2>1, <2>3 DEF Dialogue, Unread
    <3>2. control = 0 /\ Len(rep) = 1
      BY <1>3, <3>1 DEF LastsFrom
    <3>3. QED
      BY <1>1, <1>2, <1>7, <3>1, <3>2, OwnerLost
  <2>4. QED
    BY <2>2, <2>3
<1>8. CASE AwaitAck(m)
  <2>1. CASE m.type = "unavailable"
    BY <1>7, <1>8, <2>1 DEF AwaitAck, Hears, Loop
  <2>2. CASE m.type = "ack"
    <3>1. run = "event" /\ run' = "top" /\ UNCHANGED <<fields, req, daemon>>
      BY <1>8, <2>2 DEF AwaitAck, Hears, Loop
    <3>2. ~Refusal
      BY <1>3, <1>4, <2>2 DEF Refusal, Notices
    <3>3. ~Unread(Message("event", generation, sequence), sequence)
      BY <1>3, <1>4, <2>2 DEF Unread, LastsFrom
    <3>4. EventAcknowledged
      BY <3>1, <3>2, <3>3 DEF Dialogue
    <3>5. LastsFrom(0)'
      BY <1>3, <3>1, <3>4 DEF EventAcknowledged, LastsFrom, daemon
    <3>6. Owned'
      BY <3>1, <3>4, <3>5 DEF EventAcknowledged, Owned, Under, fields, daemon
    <3>7. owner' # None
      BY <3>1 DEF InHand, fields
    <3>8. QED
      BY <3>1, <3>6, <3>7 DEF Dialogue, InOrder, Accepts, daemon
  <2>3. QED
    BY <1>8, <2>1, <2>2 DEF AwaitAck
<1>9. CASE AwaitRelease(m)
  <2>1. run = "release" /\ Clear /\ UNCHANGED <<req, daemon>> /\ run' \in {"top", "select"}
    BY <1>9 DEF AwaitRelease, Hears, Loop
  <2>2. CASE m.type = "unavailable"
    BY <1>7, <2>1, <2>2
  <2>3. CASE m.type = "ack"
    <3>1. ~Refusal
      BY <1>3, <1>4, <2>3 DEF Refusal, Notices
    <3>2. ~Unread(Message("release", generation, sequence + 1), sequence + 1)
      BY <1>3, <1>4, <2>3 DEF Unread, LastsFrom
    <3>3. ReleaseAcknowledged
      BY <2>1, <3>1, <3>2 DEF Dialogue
    <3>4. QED
      BY <1>1, <1>2, <2>1, <3>3, OwnerLost DEF ReleaseAcknowledged
  <2>4. QED
    BY <1>9, <2>2, <2>3 DEF AwaitRelease
<1>10. QED
  BY <1>5, <1>6, <1>8, <1>9

LEMMA SocketServing ==
    ASSUME SocketInv, ServeIdle \/ ServeControl \/ Expire \/ Leave
    PROVE  Dialogue' /\ InOrder'
<1> USE DEF SocketInv
<1>1. /\ req \in Seq(Messages) /\ rep \in Seq(Messages)
      /\ generation \in Nat /\ sequence \in Nat /\ nonces \in Nat /\ grants \in Nat
      /\ control \in Nat /\ next \in Nat
      /\ serving \in BOOLEAN
      /\ DOMAIN req = 1..Len(req) /\ Len(req) \in Nat /\ Len(rep) \in Nat
      /\ run \in {"top", "select", "acquire", "event", "release", "ended"}
  BY Basics DEF Typed, TypeOK
<1>2. UNCHANGED <<bridge, nonces>>
  BY DEF ServeIdle, ServeControl, Expire, Leave
<1>3. ASSUME NEW a, Says(a), run # "ended"
      PROVE  /\ Len(rep') = Len(rep) + 1 /\ rep'[Len(rep) + 1] = a
             /\ \A i \in 1..Len(rep) : rep'[i] = rep[i]
  BY <1>1, <1>3 DEF Says
<1>4. ASSUME NEW a, Says(a), run = "ended"
      PROVE  rep' = <<>>
  BY <1>4 DEF Says, InOrder
<1>5. /\ Message("acquire", 0, nonces).type = "acquire"
      /\ Message("acquire", 0, nonces).seq = nonces
      /\ \A g, n : Message("event", g, n).type = "event"
      /\ \A g, n : Message("release", g, n).type = "release"
  BY DEF Message
<1>6. ASSUME req # <<>>, req' = Tail(req)
      PROVE  /\ Head(req) = req[1] /\ Len(req') = Len(req) - 1 /\ Len(req) >= 1
             /\ \A i \in 1..Len(req) - 1 : req'[i] = req[i + 1]
             /\ DOMAIN req' = 1..Len(req) - 1 /\ (Len(req) = 1 => req' = <<>>)
  BY <1>1, <1>6, TailType
<1>7. CASE ServeIdle
  <2> DEFINE m == Head(req)
  <2>1. /\ serving /\ control = 0 /\ UNCHANGED serving
        /\ m = req[1] /\ Len(req') = Len(req) - 1 /\ Len(req) >= 1
        /\ \A i \in 1..Len(req) - 1 : req'[i] = req[i + 1]
        /\ DOMAIN req' = 1..Len(req) - 1 /\ (Len(req) = 1 => req' = <<>>)
    BY <1>6, <1>7 DEF ServeIdle
  <2> HIDE DEF m
  <2>2. CASE m.type = "acquire"
    <3>1. Len(req) = 1 /\ req' = <<>> /\ DOMAIN req' = {}
      BY <1>1, <2>1, <2>2 DEF InOrder
    <3>2. run \in {"acquire", "ended"}
      BY <1>1, <1>5, <2>1, <2>2 DEF Dialogue, Ownerless, Owned, Unread, EventAcknowledged,
         ReleaseAcknowledged, Refusal
    <3>3. run = "acquire" => nonces # 0 /\ generation = 0 /\ sequence = 0 /\ AcquireUnread
      BY <1>1, <2>1 DEF Dialogue, AcquireDenied, AcquireGranted
    <3>4. CASE control' = grants + 1 /\ next' = 1 /\ Says(Message("ready", grants', 0))
               /\ grants' = grants + 1
      <4>1. Message("ready", grants', 0).type = "ready"
            /\ Message("ready", grants', 0).gen = control' /\ control' # 0
        BY <1>1, <3>4 DEF Message
      <4>2. CASE run = "acquire"
        <5>0. PICK n \in Nat : n = Len(rep) + 1
          BY <1>1
        <5>1. n \in 1..2 /\ n - 1 = Len(rep) /\ Notices(Len(rep))
          BY <1>1, <3>1, <3>3, <4>2, <5>0 DEF AcquireUnread
        <5>2. /\ Len(rep') = n /\ rep'[n] = Message("ready", grants', 0)
              /\ \A i \in 1..Len(rep) : rep'[i] = rep[i]
          BY <1>1, <3>4, <4>2, <5>0 DEF Says
        <5>3. Notices(n - 1)'
          BY <5>1, <5>2 DEF Notices
        <5>4. LastsFrom(n)'
          BY <2>1, <4>1, <5>2 DEF LastsFrom
        <5>5. rep'[n].type = "ready" /\ Under(rep[n].gen, 1)'
          BY <3>4, <4>1, <5>2 DEF Under
        <5>6. AcquireGranted'
          BY <3>1, <5>1, <5>3, <5>4, <5>5 DEF AcquireGranted
        <5>7. QED
          BY <1>2, <2>1, <3>1, <3>3, <4>2, <5>6 DEF Dialogue, InOrder, bridge, fields
      <4>3. CASE run = "ended"
        BY <1>2, <1>4, <2>1, <3>1, <3>4, <4>3 DEF Dialogue, InOrder, bridge
      <4>4. QED
        BY <3>2, <4>2, <4>3
    <3>5. CASE Says(Denied(m.seq)) /\ UNCHANGED <<control, grants, next>>
      <4>1. CASE run = "acquire"
        <5>1. m.seq = nonces
          BY <1>5, <2>1, <3>1, <3>3, <4>1 DEF AcquireUnread
        <5>2. /\ Len(rep') = Len(rep) + 1 /\ rep'[Len(rep) + 1] = Denied(nonces)
              /\ \A i \in 1..Len(rep) : rep'[i] = rep[i]
          BY <1>1, <3>5, <4>1, <5>1 DEF Says
        <5>3. Len(rep) <= 1 /\ Notices(Len(rep))
          BY <1>1, <3>1, <3>3, <4>1 DEF AcquireUnread
        <5>4. Notices(Len(rep) - 1)'
          BY <1>1, <5>2, <5>3 DEF Notices
        <5>5. nonces' = nonces /\ control' = 0
          BY <1>2, <2>1, <3>5
        <5>6. AcquireDenied'
          BY <1>1, <3>1, <5>2, <5>3, <5>4, <5>5 DEF AcquireDenied, Denied
        <5>7. QED
          BY <1>2, <2>1, <3>1, <3>3, <3>5, <4>1, <5>6 DEF Dialogue, InOrder, bridge, fields
      <4>2. CASE run = "ended"
        BY <1>2, <1>4, <2>1, <3>1, <3>5, <4>2 DEF Dialogue, InOrder, bridge
      <4>3. QED
        BY <3>2, <4>1, <4>2
    <3>6. QED
      BY <1>7, <2>2, <3>4, <3>5 DEF ServeIdle, m
  <2>3. CASE m.type # "acquire"
    <3>1. Says(Unavailable) /\ UNCHANGED <<control, grants, next>>
      BY <1>7, <2>3 DEF ServeIdle, m
    <3>2. InOrder'
      <4>1. \A i \in DOMAIN req' : req'[i].type = "acquire" => i = Len(req')
        <5> SUFFICES ASSUME NEW i \in DOMAIN req', req'[i].type = "acquire"
                     PROVE  i = Len(req')
          OBVIOUS
        <5>1. i + 1 \in DOMAIN req /\ req[i + 1].type = "acquire"
          BY <1>1, <2>1
        <5>2. i + 1 = Len(req)
          BY <5>1 DEF InOrder
        <5>3. QED
          BY <1>1, <2>1, <5>2
      <4>2. control' = 0 /\ (run' = "ended" => rep' = <<>>)
        BY <1>2, <1>4, <2>1, <3>1 DEF bridge
      <4>3. QED
        BY <4>1, <4>2 DEF InOrder
    <3>3. CASE run \in {"top", "select"}
      <4>1. Ownerless /\ owner = None
        BY <1>1, <2>1, <3>3 DEF Dialogue, Owned
      <4>2. Len(req) = 1 /\ Len(rep) = 0
        BY <1>1, <2>1, <4>1 DEF Ownerless
      <4>3. Ownerless'
        BY <1>2, <1>3, <2>1, <3>1, <3>3, <4>1, <4>2
        DEF Ownerless, Notices, bridge, fields
      <4>4. QED
        BY <1>2, <3>2, <3>3, <4>1, <4>3 DEF Dialogue, bridge, fields
    <3>4. CASE run = "acquire"
      <4>1. AcquireUnread
        BY <1>1, <2>1, <3>4 DEF Dialogue, AcquireDenied, AcquireGranted
      <4>2. Len(req) = 2 /\ Len(rep) = 0
        BY <1>1, <1>5, <2>1, <2>3, <4>1 DEF AcquireUnread
      <4>3. AcquireUnread'
        BY <1>2, <1>3, <2>1, <3>1, <3>4, <4>1, <4>2 DEF AcquireUnread, Notices
      <4>4. QED
        BY <1>2, <3>2, <3>4, <4>3 DEF Dialogue, bridge, fields
    <3>5. CASE run \in {"event", "release"}
      <4>1. Len(req) = 1 /\ LastsFrom(0) /\ generation # 0
        BY <1>1, <2>1, <3>5
        DEF Dialogue, Unread, EventAcknowledged, ReleaseAcknowledged, Refusal
      <4>2. Len(rep) = 1 /\ rep[1] = Unavailable
        BY <2>1, <4>1 DEF LastsFrom
      <4>3. Refusal'
        BY <1>3, <2>1, <3>1, <3>5, <4>1, <4>2 DEF Refusal, Notices
      <4>4. QED
        BY <1>2, <3>2, <3>5, <4>1, <4>3 DEF Dialogue, bridge, fields
    <3>6. CASE run = "ended"
      BY <1>2, <3>2, <3>6 DEF Dialogue, bridge
    <3>7. QED
      BY <1>1, <3>3, <3>4, <3>5, <3>6
  <2>4. QED
    BY <2>2, <2>3
<1>8. CASE ServeControl
  <2> DEFINE m == Head(req)
             a == Message("ack", 0, next)
  <2>1. /\ serving /\ control # 0 /\ UNCHANGED serving /\ Says(a) /\ m = req[1]
        /\ Accepts(m) /\ Len(req) = 1 /\ req # <<>> /\ req' = <<>> /\ DOMAIN req' = {}
        /\ IF m.type = "release" THEN control' = 0 /\ next' = 1
                                 ELSE control' = control /\ next' = next + 1
    BY <1>6, <1>8 DEF ServeControl, InOrder
  <2> HIDE DEF m, a
  <2>2. InOrder'
    BY <1>2, <1>4, <2>1 DEF InOrder, bridge
  <2>3. run \notin {"top", "select", "acquire"}
    BY <2>1
    DEF Dialogue, Ownerless, Owned, AcquireUnread, AcquireDenied, AcquireGranted
  <2>4. CASE run = "event"
    <3>1. Unread(Message("event", generation, sequence), sequence) /\ generation # 0
      BY <2>1, <2>4 DEF Dialogue, EventAcknowledged, Refusal
    <3>2. m.type = "event" /\ Len(rep) = 0 /\ next = sequence /\ control = generation
      BY <1>1, <1>5, <2>1, <3>1 DEF Unread, LastsFrom, Under
    <3>3. LastsFrom(1)' /\ rep'[1] = Message("ack", 0, sequence)
      BY <1>3, <2>1, <2>4, <3>2 DEF LastsFrom, a
    <3>4. EventAcknowledged'
      BY <1>2, <2>1, <3>1, <3>2, <3>3 DEF EventAcknowledged, Under, bridge, fields
    <3>5. QED
      BY <1>2, <2>2, <2>4, <3>1, <3>4 DEF Dialogue, bridge, fields
  <2>5. CASE run = "release"
    <3>1. Unread(Message("release", generation, sequence + 1), sequence + 1) /\ generation # 0
      BY <1>1, <2>1, <2>5 DEF Dialogue, ReleaseAcknowledged, Refusal
    <3>2. m.type = "release" /\ Len(rep) = 0 /\ next = sequence + 1
      BY <1>1, <1>5, <2>1, <3>1 DEF Unread, LastsFrom, Under
    <3>3. ReleaseAcknowledged'
      BY <1>2, <1>3, <2>1, <2>5, <3>1, <3>2 DEF ReleaseAcknowledged, bridge, fields, a
    <3>4. QED
      BY <1>2, <2>2, <2>5, <3>1, <3>3 DEF Dialogue, bridge, fields
  <2>6. CASE run = "ended"
    BY <1>2, <2>2, <2>6 DEF Dialogue, bridge
  <2>7. QED
    BY <1>1, <2>3, <2>4, <2>5, <2>6
<1>9. CASE Expire \/ Leave
  <2>1. /\ serving /\ control' = 0 /\ UNCHANGED req
        /\ \/ control # 0 /\ serving' = serving /\ Says(Unavailable)
           \/ ~serving' /\ UNCHANGED rep
    BY <1>9 DEF Expire, Leave
  <2>2. ASSUME NEW n \in 0..2, LastsFrom(n), run # "ended"
        PROVE  LastsFrom(n)' /\ \A i \in 1..n : rep'[i] = rep[i]
    BY <1>1, <1>3, <2>1, <2>2 DEF LastsFrom
  <2>3. control = 0 => ~serving' /\ UNCHANGED <<rep, req, control>>
    BY <2>1
  <2>4. InOrder'
    BY <1>2, <1>4, <2>1 DEF InOrder, bridge
  <2>5. CASE run \in {"top", "select"}
    <3>1. owner # None => Owned'
      BY <1>2, <2>1, <2>2, <2>5 DEF Dialogue, Owned, Under, bridge, fields
    <3>2. owner = None => Ownerless'
      BY <1>2, <2>3, <2>5 DEF Dialogue, Ownerless, Notices, bridge, fields
    <3>3. QED
      BY <1>2, <2>4, <2>5, <3>1, <3>2 DEF Dialogue, bridge, fields
  <2>6. CASE run = "acquire"
    <3>1. AcquireUnread \/ AcquireDenied => (AcquireUnread \/ AcquireDenied)'
      BY <1>2, <2>3 DEF AcquireUnread, AcquireDenied, Notices
    <3>2. AcquireGranted => AcquireGranted'
      <4> SUFFICES ASSUME AcquireGranted PROVE AcquireGranted'
        OBVIOUS
      <4>1. PICK n \in 1..2 : /\ Notices(n - 1) /\ LastsFrom(n)
                              /\ rep[n].type = "ready" /\ Under(rep[n].gen, 1)
        BY DEF AcquireGranted
      <4>2. LastsFrom(n)' /\ \A i \in 1..n : rep'[i] = rep[i]
        BY <2>2, <2>6, <4>1
      <4>3. Notices(n - 1)' /\ rep'[n].type = "ready" /\ Under(rep[n].gen, 1)'
        BY <2>1, <4>1, <4>2 DEF Notices, Under
      <4>4. QED
        BY <2>1, <4>2, <4>3 DEF AcquireGranted
    <3>3. QED
      BY <1>2, <2>4, <2>6, <3>1, <3>2 DEF Dialogue, bridge, fields
  <2>7. CASE run \in {"event", "release"}
    <3>1. ASSUME LastsFrom(0) PROVE LastsFrom(0)'
      BY <2>2, <2>7, <3>1
    <3>2. Unread(Message("event", generation, sequence), sequence) =>
            Unread(Message("event", generation, sequence), sequence)'
      BY <1>2, <2>1, <3>1 DEF Unread, Under, bridge, fields, Message
    <3>3. Unread(Message("release", generation, sequence + 1), sequence + 1) =>
            Unread(Message("release", generation, sequence + 1), sequence + 1)'
      BY <1>2, <2>1, <3>1 DEF Unread, Under, bridge, fields, Message
    <3>4. EventAcknowledged => EventAcknowledged'
      BY <1>2, <2>1, <2>2, <2>7 DEF EventAcknowledged, Under, bridge, fields
    <3>5. (ReleaseAcknowledged => ReleaseAcknowledged') /\ (Refusal => Refusal')
      BY <1>2, <2>3 DEF ReleaseAcknowledged, Refusal, Notices, bridge, fields
    <3>6. run' = run /\ generation' = generation
      BY <1>2 DEF bridge, fields
    <3>7. CASE run = "event"
      BY <2>4, <3>2, <3>4, <3>5, <3>6, <3>7 DEF Dialogue
    <3>8. CASE run = "release"
      BY <2>4, <3>3, <3>5, <3>6, <3>8 DEF Dialogue
    <3>9. QED
      BY <2>7, <3>7, <3>8
  <2>8. CASE run = "ended"
    BY <1>2, <2>4, <2>8 DEF Dialogue, bridge
  <2>9. QED
    BY <1>1, <2>5, <2>6, <2>7, <2>8
<1>10. QED
  BY <1>7, <1>8, <1>9

LEMMA SocketAtFirst == Init => SocketInv
<1>1. Init => Dialogue
  BY DEF Init, Dialogue, Ownerless, Notices
<1>2. Init => InOrder /\ InHand
  BY DEF Init, InOrder, InHand, NoCommand
<1>3. QED
  BY <1>1, <1>2, TypedAtFirst DEF SocketInv

LEMMA SocketAlways == Spec => []SocketInv
<1>1. SocketInv /\ [Next]_vars => Dialogue' /\ InOrder' /\ InHand'
  <2> SUFFICES ASSUME SocketInv, [Next]_vars PROVE Dialogue' /\ InOrder' /\ InHand'
    OBVIOUS
  <2>1. CASE UNCHANGED vars
    BY <2>1, Elsewhere DEF SocketInv, InHand, vars, bridge, fields, daemon
  <2>2. CASE Next
    <3>1. InHand'
      BY <2>2, InHandKept DEF SocketInv
    <3>2. ASSUME NEW c \in Clients, Browse(c) PROVE Dialogue' /\ InOrder'
      <4>1. UNCHANGED <<bridge, req, rep, daemon, nonces>>
        BY <3>2 DEF Browse, Acquire, SendEvent, Release, Fail, ChannelClosed, Receive
      <4>2. QED
        BY <4>1, Elsewhere DEF SocketInv, bridge, fields, daemon
    <3>3. CASE Pause \/ NextEpoch \/ Resume
      BY <3>1, <3>3, Elsewhere DEF SocketInv, Pause, NextEpoch, Resume, bridge, fields, daemon
    <3>4. CASE ServeIdle \/ ServeControl \/ Expire \/ Leave
      BY <3>1, <3>4, SocketServing
    <3>5. CASE Top \/ Turn \/ Stop
      BY <3>1, <3>5, SocketSending
    <3>6. CASE HandleNext
      <4>1. Head(queue) \in Command
        BY <3>6, TailType DEF HandleNext, SocketInv, Typed, TypeOK
      <4>2. QED
        BY <3>1, <3>6, <4>1, SocketSending DEF HandleNext
    <3>7. CASE Expired \/ Await
      BY <3>1, <3>7, SocketHearing DEF Expired, Await
    <3>8. QED
      BY <2>2, <3>1, <3>2, <3>3, <3>4, <3>5, <3>6, <3>7 DEF Next, Run
  <2>3. QED
    BY <2>1, <2>2
<1>2. SocketInv /\ Typed' /\ [Next]_vars => SocketInv'
  BY <1>1 DEF SocketInv
<1>3. QED
  BY <1>2, SocketAtFirst, TypedAlways, PTL DEF Spec

\* Whatever expires, is denied, is released or is interrupted by a recovery, run gets no
\* record of the daemon that makes it end, and the daemon under a control none of run that
\* makes it close the socket.
THEOREM SocketStaysInStep == Spec => []SocketInStep
<1>1. SocketInv => SocketInStep
  <2> SUFFICES ASSUME SocketInv PROVE SocketInStep
    OBVIOUS
  <2> USE DEF SocketInv
  <2>1. /\ req \in Seq(Messages) /\ rep \in Seq(Messages) /\ sequence \in Nat
        /\ run \in {"top", "select", "acquire", "event", "release", "ended"}
    BY Basics DEF Typed, TypeOK
  <2>2. ASSUME rep # <<>> PROVE Head(rep) = rep[1] /\ Len(rep) \in Nat \ {0}
    BY <2>1, <2>2, TailType
  <2>3. ASSUME run # "ended", rep # <<>> PROVE Understands(Head(rep))
    <3>1. Head(rep) = rep[1] /\ Len(rep) \in Nat \ {0} /\ Unavailable.type = "unavailable"
          /\ Denied(nonces).type = "unavailable"
          /\ \A n : Message("ack", 0, n).type = "ack" /\ Message("ack", 0, n).seq = n
      BY <2>2, <2>3 DEF Unavailable, Denied, Message
    <3>2. CASE run \in {"top", "select"}
      BY <3>1, <3>2 DEF Dialogue, Ownerless, Owned, Notices, LastsFrom, Understands
    <3>3. CASE run = "acquire"
      <4>1. AcquireUnread => rep[1].type = "unavailable"
        BY <3>1 DEF AcquireUnread, Notices
      <4>2. AcquireDenied => rep[1].type = "unavailable"
        BY <3>1 DEF AcquireDenied, Notices
      <4>3. AcquireGranted => rep[1].type \in {"unavailable", "ready"}
        BY <3>1 DEF AcquireGranted, Notices
      <4>4. QED
        BY <3>1, <3>3, <4>1, <4>2, <4>3 DEF Dialogue, Understands
    <3>4. Refusal => rep[1].type = "unavailable"
      BY <3>1 DEF Refusal, Notices
    <3>5. LastsFrom(0) => rep[1].type = "unavailable"
      BY <3>1 DEF LastsFrom
    <3>6. CASE run = "event"
      BY <3>1, <3>4, <3>5, <3>6 DEF Dialogue, Unread, EventAcknowledged, Understands
    <3>7. CASE run = "release"
      BY <3>1, <3>4, <3>5, <3>7 DEF Dialogue, Unread, ReleaseAcknowledged, Understands
    <3>8. QED
      BY <2>1, <2>3, <3>2, <3>3, <3>6, <3>7
  <2>4. ASSUME control # 0, req # <<>> PROVE Accepts(Head(req))
    BY <2>1, <2>4, TailType DEF InOrder
  <2>5. QED
    BY <2>3, <2>4 DEF SocketInStep
<1>2. QED
  BY <1>1, SocketAlways, PTL

\* Between commands nobody has control but the owner, under the generation that the bridge
\* knows and at the sequence number that it sends next, and an owner without control is one
\* whose notice run has yet to read, or whose thread of the daemon has left.
THEOREM BridgeAndDaemonAgree == Spec => []ControlAgrees
<1>1. SocketInv => ControlAgrees
  <2> SUFFICES ASSUME SocketInv, run \in {"top", "select"}
               PROVE  /\ control # 0 =>
                            owner # None /\ generation = control /\ next = sequence + 1
                      /\ owner # None =>
                            (control = generation <=>
                               serving /\ \A i \in DOMAIN rep : rep[i].type # "unavailable")
    BY DEF ControlAgrees
  <2> USE DEF SocketInv
  <2>1. rep \in Seq(Messages) /\ DOMAIN rep = 1..Len(rep) /\ Unavailable.type = "unavailable"
    BY Basics DEF Unavailable, Message
  <2>2. CASE owner = None
    BY <2>2 DEF Dialogue, Ownerless
  <2>3. CASE owner # None
    <3>1. LastsFrom(0) /\ Under(generation, sequence + 1)
      BY <2>3 DEF Dialogue, Owned
    <3>2. CASE control # 0
      <4>1. Len(rep) = 0 /\ serving /\ control = generation /\ next = sequence + 1
        BY <3>1, <3>2 DEF LastsFrom, Under
      <4>2. QED
        BY <2>1, <2>3, <4>1
    <3>3. CASE control = 0
      <4>1. control # generation
        BY <3>1, <3>3 DEF Under
      <4>2. ~serving \/ (1 \in DOMAIN rep /\ rep[1].type = "unavailable")
        BY <2>1, <3>1, <3>3 DEF LastsFrom
      <4>3. QED
        BY <2>3, <3>3, <4>1, <4>2
    <3>4. QED
      BY <3>2, <3>3
  <2>4. QED
    BY <2>2, <2>3
<1>2. QED
  BY <1>1, SocketAlways, PTL

-----------------------------------------------------------------------------
(* The invariant for recoveries: an acquire is taken up in the epoch that it was sent in,   *)
(* which is not before what run has observed.                                               *)

InEpoch ==
    /\ observed <= epoch
    /\ owner # None /\ run # "release" => observed <= under /\ under <= epoch
    /\ PauseEndsControl

EpochInv == Typed /\ InHand /\ InEpoch

\* A step that hands control to nobody and ends no look of run at the recoveries.
LEMMA EpochElsewhere ==
    ASSUME Typed, InEpoch,
           epoch' \in Nat, epoch' >= epoch, observed' = observed,
           owner' = None \/ (owner' = owner /\ under' = under),
           run' = run \/ run' # "select" \/ owner' = None,
           run' # "release" => run # "release" \/ owner' = None
    PROVE  InEpoch'
<1>1. observed \in Nat /\ epoch \in Nat /\ under \in Nat
  BY BridgeAssumption DEF Typed, TypeOK
<1>2. QED
  BY <1>1 DEF InEpoch, PauseEndsControl

LEMMA EpochKept ==
    ASSUME EpochInv, Next
    PROVE  InEpoch'
<1> USE DEF EpochInv
<1>1. /\ observed \in Nat /\ epoch \in Nat /\ under \in Nat
      /\ run \in {"top", "select", "acquire", "event", "release", "ended"}
  BY BridgeAssumption DEF Typed, TypeOK
<1>2. ASSUME NEW c \in Clients, Browse(c)
      PROVE  InEpoch'
  <2>1. UNCHANGED <<bridge, epoch>>
    BY <1>2
    DEF Browse, Acquire, SendEvent, Release, Fail, ChannelClosed, Receive, capture
  <2>2. QED
    BY <1>1, <2>1, EpochElsewhere DEF bridge, fields
<1>3. CASE Pause \/ NextEpoch \/ Resume
  BY <1>1, <1>3, EpochElsewhere DEF Pause, NextEpoch, Resume, bridge, fields
<1>4. CASE ServeIdle \/ ServeControl \/ Expire \/ Leave
  BY <1>1, <1>4, EpochElsewhere
  DEF ServeIdle, ServeControl, Expire, Leave, bridge, fields, capture
<1>5. CASE Top
  <2>1. observed' = epoch /\ epoch' = epoch /\ owner' = owner /\ under' = under /\ run = "top"
    BY <1>5 DEF Top, fields, capture
  <2>2. run' = "release" \/ owner = None \/ observed = epoch
    BY <1>5 DEF Top, SendRelease
  <2>3. QED
    BY <1>1, <2>1, <2>2 DEF InEpoch, PauseEndsControl
<1>6. CASE Turn
  BY <1>1, <1>6, EpochElsewhere DEF Turn, Loop, held, capture
<1>7. CASE Expired
  BY <1>1, <1>7, EpochElsewhere DEF Expired, Loop, Clear, capture
<1>8. CASE Stop
  BY <1>1, <1>8, EpochElsewhere DEF Stop, End, Clear, capture
<1>9. ASSUME NEW cmd, HandleAcquire(cmd)
      PROVE  InEpoch'
  <2>1. under' = epoch /\ run' = "acquire" /\ epoch' = epoch /\ observed' = observed
    BY <1>9 DEF HandleAcquire, Handle, Waits, Refused, Suspended, capture
  <2>2. QED
    BY <1>1, <2>1 DEF InEpoch, PauseEndsControl
<1>10. ASSUME NEW cmd,
              Drop(cmd) \/ HandleLocally(cmd) \/ HandleEvent(cmd) \/ HandleRelease(cmd)
       PROVE  InEpoch'
  <2>1. run = "select" /\ run' # "select" /\ epoch' = epoch
        /\ UNCHANGED <<observed, owner, under>>
    BY <1>10
    DEF Drop, HandleLocally, HandleEvent, HandleRelease, Handle, Loop, Waits, SendRelease,
        held, capture
  <2>2. QED
    BY <1>1, <2>1, EpochElsewhere
<1>11. ASSUME NEW m, AwaitAcquire(m) \/ AwaitAck(m) \/ AwaitRelease(m)
       PROVE  InEpoch'
  <2>1. CASE AwaitAcquire(m)
    <3>1. run = "acquire" /\ run' # "select" /\ epoch' = epoch /\ observed' = observed
      BY <2>1 DEF AwaitAcquire, Hears, Loop, SendRelease, capture
    <3>2. owner' = None \/ (owner' = owner /\ under' = under)
      BY <2>1 DEF AwaitAcquire, Clear, fields
    <3>3. QED
      BY <1>1, <3>1, <3>2, EpochElsewhere
  <2>2. CASE AwaitAck(m)
    BY <1>1, <2>2, EpochElsewhere DEF AwaitAck, Hears, Loop, Clear, fields, capture
  <2>3. CASE AwaitRelease(m)
    BY <1>1, <2>3, EpochElsewhere DEF AwaitRelease, Hears, Clear, capture
  <2>4. QED
    BY <1>11, <2>1, <2>2, <2>3
<1>12. QED
  BY <1>2, <1>3, <1>4, <1>5, <1>6, <1>7, <1>8, <1>9, <1>10, <1>11
  DEF Next, Run, HandleNext, Await

\* A recovery ends the control of whoever had it before: when run takes a command, the owner
\* has sent its acquire since the last recovery that run knows of.
THEOREM RecoveryEndsControl == Spec => []PauseEndsControl
<1>1. Init => InEpoch
  BY DEF Init, InEpoch, PauseEndsControl
<1>2. EpochInv /\ [Next]_vars => InEpoch'
  <2>1. InEpoch /\ UNCHANGED vars => InEpoch'
    BY DEF InEpoch, PauseEndsControl, vars, bridge, fields, capture
  <2>2. QED
    BY <2>1, EpochKept DEF EpochInv
<1>3. InEpoch => PauseEndsControl
  BY DEF InEpoch
<1>4. SocketInv => Typed /\ InHand
  BY DEF SocketInv
<1>5. QED
  BY <1>1, <1>2, <1>3, <1>4, SocketAlways, PTL DEF Spec, EpochInv

-----------------------------------------------------------------------------
(* The invariant for releases: a release is the last thing a browser says, until it has     *)
(* heard that it released, which is the last thing it is told.                              *)

ReleaseQueued(c) ==
    \A i \in DOMAIN queue : queue[i].client = c /\ queue[i].type = "release" =>
        /\ state[c] \in {"releasing", "closed"}
        /\ \A j \in DOMAIN queue : queue[j].client = c => j <= i
        /\ \A j \in DOMAIN down[c] : down[c][j].type # "released"
        /\ then # "asked" \/ cur.client # c

ReleaseInHand(c) ==
    then = "asked" /\ cur.client = c =>
        /\ state[c] \in {"releasing", "closed"}
        /\ \A j \in DOMAIN queue : queue[j].client # c
        /\ \A j \in DOMAIN down[c] : down[c][j].type # "released"

ReleaseTold(c) ==
    \A i \in DOMAIN down[c] : down[c][i].type = "released" =>
        /\ state[c] = "releasing" /\ i = Len(down[c])
        /\ owner # c
        /\ \A j \in DOMAIN queue : queue[j].client # c

ClosedHearsNothing(c) == state[c] = "closed" => down[c] = <<>>

BarrierOf(c) ==
    /\ state[c] = "idle" => /\ owner # c
                            /\ \A i \in DOMAIN queue : queue[i].client # c
                            /\ down[c] = <<>>
    /\ ReleaseQueued(c) /\ ReleaseInHand(c) /\ ReleaseTold(c) /\ ClosedHearsNothing(c)

Barrier == \A c \in Clients : BarrierOf(c)

\* A step of somebody else, who may queue a command of its own.
LEMMA BarrierElsewhere ==
    ASSUME Typed, NEW c \in Clients, BarrierOf(c),
           state'[c] = state[c], down'[c] = down[c], UNCHANGED <<owner, then, cur>>,
           queue' = queue \/ \E x \in Command : x.client # c /\ queue' = Append(queue, x)
    PROVE  BarrierOf(c)'
<1>1. queue \in Seq(Command)
  BY DEF Typed, TypeOK
<1>2. CASE queue' = queue
  BY <1>2
  DEF BarrierOf, ReleaseQueued, ReleaseInHand, ReleaseTold, ClosedHearsNothing
<1>3. ASSUME NEW x \in Command, x.client # c, queue' = Append(queue, x)
      PROVE  BarrierOf(c)'
  <2>1. \A i \in DOMAIN queue' : queue'[i].client = c => i \in DOMAIN queue /\ queue'[i] = queue[i]
    BY <1>1, <1>3, AppendType
  <2>2. QED
    BY <2>1 DEF BarrierOf, ReleaseQueued, ReleaseInHand, ReleaseTold, ClosedHearsNothing
<1>4. QED
  BY <1>2, <1>3

\* A step of run, which takes commands and tells c anything but that it released.
LEMMA BarrierUntold ==
    ASSUME Typed, NEW c \in Clients, BarrierOf(c), state' = state,
           queue' \in {queue, <<>>} \/ (queue # <<>> /\ queue' = Tail(queue)),
           then' # "asked" \/ cur'.client # c,
           owner' = c => owner = c \/ \E i \in DOMAIN queue : queue[i].client = c,
           \/ down'[c] = down[c]
           \/ /\ owner = c \/ \E i \in DOMAIN queue : queue[i].client = c
              /\ state[c] # "closed"
              /\ \E m \in Messages : m.type # "released" /\ down'[c] = Append(down[c], m)
    PROVE  BarrierOf(c)'
<1> DEFINE Mine == \E i \in DOMAIN queue : queue[i].client = c
<1>1. queue \in Seq(Command) /\ down[c] \in Seq(Messages)
  BY DEF Typed, TypeOK
<1>2. PICK k \in {0, 1} : \A i \in DOMAIN queue' :
        i \in Nat /\ i + k \in DOMAIN queue /\ queue'[i] = queue[i + k]
  <2>1. CASE queue' = queue
    BY <1>1, <2>1
  <2>2. CASE queue' = <<>>
    BY <2>2
  <2>3. CASE queue # <<>> /\ queue' = Tail(queue)
    <3>1. \A i \in DOMAIN queue' : i \in Nat /\ i + 1 \in DOMAIN queue /\ queue'[i] = queue[i + 1]
      BY <1>1, <2>3, TailType
    <3>2. QED
      BY <3>1
  <2>4. QED
    BY <2>1, <2>2, <2>3
<1>3. ASSUME NEW i \in DOMAIN queue', queue'[i].client = c
      PROVE  Mine
  BY <1>2, <1>3
<1>4. ASSUME NEW i \in DOMAIN down'[c], down'[c][i].type = "released"
      PROVE  i \in DOMAIN down[c] /\ down[c][i].type = "released" /\ down'[c] = down[c]
  <2>1. CASE down'[c] = down[c]
    BY <1>4, <2>1
  <2>2. ASSUME NEW m \in Messages, m.type # "released", down'[c] = Append(down[c], m),
               owner = c \/ Mine
        PROVE  FALSE
    <3>1. i \in 1..Len(down[c]) /\ down[c][i].type = "released"
      BY <1>1, <1>4, <2>2, AppendType
    <3>2. QED
      BY <1>1, <2>2, <3>1 DEF BarrierOf, ReleaseTold
  <2>3. QED
    BY <2>1, <2>2
<1>5. state'[c] = "idle" =>
        owner' # c /\ (\A i \in DOMAIN queue' : queue'[i].client # c) /\ down'[c] = <<>>
  BY <1>3 DEF BarrierOf
<1>6. ReleaseQueued(c)'
  <2> SUFFICES ASSUME NEW i \in DOMAIN queue', queue'[i].client = c, queue'[i].type = "release"
               PROVE  /\ state'[c] \in {"releasing", "closed"}
                      /\ \A j \in DOMAIN queue' : queue'[j].client = c => j <= i
                      /\ \A j \in DOMAIN down'[c] : down'[c][j].type # "released"
                      /\ then' # "asked" \/ cur'.client # c
    BY DEF ReleaseQueued
  <2>1. i \in Nat /\ i + k \in DOMAIN queue /\ queue'[i] = queue[i + k]
    BY <1>2
  <2>2. /\ state[c] \in {"releasing", "closed"}
        /\ \A j \in DOMAIN queue : queue[j].client = c => j <= i + k
        /\ \A j \in DOMAIN down[c] : down[c][j].type # "released"
    BY <2>1 DEF BarrierOf, ReleaseQueued
  <2>3. \A j \in DOMAIN queue' : queue'[j].client = c => j <= i
    BY <1>2, <2>1, <2>2
  <2>4. QED
    BY <1>4, <2>2, <2>3
<1>7. ReleaseInHand(c)'
  BY DEF ReleaseInHand
<1>8. ReleaseTold(c)'
  BY <1>3, <1>4 DEF BarrierOf, ReleaseTold
<1>9. ClosedHearsNothing(c)'
  BY DEF BarrierOf, ClosedHearsNothing
<1>10. QED
  BY <1>5, <1>6, <1>7, <1>8, <1>9 DEF BarrierOf

\* A step of run, which tells c that it released: nothing else of c is left.
LEMMA BarrierTold ==
    ASSUME Typed, NEW c \in Clients, state' = state, state[c] \in {"releasing", "closed"},
           \A i \in DOMAIN down[c] : down[c][i].type # "released",
           \A i \in DOMAIN queue' : queue'[i].client # c,
           ClosedHearsNothing(c), owner' # c, then' # "asked",
           down' = Told(c, Message("released", 0, 0))
    PROVE  BarrierOf(c)'
<1> DEFINE m == Message("released", 0, 0)
<1>1. m \in Messages
  BY Zeros, MessageType
<1>2. c # None /\ down \in [Clients -> Seq(Messages)] /\ down[c] \in Seq(Messages)
  BY BridgeAssumption DEF Typed, TypeOK
<1>3. down'[c] = down[c] \/ (state[c] # "closed" /\ down'[c] = Append(down[c], m))
  BY <1>2 DEF Told
<1> HIDE DEF m
<1>4. \A i \in DOMAIN down'[c] :
        down'[c][i].type = "released" => state[c] # "closed" /\ i = Len(down'[c])
  BY <1>1, <1>2, <1>3, AppendType
<1>5. ReleaseTold(c)'
  BY <1>4 DEF ReleaseTold
<1>6. ClosedHearsNothing(c)'
  BY <1>2 DEF Told, ClosedHearsNothing
<1>7. QED
  BY <1>5, <1>6 DEF BarrierOf, ReleaseQueued, ReleaseInHand

\* A browser with nothing released on its way: the states in which it can submit.
LEMMA NothingReleased ==
    ASSUME NEW c \in Clients, BarrierOf(c), state[c] \notin {"releasing", "closed"}
    PROVE  /\ \A i \in DOMAIN queue : queue[i].client = c => queue[i].type # "release"
           /\ \A i \in DOMAIN down[c] : down[c][i].type # "released"
           /\ then # "asked" \/ cur.client # c
BY DEF BarrierOf, ReleaseQueued, ReleaseInHand, ReleaseTold

LEMMA BarrierSubmit ==
    ASSUME Typed, InHand, NEW c \in Clients, BarrierOf(c), UNCHANGED bridge,
           state[c] \notin {"releasing", "closed"}, state'[c] \notin {"idle", "closed"},
           NEW type \in {"acquire", "event", "release"}, NEW gen \in Grants,
           NEW seq \in 0..MaxEvents, Submit(c, type, gen, seq),
           type = "release" => state'[c] = "releasing"
    PROVE  BarrierOf(c)'
<1> DEFINE cmd == [client |-> c, type |-> type, gen |-> gen, seq |-> seq, epoch |-> epoch]
<1>1. /\ queue \in Seq(Command) /\ down[c] \in Seq(Messages) /\ cmd \in Command /\ c # None
      /\ down \in [Clients -> Seq(Messages)]
  BY BridgeAssumption DEF Typed, TypeOK, Command, Numbers
<1>2. \A i \in DOMAIN down'[c] : down'[c][i].type # "released"
  <2>1. CASE down' = down
    BY <2>1, NothingReleased
  <2>2. CASE down' = Told(c, Unavailable)
    <3>1. down'[c] = Append(down[c], Unavailable)
      BY <1>1, <2>2 DEF Told
    <3>2. Unavailable \in Messages /\ Unavailable.type # "released"
      BY Zeros DEF Unavailable, Message
    <3>3. QED
      BY <1>1, <3>1, <3>2, AppendType, NothingReleased
  <2>3. QED
    BY <2>1, <2>2 DEF Submit
<1>3. ASSUME NEW i \in DOMAIN queue', queue'[i].client = c, queue'[i].type = "release"
      PROVE  state'[c] = "releasing" /\ \A j \in DOMAIN queue' : j <= i
  <2>1. CASE queue' = queue
    BY <1>3, <2>1, NothingReleased
  <2>2. CASE queue' = Append(queue, cmd)
    <3>1. i = Len(queue) + 1
      BY <1>1, <1>3, <2>2, AppendType, NothingReleased
    <3>2. type = "release"
      BY <1>1, <1>3, <2>2, <3>1, AppendType
    <3>3. QED
      BY <1>1, <2>2, <3>1, <3>2, AppendType
  <2>3. QED
    BY <2>1, <2>2 DEF Submit
<1>4. then' # "asked" \/ cur'.client # c
  BY NothingReleased DEF bridge
<1>5. QED
  BY <1>2, <1>3, <1>4
  DEF BarrierOf, ReleaseQueued, ReleaseInHand, ReleaseTold, ClosedHearsNothing

LEMMA EventNumber ==
    ASSUME Typed, NEW c \in Clients, mine[c].seq < MaxEvents
    PROVE  mine[c].gen \in Grants /\ mine[c].seq + 1 \in 0..MaxEvents
<1>1. mine[c] \in [gen : Grants, seq : Numbers]
  BY DEF Typed, TypeOK
<1>2. QED
  BY <1>1, BridgeAssumption DEF Numbers

\* A browser that hears something, and what it does about it.
LEMMA BarrierReceive ==
    ASSUME Typed, NEW c \in Clients, BarrierOf(c), Receive(c)
    PROVE  BarrierOf(c)'
<1> DEFINE m == Head(down[c])
<1>1. /\ down[c] \in Seq(Messages) /\ down[c] # <<>> /\ state[c] \notin {"closed", "idle"}
      /\ down \in [Clients -> Seq(Messages)]
      /\ down'[c] = IF state'[c] = "closed" THEN <<>> ELSE Tail(down[c])
  BY DEF Receive, Typed, TypeOK, BarrierOf
<1>2. /\ m = down[c][1] /\ 1 \in DOMAIN down[c] /\ DOMAIN down[c] = 1..Len(down[c])
      /\ Len(down[c]) \in Nat /\ Tail(down[c]) \in Seq(Messages)
      /\ DOMAIN Tail(down[c]) = 1..Len(down[c]) - 1 /\ Len(Tail(down[c])) = Len(down[c]) - 1
      /\ \A i \in 1..Len(down[c]) - 1 : Tail(down[c])[i] = down[c][i + 1]
  BY <1>1, TailType
<1>3. UNCHANGED <<owner, then, cur, queue>> /\ DOMAIN state = Clients
  <2>1. DOMAIN state = Clients
    BY DEF Typed, TypeOK
  <2>2. UNCHANGED <<owner, then, cur, queue>>
    BY DEF Receive, bridge, fields
  <2>3. QED
    BY <2>1, <2>2
<1>4. CASE m.type = "released"
  <2>1. /\ state[c] = "releasing" /\ Len(down[c]) = 1 /\ owner # c
        /\ \A j \in DOMAIN queue : queue[j].client # c
        /\ then # "asked" \/ cur.client # c
    BY <1>2, <1>4 DEF BarrierOf, ReleaseTold, ReleaseInHand
  <2>2. Tail(down[c]) = <<>>
    BY <1>2, <2>1
  <2>3. QED
    BY <1>1, <1>3, <2>1, <2>2
    DEF BarrierOf, ReleaseQueued, ReleaseInHand, ReleaseTold, ClosedHearsNothing
<1>5. CASE state[c] = "releasing" /\ m.type # "released"
  <2>1. state' = state
    BY <1>5 DEF Receive, Takes, Rejects
  <2>2. down'[c] = Tail(down[c])
    BY <1>1, <1>5, <2>1
  <2>3. ASSUME NEW i \in DOMAIN down'[c], down'[c][i].type = "released"
        PROVE  i + 1 \in DOMAIN down[c] /\ down[c][i + 1].type = "released" /\ i \in Nat
    BY <1>2, <2>2, <2>3
  <2>4. ReleaseTold(c)'
    BY <1>2, <1>3, <2>1, <2>2, <2>3 DEF BarrierOf, ReleaseTold
  <2>5. ReleaseQueued(c)' /\ ReleaseInHand(c)'
    BY <1>3, <2>1, <2>3 DEF BarrierOf, ReleaseQueued, ReleaseInHand
  <2>6. QED
    BY <1>5, <2>1, <2>4, <2>5 DEF BarrierOf, ClosedHearsNothing
<1>6. CASE state[c] # "releasing" /\ m.type # "released"
  <2>1. /\ \A i \in DOMAIN queue : queue[i].client = c => queue[i].type # "release"
        /\ \A i \in DOMAIN down[c] : down[c][i].type # "released"
        /\ then # "asked" \/ cur.client # c
    BY <1>1, <1>6, NothingReleased
  <2>2. \A i \in DOMAIN down'[c] : down'[c][i].type # "released"
    BY <1>1, <1>2, <2>1
  <2>3. state'[c] # "idle"
    BY <1>1, <1>3, <1>6 DEF Receive, To
  <2>4. QED
    BY <1>1, <1>3, <2>1, <2>2, <2>3
    DEF BarrierOf, ReleaseQueued, ReleaseInHand, ReleaseTold, ClosedHearsNothing
<1>7. QED
  BY <1>4, <1>5, <1>6

LEMMA BarrierBrowse ==
    ASSUME Typed, InHand, NEW c \in Clients, BarrierOf(c), NEW d \in Clients, Browse(d)
    PROVE  BarrierOf(c)'
<1>1. UNCHANGED <<owner, then, cur>> /\ UNCHANGED bridge
  BY DEF Browse, Acquire, SendEvent, Release, Fail, ChannelClosed, Receive, bridge, fields
<1>2. DOMAIN state = Clients /\ down \in [Clients -> Seq(Messages)]
  BY DEF Typed, TypeOK
<1>3. ASSUME c # d
      PROVE  BarrierOf(c)'
  <2>1. state'[c] = state[c]
    BY <1>2, <1>3
    DEF Browse, Acquire, SendEvent, Release, Fail, ChannelClosed, Receive, To, browsers
  <2>2. down'[c] = down[c]
    BY <1>2, <1>3
    DEF Browse, Acquire, SendEvent, Release, Fail, ChannelClosed, Receive, Submit, Told
  <2>3. queue' = queue \/ \E x \in Command : x.client # c /\ queue' = Append(queue, x)
    <3>1. ASSUME NEW t \in {"acquire", "event", "release"}, NEW g \in Grants,
                 NEW n \in 0..MaxEvents, Submit(d, t, g, n)
          PROVE  queue' = queue \/ \E x \in Command : x.client # c /\ queue' = Append(queue, x)
      <4> DEFINE x == [client |-> d, type |-> t, gen |-> g, seq |-> n, epoch |-> epoch]
      <4>1. x \in Command /\ x.client # c
        BY <1>3, BridgeAssumption DEF Command, Numbers, Typed, TypeOK
      <4>2. queue' = queue \/ queue' = Append(queue, x)
        BY <3>1 DEF Submit
      <4>3. QED
        BY <4>1, <4>2
    <3>2. 0 \in Grants /\ 0 \in 0..MaxEvents
      BY BridgeAssumption DEF Grants
    <3>3. CASE Acquire(d) \/ Release(d)
      BY <3>1, <3>2, <3>3 DEF Acquire, Release
    <3>4. CASE SendEvent(d)
      <4>1. mine[d].gen \in Grants /\ mine[d].seq + 1 \in 0..MaxEvents
        BY <3>4, EventNumber DEF SendEvent
      <4>2. QED
        BY <3>1, <3>4, <4>1 DEF SendEvent
    <3>5. CASE Fail(d) \/ ChannelClosed(d) \/ Receive(d)
      BY <3>5 DEF Fail, ChannelClosed, Receive
    <3>6. QED
      BY <3>3, <3>4, <3>5 DEF Browse
  <2>4. QED
    BY <1>1, <2>1, <2>2, <2>3, BarrierElsewhere
<1>4. CASE c = d
  <2>1. CASE Acquire(c)
    BY <1>1, <1>2, <2>1, BarrierSubmit, Zeros, BridgeAssumption DEF Acquire, To
  <2>2. CASE SendEvent(c)
    <3>1. mine[c].gen \in Grants /\ mine[c].seq + 1 \in 0..MaxEvents
      BY <2>2, EventNumber DEF SendEvent
    <3>2. QED
      BY <1>1, <2>2, <3>1, BarrierSubmit DEF SendEvent
  <2>3. CASE Release(c)
    BY <1>1, <1>2, <2>3, BarrierSubmit, Zeros, BridgeAssumption DEF Release, To
  <2>4. CASE Fail(c)
    <3>1. state'[c] = "closed" /\ down'[c] = <<>> /\ queue' = queue
      BY <1>2, <2>4 DEF Fail, To
    <3>2. QED
      BY <1>1, <3>1
      DEF BarrierOf, ReleaseQueued, ReleaseInHand, ReleaseTold, ClosedHearsNothing
  <2>5. CASE ChannelClosed(c)
    BY <1>1, <2>5, BarrierElsewhere DEF ChannelClosed, browsers
  <2>6. CASE Receive(c)
    BY <2>6, BarrierReceive
  <2>7. QED
    BY <1>4, <2>1, <2>2, <2>3, <2>4, <2>5, <2>6 DEF Browse
<1>5. QED
  BY <1>3, <1>4

\* What c hears when run tells d.
LEMMA ToldTo ==
    ASSUME Typed, NEW c \in Clients, NEW d, NEW m, down' = Told(d, m)
    PROVE  \/ down'[c] = down[c]
           \/ c = d /\ state[c] # "closed" /\ down'[c] = Append(down[c], m)
<1>1. down \in [Clients -> Seq(Messages)]
  BY DEF Typed, TypeOK
<1>2. QED
  BY <1>1 DEF Told

LEMMA BarrierHandle ==
    ASSUME Typed, InHand, NEW c \in Clients, BarrierOf(c), NEW cmd,
           \/ Drop(cmd) \/ HandleLocally(cmd) \/ HandleAcquire(cmd)
           \/ HandleEvent(cmd) \/ HandleRelease(cmd)
    PROVE  BarrierOf(c)'
<1>1. /\ Handle(cmd) /\ state' = state
      /\ queue \in Seq(Command) /\ queue # <<>> /\ cmd = Head(queue) /\ queue' = Tail(queue)
      /\ then = "none"
  BY DEF Drop, HandleLocally, HandleAcquire, HandleEvent, HandleRelease, Handle, browsers,
      Typed, TypeOK, Reasoned
<1>2. /\ cmd \in Command /\ 1 \in DOMAIN queue /\ queue[1] = cmd
      /\ \A i \in DOMAIN queue' : i \in Nat \ {0} /\ i + 1 \in DOMAIN queue
                                  /\ queue'[i] = queue[i + 1]
  BY <1>1, TailType
<1>3. Unavailable \in Messages /\ Unavailable.type # "released"
  BY Zeros DEF Unavailable, Message
<1>4. CASE Drop(cmd)
  BY <1>1, <1>4, BarrierUntold DEF Drop, Loop, held
<1>5. CASE HandleLocally(cmd)
  <2>1. owner' = owner /\ then' = "none"
    BY <1>5 DEF HandleLocally, Loop, held
  <2>2. CASE down' = Told(cmd.client, Unavailable)
    BY <1>1, <1>2, <1>3, <2>1, <2>2, ToldTo, BarrierUntold
  <2>3. CASE cmd.client # c
    <3>1. down'[c] = down[c]
      BY <1>5, <2>3, ToldTo DEF HandleLocally
    <3>2. QED
      BY <1>1, <2>1, <3>1, BarrierUntold
  <2>4. CASE /\ cmd.type = "release" /\ cmd.client # owner /\ cmd.client = c
             /\ down' = Told(cmd.client, Message("released", 0, 0))
    <3>1. /\ state[c] \in {"releasing", "closed"}
          /\ \A j \in DOMAIN queue : queue[j].client = c => j <= 1
          /\ \A j \in DOMAIN down[c] : down[c][j].type # "released"
      BY <1>2, <2>4 DEF BarrierOf, ReleaseQueued
    <3>2. \A i \in DOMAIN queue' : queue'[i].client # c
      BY <1>2, <3>1
    <3>3. ClosedHearsNothing(c)
      BY DEF BarrierOf
    <3>4. QED
      BY <1>1, <2>1, <2>4, <3>1, <3>2, <3>3, BarrierTold
  <2>5. QED
    BY <1>5, <2>2, <2>3, <2>4 DEF HandleLocally
<1>6. CASE HandleAcquire(cmd)
  <2>1. owner' = cmd.client /\ then' = "none" /\ down' = down
    BY <1>1, <1>6 DEF HandleAcquire, Waits
  <2>2. QED
    BY <1>1, <1>2, <2>1, BarrierUntold
<1>7. CASE HandleEvent(cmd)
  <2>1. owner' = owner /\ then' = "none" /\ down' = down
    BY <1>1, <1>7 DEF HandleEvent, Waits, Loop
  <2>2. QED
    BY <1>1, <2>1, BarrierUntold
<1>8. CASE HandleRelease(cmd)
  <2>1. owner' = owner /\ down' = down /\ cur' = cmd /\ then' = "asked"
        /\ cmd.type = "release" /\ cmd.client = owner
    BY <1>8 DEF HandleRelease, SendRelease, held
  <2>2. CASE cmd.client # c
    BY <1>1, <2>1, <2>2, BarrierUntold
  <2>3. CASE cmd.client = c
    <3>1. /\ state[c] \in {"releasing", "closed"}
          /\ \A j \in DOMAIN queue : queue[j].client = c => j <= 1
          /\ \A j \in DOMAIN down[c] : down[c][j].type # "released"
      BY <1>2, <2>1, <2>3 DEF BarrierOf, ReleaseQueued
    <3>2. \A i \in DOMAIN queue' : queue'[i].client # c
      BY <1>2, <3>1
    <3>3. QED
      BY <1>1, <2>1, <3>1, <3>2
      DEF BarrierOf, ReleaseQueued, ReleaseInHand, ReleaseTold, ClosedHearsNothing
  <2>4. QED
    BY <2>2, <2>3
<1>9. QED
  BY <1>4, <1>5, <1>6, <1>7, <1>8

LEMMA BarrierAwait ==
    ASSUME Typed, InHand, NEW c \in Clients, BarrierOf(c), NEW m,
           AwaitAcquire(m) \/ AwaitAck(m) \/ AwaitRelease(m)
    PROVE  BarrierOf(c)'
<1>1. /\ state' = state /\ queue' = queue /\ m \in Messages
      /\ run \in {"acquire", "event", "release"}
  BY TailType
  DEF AwaitAcquire, AwaitAck, AwaitRelease, Hears, browsers, Typed, TypeOK
<1>2. Unavailable \in Messages /\ Unavailable.type # "released"
  BY Zeros DEF Unavailable, Message
<1>3. CASE AwaitAcquire(m)
  <2>1. then = "none" /\ then' # "asked"
    BY <1>3 DEF AwaitAcquire, Hears, SendRelease, Loop, Typed, Reasoned
  <2>2. owner' \in {None, owner} /\ None # c
    BY <1>3, BridgeAssumption DEF AwaitAcquire, Clear, fields
  <2>3. \/ down' = down
        \/ down' = Told(owner, Unavailable)
        \/ m.type # "released" /\ down' = Told(owner, m)
    BY <1>3 DEF AwaitAcquire
  <2>4. QED
    BY <1>1, <1>2, <2>1, <2>2, <2>3, ToldTo, BarrierUntold
<1>4. CASE AwaitAck(m)
  <2>1. then' # "asked"
    BY <1>4 DEF AwaitAck, Loop
  <2>2. owner' \in {None, owner} /\ None # c
    BY <1>4, BridgeAssumption DEF AwaitAck, Clear, fields
  <2>3. \/ down' = Told(owner, Unavailable)
        \/ m.type # "released" /\ down' = Told(owner, m)
    BY <1>4 DEF AwaitAck
  <2>4. QED
    BY <1>1, <1>2, <2>1, <2>2, <2>3, ToldTo, BarrierUntold
<1>5. CASE AwaitRelease(m)
  <2>1. run = "release" /\ then' = "none" /\ owner' = None /\ None # c /\ down' = Afterwards
    BY <1>5, BridgeAssumption DEF AwaitRelease, Hears, Loop, Clear
  <2>2. then \in {"pause", "gone", "asked", "late"}
    BY <2>1 DEF Typed, TypeOK, Reasoned
  <2>3. then \in {"asked", "late"} => cur.client = owner
    BY <2>1 DEF InHand
  <2>4. CASE down' = down \/ down' = Told(owner, Unavailable)
    BY <1>1, <1>2, <2>1, <2>4, ToldTo, BarrierUntold
  <2>5. CASE then = "asked" /\ cur.client # c
    <3>1. down'[c] = down[c]
      BY <2>1, <2>5, ToldTo DEF Afterwards
    <3>2. QED
      BY <1>1, <2>1, <3>1, BarrierUntold
  <2>6. CASE then = "asked" /\ cur.client = c
    <3>1. /\ state[c] \in {"releasing", "closed"}
          /\ \A i \in DOMAIN queue' : queue'[i].client # c
          /\ \A j \in DOMAIN down[c] : down[c][j].type # "released"
      BY <1>1, <2>6 DEF BarrierOf, ReleaseInHand
    <3>2. down' = Told(c, Message("released", 0, 0))
      BY <2>1, <2>6 DEF Afterwards
    <3>3. ClosedHearsNothing(c)
      BY DEF BarrierOf
    <3>4. QED
      BY <1>1, <2>1, <3>1, <3>2, <3>3, BarrierTold
  <2>7. then # "asked" => down' = down \/ down' = Told(owner, Unavailable)
    BY <2>1, <2>2, <2>3 DEF Afterwards
  <2>8. QED
    BY <2>4, <2>5, <2>6, <2>7
<1>6. QED
  BY <1>3, <1>4, <1>5

LEMMA BarrierKept ==
    ASSUME Typed, InHand, Barrier, Next
    PROVE  Barrier'
<1> SUFFICES ASSUME NEW c \in Clients PROVE BarrierOf(c)'
  BY DEF Barrier
<1>1. BarrierOf(c) /\ None # c
  BY BridgeAssumption DEF Barrier
<1>2. ASSUME NEW d \in Clients, Browse(d) PROVE BarrierOf(c)'
  BY <1>1, <1>2, BarrierBrowse
<1>3. CASE Pause \/ NextEpoch \/ Resume \/ ServeIdle \/ ServeControl \/ Expire \/ Leave
  BY <1>1, <1>3, BarrierElsewhere
  DEF Pause, NextEpoch, Resume, ServeIdle, ServeControl, Expire, Leave, browsers, bridge,
      fields
<1>4. CASE Top \/ Turn
  <2>1. UNCHANGED <<state, queue, owner, down>> /\ then' # "asked"
    BY <1>4 DEF Top, Turn, SendRelease, Loop, browsers, held, fields
  <2>2. QED
    BY <1>1, <2>1, BarrierUntold
<1>5. CASE Expired \/ Stop
  <2>1. /\ state' = state /\ queue' \in {queue, <<>>} /\ owner' = None /\ then' = "none"
        /\ down' = Told(owner, Unavailable)
    BY <1>5 DEF Expired, Stop, End, Clear, Loop, browsers
  <2>2. Unavailable \in Messages /\ Unavailable.type # "released"
    BY Zeros DEF Unavailable, Message
  <2>3. QED
    BY <1>1, <2>1, <2>2, ToldTo, BarrierUntold
<1>6. CASE HandleNext
  BY <1>1, <1>6, BarrierHandle DEF HandleNext
<1>7. CASE Await
  BY <1>1, <1>7, BarrierAwait DEF Await
<1>8. QED
  BY <1>2, <1>3, <1>4, <1>5, <1>6, <1>7 DEF Next, Run

LEMMA BarrierAtFirst == Init => Barrier
<1> SUFFICES ASSUME Init PROVE Barrier
  OBVIOUS
<1>1. DOMAIN queue = {} /\ then = "none" /\ None \notin Clients /\ owner = None
  BY BridgeAssumption DEF Init
<1>2. down = [d \in Clients |-> <<>>] /\ state = [d \in Clients |-> "idle"]
  BY DEF Init
<1>3. QED
  BY <1>1, <1>2
  DEF Barrier, BarrierOf, ReleaseQueued, ReleaseInHand, ReleaseTold, ClosedHearsNothing

\* Once a browser has heard that it released, nothing of its control is left on the way: it
\* can ask again, and what it is told then is about what it asked then.
THEOREM ReleaseBarrier == Spec => []ReleaseIsBarrier
<1>1. Typed /\ InHand /\ Barrier /\ [Next]_vars => Barrier'
  <2>1. Barrier /\ UNCHANGED vars => Barrier'
    BY DEF Barrier, BarrierOf, ReleaseQueued, ReleaseInHand, ReleaseTold, ClosedHearsNothing,
        vars, browsers, bridge, fields
  <2>2. QED
    BY <2>1, BarrierKept
<1>2. Barrier => ReleaseIsBarrier
  BY DEF Barrier, BarrierOf, ReleaseIsBarrier
<1>3. SocketInv => Typed /\ InHand
  BY DEF SocketInv
<1>4. QED
  BY <1>1, <1>2, <1>3, BarrierAtFirst, SocketAlways, PTL DEF Spec

-----------------------------------------------------------------------------
(* The invariant for browsers that go away: an owner that run was late for is still gone. *)

Overdue ==
    /\ overdue => owner \in gone
    /\ run = "select" => ~overdue

\* A step that leaves run where it is, and its owner, or ends the control, or turns run away
\* from its select without having been there.
LEMMA OverdueElsewhere ==
    ASSUME Overdue, gone \subseteq gone',
           ~overdue' \/ (overdue' = overdue /\ owner' = owner),
           run' = run \/ run' # "select" \/ ~overdue'
    PROVE  Overdue'
BY DEF Overdue

LEMMA OverdueKept ==
    ASSUME Typed, Overdue, Next
    PROVE  Overdue'
<1>1. ASSUME NEW c \in Clients, Browse(c)
      PROVE  Overdue'
  <2>1. gone \subseteq gone'
    BY <1>1 DEF Browse, Acquire, SendEvent, Release, Fail, ChannelClosed, Receive, Submit
  <2>2. UNCHANGED <<run, owner, overdue>>
    BY <1>1
    DEF Browse, Acquire, SendEvent, Release, Fail, ChannelClosed, Receive, bridge, fields
  <2>3. QED
    BY <2>1, <2>2, OverdueElsewhere
<1>2. CASE Pause \/ NextEpoch \/ Resume \/ ServeIdle \/ ServeControl \/ Expire \/ Leave
  BY <1>2, OverdueElsewhere
  DEF Pause, NextEpoch, Resume, ServeIdle, ServeControl, Expire, Leave, bridge, fields
<1>3. CASE Top
  <2>1. UNCHANGED <<gone, owner, overdue>> /\ run' \in {"release", "select"}
    BY <1>3 DEF Top, SendRelease, Loop, fields
  <2>2. run' = "select" => owner \notin gone
    <3>1. None \notin gone
      BY BridgeAssumption DEF Typed, TypeOK
    <3>2. QED
      BY <1>3, <3>1 DEF Top, SendRelease
  <2>3. QED
    BY <2>1, <2>2 DEF Overdue
<1>4. CASE Turn
  BY <1>4 DEF Turn, Loop, held, Overdue
<1>5. CASE Expired \/ Stop
  BY <1>5, OverdueElsewhere DEF Expired, Stop, End, Clear
<1>6. ASSUME NEW cmd, HandleAcquire(cmd)
      PROVE  Overdue'
  <2>1. run = "select" /\ owner = None /\ None \notin gone
    BY <1>6, BridgeAssumption
    DEF HandleAcquire, Handle, Refused, Typed, TypeOK
  <2>2. ~overdue' /\ run' = "acquire"
    BY <1>6, <2>1 DEF HandleAcquire, Handle, Waits
  <2>3. QED
    BY <2>2 DEF Overdue
<1>7. ASSUME NEW cmd,
             Drop(cmd) \/ HandleLocally(cmd) \/ HandleEvent(cmd) \/ HandleRelease(cmd)
      PROVE  Overdue'
  <2>1. /\ gone \subseteq gone' /\ owner' = owner /\ overdue' = (owner \in gone)
        /\ run' # "select"
    BY <1>7
    DEF Drop, HandleLocally, HandleEvent, HandleRelease, Handle, Loop, Waits, SendRelease, held
  <2>2. QED
    BY <2>1 DEF Overdue
<1>8. ASSUME NEW m, AwaitAcquire(m) \/ AwaitAck(m) \/ AwaitRelease(m)
      PROVE  Overdue'
  <2>1. gone' = gone
    BY <1>8 DEF AwaitAcquire, AwaitAck, AwaitRelease, Hears
  <2>2. \/ ~overdue'
        \/ overdue' = overdue /\ owner' = owner /\ run' # "select"
    BY <1>8
    DEF AwaitAcquire, AwaitAck, AwaitRelease, Hears, Loop, SendRelease, Clear, fields
  <2>3. QED
    BY <2>1, <2>2, OverdueElsewhere
<1>9. QED
  BY <1>1, <1>2, <1>3, <1>4, <1>5, <1>6, <1>7, <1>8 DEF Next, Run, HandleNext, Await

\* A browser that went away loses control: when run takes a command, its owner was not gone
\* already when it took the one before, and the daemon has no control that is nobody's.
THEOREM OwnerGoneIsReleased == Spec => []GoneOwnerLoses
<1>1. Init => Overdue
  BY DEF Init, Overdue
<1>2. Typed /\ Overdue /\ [Next]_vars => Overdue'
  <2>1. Overdue /\ UNCHANGED vars => Overdue'
    BY DEF Overdue, vars, bridge, fields
  <2>2. QED
    BY <2>1, OverdueKept
<1>3. Typed /\ ControlAgrees /\ Overdue => GoneOwnerLoses
  BY DEF Typed, TypeOK, ControlAgrees, Overdue, GoneOwnerLoses
<1>4. QED
  BY <1>1, <1>2, <1>3, TypedAlways, BridgeAndDaemonAgree, PTL DEF Spec

=============================================================================
