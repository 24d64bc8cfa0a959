--------------------------- MODULE TerminalProofs ---------------------------
(***************************************************************************)
(* Proofs about Terminal, for every number of callers and every limit.     *)
(* What every step that touches the history does is said once, by          *)
(* ExpireFacts and DrainFacts; the invariants follow action by action.     *)
(***************************************************************************)
EXTENDS Terminal, TLAPS

\* The numbers of the history are in order.
Ordered ==
    /\ earliest <= latest + 1 /\ delivered <= latest
    /\ \A v \in Viewers : reached[v] <= latest

\* How the tty, the child and its announced exit go together.
Closing ==
    /\ exit # NoExit <=> shell = "reaped"
    /\ exit = NoExit /\ ~failed => master
    /\ master /\ ~failed => wrote <= latest + pending
    /\ failed => stop

\* Whatever counts as delivered was handed out in a batch.
HandedOut == \A n \in 1..delivered : \E v \in Viewers : n <= reached[v]

Inv ==
    /\ TypeOK /\ Ordered /\ Closing /\ HandedOut
    /\ NothingSilentlyLost /\ AttachedKeepsUp /\ RetentionMatchesAttachment
    /\ ExitIsFinal /\ MonitorLeavesNothing

-----------------------------------------------------------------------------
(* The history *)

\* Whatever is evicted, the history stays in order, and whoever is still attached has been
\* given all that is gone.
LEMMA ExpireFacts ==
    ASSUME TypeOK, RetentionMatchesAttachment,
           NEW a \in [Seqs -> 0..Retention], NEW l \in 0..MaxSequence, earliest <= l + 1,
           Expire(a, l)
    PROVE  /\ earliest' \in 1..MaxSequence + 1 /\ earliest' <= l + 1
           /\ age' \in [Seqs -> 0..Retention]
           /\ attached' \in BOOLEAN /\ retain' \in NoTimer..Retention
           /\ attached' => earliest' <= delivered + 1
           /\ attached' <=> retain' = NoTimer
<1> USE TerminalAssumption DEF Expire
<1>1. earliest' \in earliest..l + 1
  BY DEF Evict
<1>2. earliest' \in 1..MaxSequence + 1 /\ earliest' <= l + 1
  BY <1>1 DEF TypeOK
<1>3. age' \in [Seqs -> 0..Retention]
  <2>1. 0 \in 0..Retention
    OBVIOUS
  <2>2. QED
    BY <2>1 DEF Evict
<1>4. CASE attached /\ earliest' > delivered + 1
  <2>1. attached' = FALSE /\ retain' = Retention
    BY <1>4 DEF Lag
  <2>2. Retention \in NoTimer..Retention /\ Retention # NoTimer
    BY DEF NoTimer
  <2>3. QED
    BY <1>2, <1>3, <2>1, <2>2
<1>5. CASE ~(attached /\ earliest' > delivered + 1)
  <2>1. attached' = attached /\ retain' = retain
    BY <1>5 DEF Lag
  <2>2. attached => earliest' <= delivered + 1
    BY <1>2, <1>5 DEF TypeOK
  <2>3. QED
    BY <1>2, <1>3, <2>1, <2>2 DEF TypeOK, RetentionMatchesAttachment
<1>6. QED
  BY <1>4, <1>5

\* What draining the pty changes.
LEMMA DrainFacts ==
    ASSUME TypeOK, Ordered, RetentionMatchesAttachment, Drain
    PROVE  /\ latest' \in latest..MaxSequence
           /\ earliest' \in 1..MaxSequence + 1 /\ earliest' <= latest' + 1
           /\ age' \in [Seqs -> 0..Retention]
           /\ attached' \in BOOLEAN /\ retain' \in NoTimer..Retention
           /\ attached' => earliest' <= delivered + 1
           /\ attached' <=> retain' = NoTimer
           /\ pending' \in Nat /\ failed' \in BOOLEAN
           /\ failed => failed'
           /\ ~master => latest' = latest
           /\ master /\ ~failed' => latest' = latest + pending
           /\ master /\ ~failed' => ~failed
<1> USE TerminalAssumption
<1>1. ASSUME NEW k \in Nat, latest + k <= MaxSequence, Push(k)
      PROVE  /\ latest' = latest + k /\ latest' \in latest..MaxSequence
             /\ earliest' \in 1..MaxSequence + 1 /\ earliest' <= latest' + 1
             /\ age' \in [Seqs -> 0..Retention]
             /\ attached' \in BOOLEAN /\ retain' \in NoTimer..Retention
             /\ attached' => earliest' <= delivered + 1
             /\ attached' <=> retain' = NoTimer
  <2> DEFINE a == [n \in Seqs |-> IF n > latest /\ n <= latest + k THEN Retention ELSE age[n]]
  <2>1. Expire(a, latest + k) /\ latest' = latest + k
    BY <1>1 DEF Push
  <2>2. Retention \in 0..Retention
    OBVIOUS
  <2>3. a \in [Seqs -> 0..Retention]
    BY <2>2 DEF TypeOK
  <2>4. latest + k \in 0..MaxSequence /\ latest + k \in latest..MaxSequence
    BY <1>1 DEF TypeOK
  <2>5. earliest <= (latest + k) + 1
    BY DEF Ordered, TypeOK
  <2> HIDE DEF a
  <2>6. QED
    BY <2>1, <2>3, <2>4, <2>5, ExpireFacts
<1>2. CASE ~master
  <2>1. Expire(age, latest) /\ UNCHANGED <<latest, failed, pending>>
    BY <1>2 DEF Drain
  <2>2. /\ earliest' \in 1..MaxSequence + 1 /\ earliest' <= latest + 1
        /\ age' \in [Seqs -> 0..Retention]
        /\ attached' \in BOOLEAN /\ retain' \in NoTimer..Retention
        /\ attached' => earliest' <= delivered + 1
        /\ attached' <=> retain' = NoTimer
    BY <2>1, ExpireFacts DEF TypeOK, Ordered
  <2>3. QED
    BY <1>2, <2>1, <2>2 DEF TypeOK
<1>3. CASE master
  <2>1. CASE latest + pending <= MaxSequence /\ Push(pending) /\ pending' = 0 /\ UNCHANGED failed
    BY <1>1, <1>3, <2>1 DEF TypeOK
  <2>2. ASSUME NEW k \in 0..pending, latest + k <= MaxSequence, Push(k),
               pending' = pending - k, failed' = TRUE
        PROVE  /\ latest' \in latest..MaxSequence
               /\ earliest' \in 1..MaxSequence + 1 /\ earliest' <= latest' + 1
               /\ age' \in [Seqs -> 0..Retention]
               /\ attached' \in BOOLEAN /\ retain' \in NoTimer..Retention
               /\ attached' => earliest' <= delivered + 1
               /\ attached' <=> retain' = NoTimer
               /\ pending' \in Nat
    <3>1. k \in Nat /\ pending - k \in Nat
      BY DEF TypeOK
    <3>2. QED
      BY <1>1, <2>2, <3>1
  <2>3. QED
    BY <1>3, <2>1, <2>2 DEF Drain
<1>4. QED
  BY <1>2, <1>3

\* A batch leaves out nothing without saying so.
LEMMA BatchFacts ==
    ASSUME TypeOK, Ordered, NothingSilentlyLost, NEW v \in Viewers, Batch(v),
           earliest' \in 1..MaxSequence + 1, earliest' <= latest + 1, latest' = latest
    PROVE  /\ reached' \in [Viewers -> 0..MaxSequence]
           /\ given' \in [Viewers -> SUBSET Seqs] /\ missed' \in [Viewers -> SUBSET Seqs]
           /\ delivered' = latest
           /\ \A w \in Viewers : reached'[w] <= latest
           /\ NothingSilentlyLost' /\ HandedOut'
<1>1. /\ reached' = [reached EXCEPT ![v] = latest]
      /\ given' = [given EXCEPT ![v] = @ \cup Left(v)]
      /\ missed' = [missed EXCEPT ![v] = @ \cup Missing(v)]
      /\ delivered' = latest
  BY DEF Batch
<1>2. /\ reached' \in [Viewers -> 0..MaxSequence]
      /\ given' \in [Viewers -> SUBSET Seqs] /\ missed' \in [Viewers -> SUBSET Seqs]
      /\ \A w \in Viewers : reached'[w] <= latest
  BY <1>1 DEF TypeOK, Ordered, Missing, Left
<1>3. given'[v] = given[v] \cup Left(v) /\ missed'[v] = missed[v] \cup Missing(v)
  BY <1>1 DEF TypeOK
<1>4. given[v] \cup missed[v] = 1..reached[v] /\ given[v] \cap missed[v] = {}
  BY DEF NothingSilentlyLost
<1>5. reached[v] \in Nat /\ latest \in Nat /\ latest <= MaxSequence /\ reached[v] <= latest
      /\ MaxSequence \in Nat /\ earliest' \in Nat
  BY TerminalAssumption DEF TypeOK, Ordered
<1>6. Left(v) \cup Missing(v) = reached[v] + 1..latest
  BY <1>5 DEF Left, Missing, Seqs
<1>7. Left(v) \cap Missing(v) = {}
  BY <1>5 DEF Left, Missing, Seqs
<1>8. given'[v] \cup missed'[v] = 1..latest
  <2>1. given'[v] \cup missed'[v] = 1..reached[v] \cup (reached[v] + 1..latest)
    BY <1>3, <1>4, <1>6
  <2>2. QED
    BY <1>5, <2>1
<1>9. given'[v] \cap missed'[v] = {}
  <2>1. \A n \in given[v] \cup missed[v] : n \notin Left(v) \cup Missing(v)
    BY <1>4, <1>5, <1>6
  <2>2. QED
    BY <1>3, <1>4, <1>7, <2>1
<1>10. NothingSilentlyLost'
  BY <1>1, <1>8, <1>9 DEF NothingSilentlyLost, TypeOK
<1>11. HandedOut'
  BY <1>1, <1>5 DEF HandedOut, TypeOK
<1>12. QED
  BY <1>1, <1>2, <1>10, <1>11

-----------------------------------------------------------------------------
(* Steps *)

\* What no caller and no clock changes.
LEMMA Quiet ==
    ASSUME Inv,
           UNCHANGED <<latest, lastInput, lastResize, stop, failed, exit, monitor, pty, closing>>,
           earliest' \in 1..MaxSequence + 1, earliest' <= latest + 1,
           age' \in [Seqs -> 0..Retention],
           attached' \in BOOLEAN, retain' \in NoTimer..Retention,
           attached' <=> retain' = NoTimer,
           attached' => earliest' <= delivered' + 1,
           delivered' \in 0..MaxSequence, delivered' <= latest,
           phase' \in [Viewers -> {"idle", "waiting"}],
           reached' \in [Viewers -> 0..MaxSequence], \A v \in Viewers : reached'[v] <= latest,
           given' \in [Viewers -> SUBSET Seqs], missed' \in [Viewers -> SUBSET Seqs],
           NothingSilentlyLost', HandedOut'
    PROVE  Inv'
<1>1. TypeOK'
  BY DEF Inv, TypeOK, pty
<1>2. Ordered'
  BY DEF Ordered
<1>3. Closing'
  BY DEF Inv, Closing, pty
<1>4. AttachedKeepsUp' /\ RetentionMatchesAttachment'
  BY DEF AttachedKeepsUp, RetentionMatchesAttachment
<1>5. ExitIsFinal' /\ MonitorLeavesNothing'
  BY DEF Inv, ExitIsFinal, MonitorLeavesNothing, pty
<1>6. QED
  BY <1>1, <1>2, <1>3, <1>4, <1>5 DEF Inv

LEMMA CallStep == ASSUME Inv, NEW v \in Viewers, Call(v) PROVE Inv'
<1> USE TerminalAssumption
<1>0. /\ TypeOK /\ Ordered /\ NothingSilentlyLost /\ HandedOut
      /\ AttachedKeepsUp /\ RetentionMatchesAttachment
  BY DEF Inv
<1>1. CASE Write(v) \/ Resize(v)
  <2>1. lastInput' \in 0..MaxSequence /\ lastResize' \in 0..MaxSequence
    BY <1>0, <1>1 DEF Write, Resize, TypeOK
  <2>2. UNCHANGED <<replay, stop, failed, exit, monitor, pty, viewers, closing>>
    BY <1>1 DEF Write, Resize
  <2>3. TypeOK'
    BY <1>0, <2>1, <2>2 DEF TypeOK, replay, pty, viewers
  <2>4. QED
    BY <2>2, <2>3 DEF Inv, Ordered, Closing, NothingSilentlyLost, HandedOut, AttachedKeepsUp,
          RetentionMatchesAttachment, ExitIsFinal, MonitorLeavesNothing, replay, pty, viewers
<1>2. CASE Read(v)
  <2>1. UNCHANGED <<latest, lastInput, lastResize, stop, failed, exit, monitor, pty, closing>>
    BY <1>2 DEF Read, numbers
  <2>2. /\ earliest' \in 1..MaxSequence + 1 /\ earliest' <= latest + 1
        /\ age' \in [Seqs -> 0..Retention]
        /\ attached' \in BOOLEAN /\ retain' \in NoTimer..Retention
        /\ attached' => earliest' <= delivered + 1
        /\ attached' <=> retain' = NoTimer
    BY <1>0, <1>2, ExpireFacts DEF Read, TypeOK, Ordered
  <2>3. CASE UNCHANGED <<reached, given, missed, delivered>>
    <3>1. phase' \in [Viewers -> {"idle", "waiting"}]
      BY <1>0, <1>2 DEF Read, viewers, TypeOK
    <3>2. NothingSilentlyLost' /\ HandedOut'
      BY <1>0, <2>3 DEF NothingSilentlyLost, HandedOut
    <3>3. QED
      BY <1>0, <2>1, <2>2, <2>3, <3>1, <3>2, Quiet DEF TypeOK, Ordered
  <2>4. CASE Batch(v) /\ UNCHANGED phase
    <3>1. /\ reached' \in [Viewers -> 0..MaxSequence]
          /\ given' \in [Viewers -> SUBSET Seqs] /\ missed' \in [Viewers -> SUBSET Seqs]
          /\ delivered' = latest
          /\ \A w \in Viewers : reached'[w] <= latest
          /\ NothingSilentlyLost' /\ HandedOut'
      BY <1>0, <2>1, <2>2, <2>4, BatchFacts
    <3>2. QED
      BY <1>0, <2>1, <2>2, <2>4, <3>1, Quiet DEF TypeOK, Ordered
  <2>5. QED
    BY <1>2, <2>3, <2>4 DEF Read, viewers
<1>3. CASE Wake(v)
  <2>1. /\ UNCHANGED <<latest, lastInput, lastResize, stop, failed, exit, monitor, pty, closing>>
        /\ UNCHANGED <<earliest, age, attached, retain>>
    BY <1>3 DEF Wake, numbers
  <2>2. phase' \in [Viewers -> {"idle", "waiting"}]
    BY <1>0, <1>3 DEF Wake, TypeOK
  <2>3. CASE UNCHANGED <<reached, given, missed, delivered>>
    BY <1>0, <2>1, <2>2, <2>3, Quiet
       DEF TypeOK, Ordered, NothingSilentlyLost, HandedOut, AttachedKeepsUp,
           RetentionMatchesAttachment
  <2>4. CASE Batch(v)
    <3>1. /\ reached' \in [Viewers -> 0..MaxSequence]
          /\ given' \in [Viewers -> SUBSET Seqs] /\ missed' \in [Viewers -> SUBSET Seqs]
          /\ delivered' = latest
          /\ \A w \in Viewers : reached'[w] <= latest
          /\ NothingSilentlyLost' /\ HandedOut'
      BY <1>0, <2>1, <2>4, BatchFacts DEF TypeOK, Ordered
    <3>2. QED
      BY <1>0, <2>1, <2>2, <3>1, Quiet DEF TypeOK, Ordered, RetentionMatchesAttachment
  <2>5. QED
    BY <1>3, <2>3, <2>4 DEF Wake
<1>4. CASE Detach(v)
  <2>1. Retention \in NoTimer..Retention /\ Retention # NoTimer
    BY DEF NoTimer
  <2>2. /\ UNCHANGED <<latest, lastInput, lastResize, stop, failed, exit, monitor, pty, closing>>
        /\ UNCHANGED <<earliest, age, delivered, phase, reached, given, missed>>
    BY <1>4 DEF Detach, numbers, viewers
  <2>3. attached' = FALSE /\ retain' \in NoTimer..Retention /\ retain' # NoTimer
    BY <1>0, <1>4, <2>1 DEF Detach, TypeOK, RetentionMatchesAttachment
  <2>4. QED
    BY <1>0, <2>2, <2>3, Quiet DEF TypeOK, Ordered, NothingSilentlyLost, HandedOut
<1>5. CASE Resume(v)
  <2>1. UNCHANGED <<latest, lastInput, lastResize, stop, failed, exit, monitor, pty, closing,
                    phase>>
    BY <1>5 DEF Resume, numbers
  <2>2. attached' = TRUE /\ retain' = NoTimer /\ NoTimer \in NoTimer..Retention
    BY <1>5 DEF Resume, NoTimer
  <2>3. earliest' \in 1..MaxSequence + 1 /\ earliest' <= latest + 1
    BY <1>0, <1>5 DEF Resume, Evict, TypeOK, Ordered
  <2>4. age' \in [Seqs -> 0..Retention]
    <3>1. 0 \in 0..Retention
      OBVIOUS
    <3>2. QED
      BY <1>0, <1>5, <3>1 DEF Resume, Evict, TypeOK
  <2>5. /\ reached' \in [Viewers -> 0..MaxSequence]
        /\ given' \in [Viewers -> SUBSET Seqs] /\ missed' \in [Viewers -> SUBSET Seqs]
        /\ delivered' = latest
        /\ \A w \in Viewers : reached'[w] <= latest
        /\ NothingSilentlyLost' /\ HandedOut'
    BY <1>0, <1>5, <2>1, <2>3, BatchFacts DEF Resume
  <2>6. QED
    BY <1>0, <2>1, <2>2, <2>3, <2>4, <2>5, Quiet DEF TypeOK, Ordered
<1>6. QED
  BY <1>1, <1>2, <1>3, <1>4, <1>5 DEF Call

\* A step that drains the pty keeps what does not depend on how the step ends.
LEMMA DrainStep ==
    ASSUME Inv, Drain, UNCHANGED <<delivered, lastInput, lastResize, viewers, closing>>
    PROVE  /\ Ordered' /\ NothingSilentlyLost' /\ HandedOut' /\ AttachedKeepsUp'
           /\ RetentionMatchesAttachment'
           /\ latest' \in 0..MaxSequence /\ pending' \in Nat /\ failed' \in BOOLEAN
           /\ age' \in [Seqs -> 0..Retention] /\ earliest' \in 1..MaxSequence + 1
           /\ attached' \in BOOLEAN /\ retain' \in NoTimer..Retention
<1> USE TerminalAssumption DEF Inv
<1>1. /\ latest' \in latest..MaxSequence
      /\ earliest' \in 1..MaxSequence + 1 /\ earliest' <= latest' + 1
      /\ age' \in [Seqs -> 0..Retention]
      /\ attached' \in BOOLEAN /\ retain' \in NoTimer..Retention
      /\ attached' => earliest' <= delivered + 1
      /\ attached' <=> retain' = NoTimer
      /\ pending' \in Nat /\ failed' \in BOOLEAN
  BY DrainFacts
<1>2. latest' \in 0..MaxSequence /\ latest <= latest'
  BY <1>1 DEF TypeOK
<1>3. Ordered'
  <2>1. delivered' = delivered /\ reached' = reached /\ latest \in Nat /\ latest' \in Nat
    BY <1>2 DEF TypeOK, viewers
  <2>2. delivered' <= latest'
    BY <1>2, <2>1 DEF Ordered, TypeOK
  <2>3. \A v \in Viewers : reached[v] \in Nat /\ reached[v] <= latest
    BY DEF Ordered, TypeOK
  <2>4. \A v \in Viewers : reached'[v] <= latest'
    BY <1>2, <2>1, <2>3
  <2>5. QED
    BY <1>1, <2>2, <2>4 DEF Ordered
<1>4. NothingSilentlyLost' /\ HandedOut'
  BY DEF NothingSilentlyLost, HandedOut, viewers
<1>5. AttachedKeepsUp' /\ RetentionMatchesAttachment'
  BY <1>1 DEF AttachedKeepsUp, RetentionMatchesAttachment
<1>6. QED
  BY <1>1, <1>2, <1>3, <1>4, <1>5

LEMMA LookStep == ASSUME Inv, Look PROVE Inv'
<1> USE TerminalAssumption
<1>1. /\ TypeOK /\ Ordered /\ Closing /\ RetentionMatchesAttachment
      /\ ExitIsFinal /\ MonitorLeavesNothing
  BY DEF Inv
<1>2. /\ Drain /\ UNCHANGED <<delivered, lastInput, lastResize, viewers, closing>>
      /\ UNCHANGED <<exit, shell, master, wrote>> /\ stop' = (stop \/ failed')
      /\ monitor' = "checking"
  BY DEF Look, numbers
<1>3. /\ failed => failed'
      /\ ~master => latest' = latest
      /\ master /\ ~failed' => latest' = latest + pending /\ ~failed
      /\ latest' \in Nat /\ pending' \in Nat
  BY <1>1, <1>2, DrainFacts DEF TypeOK
<1>4. /\ Ordered' /\ NothingSilentlyLost' /\ HandedOut'
      /\ AttachedKeepsUp' /\ RetentionMatchesAttachment'
      /\ TypeOK'
  BY <1>1, <1>2, DrainStep DEF TypeOK, viewers
<1>5. Closing'
  <2>1. (exit' # NoExit <=> shell' = "reaped") /\ (exit' = NoExit /\ ~failed' => master')
    BY <1>1, <1>2, <1>3 DEF Closing
  <2>2. failed' => stop'
    BY <1>1, <1>2 DEF TypeOK
  <2>3. ASSUME master', ~failed' PROVE wrote' <= latest' + pending'
    <3>1. latest' = latest + pending /\ wrote <= latest + pending /\ wrote' = wrote
      BY <1>1, <1>2, <1>3, <2>3 DEF Closing
    <3>2. wrote \in Nat /\ latest' \in Nat /\ pending' \in Nat
      BY <1>1, <1>3 DEF TypeOK
    <3>3. QED
      BY <3>1, <3>2
  <2>4. QED
    BY <2>1, <2>2, <2>3 DEF Closing
<1>6. ExitIsFinal' /\ MonitorLeavesNothing'
  BY <1>1, <1>2, <1>3 DEF ExitIsFinal, MonitorLeavesNothing
<1>7. QED
  BY <1>4, <1>5, <1>6 DEF Inv

LEMMA AnnounceStep ==
    ASSUME Inv, Announce, exit = NoExit,
           UNCHANGED <<delivered, lastInput, lastResize, viewers, closing>>,
           wrote' = wrote \/ wrote' = latest + pending,
           stop' \in BOOLEAN, failed' => stop',
           monitor' = "sleeping" \/ (monitor' = "ended" /\ stop')
    PROVE  Inv'
<1> USE TerminalAssumption
<1>1. /\ TypeOK /\ Ordered /\ Closing /\ RetentionMatchesAttachment
      /\ ExitIsFinal /\ MonitorLeavesNothing
  BY DEF Inv
<1>2. Drain /\ master' = FALSE /\ exit' = latest' /\ shell' = "reaped"
  BY DEF Announce
<1>3. /\ failed => failed'
      /\ master /\ ~failed' => latest' = latest + pending /\ ~failed
      /\ latest' \in 0..MaxSequence
  BY <1>1, <1>2, DrainFacts DEF TypeOK
<1>4. exit' # NoExit /\ exit' \in NoExit..MaxSequence
  BY <1>2, <1>3 DEF NoExit
<1>5. wrote' \in Nat
  BY <1>1 DEF TypeOK
<1>6. /\ Ordered' /\ NothingSilentlyLost' /\ HandedOut'
      /\ AttachedKeepsUp' /\ RetentionMatchesAttachment'
      /\ TypeOK'
  BY <1>1, <1>2, <1>3, <1>4, <1>5, DrainStep DEF TypeOK, viewers
<1>7. Closing'
  BY <1>2, <1>4 DEF Closing
<1>8. failed' \/ wrote' <= exit'
  <2> SUFFICES ASSUME ~failed' PROVE wrote' <= exit'
    OBVIOUS
  <2>1. ~failed /\ master
    BY <1>1, <1>3 DEF Closing
  <2>2. latest' = latest + pending /\ wrote <= latest + pending
    BY <1>1, <1>3, <2>1 DEF Closing
  <2>3. QED
    BY <1>1, <1>2, <2>2 DEF TypeOK
<1>9. ExitIsFinal' /\ MonitorLeavesNothing'
  BY <1>2, <1>4, <1>8 DEF ExitIsFinal, MonitorLeavesNothing
<1>10. QED
  BY <1>6, <1>7, <1>9 DEF Inv

LEMMA MonitorKeeps == ASSUME Inv, MonitorStep PROVE Inv'
<1> USE TerminalAssumption
<1>1. /\ TypeOK /\ Ordered /\ Closing /\ NothingSilentlyLost /\ HandedOut /\ AttachedKeepsUp
      /\ RetentionMatchesAttachment /\ ExitIsFinal /\ MonitorLeavesNothing
  BY DEF Inv
<1>2. CASE Look
  BY <1>2, LookStep
<1>3. CASE Terminate
  <2>1. /\ stop' = TRUE /\ monitor' = "ended"
        /\ UNCHANGED <<delivered, lastInput, lastResize, viewers, closing>>
    BY <1>3 DEF Terminate, numbers
  <2>2. CASE exit = NoExit /\ Announce /\ (wrote' = IF shell = "running" THEN latest + pending
                                                                        ELSE wrote)
    BY <2>1, <2>2, AnnounceStep
  <2>3. ASSUME master' = FALSE, failed' \in BOOLEAN, exit = NoExit => failed', failed => failed',
               UNCHANGED <<latest, earliest, age, attached, retain, exit, shell, pending, wrote>>
        PROVE Inv'
    <3>1. TypeOK'
      BY <1>1, <2>1, <2>3 DEF TypeOK, viewers
    <3>2. Closing' /\ ExitIsFinal' /\ MonitorLeavesNothing'
      BY <1>1, <2>1, <2>3 DEF Closing, ExitIsFinal, MonitorLeavesNothing
    <3>3. /\ Ordered' /\ NothingSilentlyLost' /\ HandedOut'
          /\ AttachedKeepsUp' /\ RetentionMatchesAttachment'
      BY <1>1, <2>1, <2>3
         DEF Ordered, NothingSilentlyLost, HandedOut, AttachedKeepsUp,
            RetentionMatchesAttachment, viewers
    <3>4. QED
      BY <3>1, <3>2, <3>3 DEF Inv
  <2>4. CASE exit # NoExit /\ master' = FALSE
             /\ UNCHANGED <<latest, earliest, age, attached, retain, failed, exit, shell, pending,
                            wrote>>
    BY <1>1, <2>3, <2>4 DEF TypeOK
  <2>5. CASE exit = NoExit /\ failed' = TRUE /\ master' = FALSE
             /\ UNCHANGED <<latest, earliest, age, attached, retain, exit, shell, pending, wrote>>
    BY <2>3, <2>5
  <2>6. QED
    BY <1>3, <2>2, <2>4, <2>5 DEF Terminate
<1>4. CASE Reap
  <2>1. stop' \in BOOLEAN /\ (failed' => stop')
    <3>1. Drain /\ stop' = (stop \/ failed')
      BY <1>4 DEF Reap, Announce
    <3>2. failed' \in BOOLEAN
      BY <1>1, <3>1, DrainFacts
    <3>3. QED
      BY <1>1, <3>1, <3>2 DEF TypeOK
  <2>2. QED
    BY <1>4, <2>1, AnnounceStep DEF Reap, numbers
<1>5. CASE WaitFails \/ Rest
  <2>1. /\ UNCHANGED <<replay, numbers, exit, pty, viewers, closing>>
        /\ monitor' \in {"checking", "sleeping"}
        /\ \/ UNCHANGED <<stop, failed>>
           \/ failed' = TRUE /\ stop' = TRUE
    BY <1>5 DEF WaitFails, Rest
  <2>2. TypeOK'
    BY <1>1, <2>1 DEF TypeOK, replay, numbers, pty, viewers
  <2>3. Closing' /\ ExitIsFinal' /\ MonitorLeavesNothing'
    BY <1>1, <2>1 DEF Closing, ExitIsFinal, MonitorLeavesNothing, replay, pty
  <2>4. /\ Ordered' /\ NothingSilentlyLost' /\ HandedOut'
        /\ AttachedKeepsUp' /\ RetentionMatchesAttachment'
    BY <1>1, <2>1
       DEF Ordered, NothingSilentlyLost, HandedOut, AttachedKeepsUp,
           RetentionMatchesAttachment, replay, viewers
  <2>5. QED
    BY <2>2, <2>3, <2>4 DEF Inv
<1>6. QED
  BY <1>2, <1>3, <1>4, <1>5 DEF MonitorStep

LEMMA OtherSteps ==
    ASSUME Inv, Close \/ Joined \/ Produce \/ ShellExits \/ Tick \/ UNCHANGED vars PROVE Inv'
<1> USE TerminalAssumption
<1>1. /\ TypeOK /\ Ordered /\ Closing /\ NothingSilentlyLost /\ HandedOut /\ AttachedKeepsUp
      /\ RetentionMatchesAttachment /\ ExitIsFinal /\ MonitorLeavesNothing
  BY DEF Inv
<1>2. CASE Close \/ Joined \/ UNCHANGED vars
  <2>1. /\ UNCHANGED <<replay, numbers, failed, exit, monitor, pty, viewers>>
        /\ stop' \in BOOLEAN /\ (stop => stop') /\ closing' \in {"no", "joining", "done"}
    BY <1>1, <1>2 DEF Close, Joined, vars, TypeOK
  <2>2. TypeOK'
    BY <1>1, <2>1 DEF TypeOK, replay, numbers, pty, viewers
  <2>3. QED
    BY <1>1, <2>1, <2>2
       DEF Inv, Ordered, Closing, NothingSilentlyLost, HandedOut, AttachedKeepsUp,
           RetentionMatchesAttachment, ExitIsFinal, MonitorLeavesNothing, replay, pty, viewers
<1>3. CASE Produce \/ ShellExits
  <2>1. /\ UNCHANGED <<replay, numbers, stop, failed, exit, monitor, master, viewers, closing>>
        /\ pending' \in Nat /\ pending <= pending'
        /\ \/ UNCHANGED <<shell, wrote>> /\ master
           \/ shell = "running" /\ shell' = "dead" /\ wrote' = latest + pending
              /\ pending' = pending
    BY <1>1, <1>3 DEF Produce, ShellExits, TypeOK
  <2>2. TypeOK'
    BY <1>1, <2>1 DEF TypeOK, replay, numbers, viewers
  <2>3. Closing'
    BY <1>1, <2>1 DEF Closing, TypeOK, replay
  <2>4. ExitIsFinal'
    BY <1>1, <2>1 DEF ExitIsFinal, Closing, replay
  <2>5. MonitorLeavesNothing'
    BY <1>1, <2>1 DEF MonitorLeavesNothing
  <2>6. QED
    BY <1>1, <2>1, <2>2, <2>3, <2>4, <2>5
       DEF Inv, Ordered, NothingSilentlyLost, HandedOut, AttachedKeepsUp,
           RetentionMatchesAttachment, replay, viewers
<1>4. CASE Tick
  <2>1. \A t \in 0..Retention : Elapse(t) \in 0..Retention
    BY DEF Elapse
  <2>2. age' \in [Seqs -> 0..Retention]
    BY <1>1, <1>4, <2>1 DEF Tick, TypeOK
  <2>3. retain' \in NoTimer..Retention /\ (retain' = NoTimer <=> retain = NoTimer)
    BY <1>1, <1>4 DEF Tick, Elapse, TypeOK, NoTimer
  <2>4. UNCHANGED <<latest, lastInput, lastResize, stop, failed, exit, monitor, pty, closing,
                    earliest, delivered, attached, phase, reached, given, missed>>
    BY <1>4 DEF Tick, numbers, viewers
  <2>5. QED
    BY <1>1, <2>2, <2>3, <2>4, Quiet
       DEF TypeOK, Ordered, NothingSilentlyLost, HandedOut, AttachedKeepsUp,
           RetentionMatchesAttachment
<1>5. QED
  BY <1>2, <1>3, <1>4

-----------------------------------------------------------------------------
(* The replay log *)

\* Eviction is from the front, and attaches nobody.
LEMMA ExpireDrops == ASSUME NEW a, NEW l, Expire(a, l), TypeOK
                     PROVE  earliest <= earliest' /\ (attached' => attached)
<1>1. earliest' \in earliest..l + 1
  BY DEF Expire, Evict
<1>2. attached' => attached
  BY DEF Expire, Lag, TypeOK
<1>3. QED
  BY <1>1, <1>2

\* A drain adds outputs at the end, and none after the exit.
LEMMA DrainRecords ==
    ASSUME Inv, Drain
    PROVE  /\ earliest <= earliest' /\ latest <= latest'
           /\ attached' => attached
           /\ exit # NoExit => latest' = latest
<1>1. latest' \in latest..MaxSequence /\ (~master => latest' = latest)
  BY DrainFacts DEF Inv
<1>2. earliest <= earliest' /\ (attached' => attached)
  BY ExpireDrops DEF Inv, Drain, Push
<1>3. exit # NoExit => ~master
  BY DEF Inv, ExitIsFinal
<1>4. QED
  BY <1>1, <1>2, <1>3

\* Under an attached caller, what is gone was handed out: AttachedKeepsUp, HandedOut and
\* NothingSilentlyLost together.
LEMMA Drops ==
    ASSUME Inv, Inv', earliest <= earliest'
    PROVE  Log!Drop
<1>1. /\ earliest \in Nat /\ earliest' \in Nat /\ latest' \in Nat /\ delivered' \in Nat
      /\ earliest >= 1 /\ earliest' <= latest' + 1
  <2>1. TypeOK /\ TypeOK' /\ Ordered'
    BY DEF Inv
  <2>2. earliest \in Nat /\ earliest >= 1
    BY <2>1, TerminalAssumption DEF TypeOK
  <2>3. earliest' \in Nat
    BY <2>1, TerminalAssumption DEF TypeOK
  <2>4. latest' \in Nat /\ delivered' \in Nat
    BY <2>1 DEF TypeOK
  <2>5. QED
    BY <2>1, <2>2, <2>3, <2>4 DEF Ordered
<1>2. earliest' - 1 \in earliest - 1..latest'
  <2>1. \A e, f, l \in Nat : e <= f /\ f <= l + 1 => f - 1 \in e - 1..l
    OBVIOUS
  <2>2. QED
    BY <1>1, <2>1
<1>3. ASSUME attached', NEW n \in 1..earliest' - 1
      PROVE  \E v \in Viewers : n \in Log!Known(v)'
  <2>1. earliest' <= delivered' + 1
    BY <1>3 DEF Inv, AttachedKeepsUp
  <2>2. n \in 1..delivered'
    <3>1. \A e, d \in Nat : e <= d + 1 => 1..e - 1 \subseteq 1..d
      OBVIOUS
    <3>2. QED
      BY <1>1, <1>3, <2>1, <3>1
  <2>3. PICK v \in Viewers : n <= reached'[v]
    BY <2>2 DEF Inv, HandedOut
  <2>4. n \in 1..reached'[v]
    BY <2>2, <2>3 DEF Inv, TypeOK
  <2>5. given'[v] \cup missed'[v] = 1..reached'[v]
    BY DEF Inv, NothingSilentlyLost
  <2>6. QED
    BY <2>4, <2>5 DEF Log!Known
<1>4. QED
  BY <1>2, <1>3 DEF Log!Drop

\* Outputs come and go, a caller is detached, the exit is announced.
LEMMA Records ==
    ASSUME Inv, Inv', earliest <= earliest', latest <= latest', attached' => attached,
           exit # NoExit => exit' # NoExit /\ latest' = latest, UNCHANGED <<given, missed>>
    PROVE  Log!Record
BY Drops DEF Log!Record

\* What a batch takes from its cursor on is what the caller does not know of.
LEMMA Serves ==
    ASSUME Inv, Inv', earliest <= earliest', NEW v \in Viewers, Batch(v), attached',
           UNCHANGED <<latest, exit>>
    PROVE  Log!Serve(v)
<1> DEFINE news == 1..latest \ Log!Known(v)
           gone == 1..earliest' - 1
<1>1. /\ reached[v] \in Nat /\ latest \in Nat /\ latest <= MaxSequence /\ reached[v] <= latest
      /\ MaxSequence \in Nat /\ earliest' \in Nat /\ earliest' <= latest + 1
  BY TerminalAssumption DEF Inv, TypeOK, Ordered
<1>2. Log!Known(v) = 1..reached[v]
  BY DEF Inv, NothingSilentlyLost, Log!Known
<1>3. Left(v) = news \ gone
  BY <1>1, <1>2 DEF Left, Seqs
<1>4. Missing(v) = news \cap gone
  BY <1>1, <1>2 DEF Missing, Seqs
<1>5. /\ given' = [given EXCEPT ![v] = @ \cup (news \ gone)]
      /\ missed' = [missed EXCEPT ![v] = @ \cup (news \cap gone)]
  BY <1>3, <1>4 DEF Batch
<1>6. Log!Drop
  BY Drops
<1>7. QED
  BY <1>5, <1>6 DEF Log!Serve

\* Each step is one of the log, or none of its business.
LEMMA LogStep == ASSUME Inv, Inv', Next PROVE [Log!Next]_Log!log
<1> DEFINE Goal == [Log!Next]_Log!log
<1>1. ASSUME UNCHANGED <<latest, earliest, exit, attached, given, missed>> PROVE Goal
  BY <1>1 DEF Log!log
<1>2. ASSUME Log!Record PROVE Goal
  BY <1>2 DEF Log!Next
<1>3. ASSUME NEW v \in Viewers, Log!Serve(v) PROVE Goal
  BY <1>3 DEF Log!Next
<1>4. TypeOK /\ earliest <= earliest
  BY DEF Inv, TypeOK
<1> SUFFICES Goal
  OBVIOUS
<1> HIDE DEF Goal
<1>5. ASSUME NEW v \in Viewers, Write(v) \/ Resize(v) PROVE Goal
  BY <1>1, <1>5 DEF Write, Resize, replay, viewers
<1>6. ASSUME NEW v \in Viewers, Read(v) PROVE Goal
  <2>1. earliest <= earliest' /\ (attached' => attached) /\ UNCHANGED <<latest, exit>>
    BY <1>4, <1>6, ExpireDrops DEF Read
  <2>2. CASE UNCHANGED <<given, missed>>
    BY <1>2, <1>4, <2>1, <2>2, Records DEF TypeOK
  <2>3. CASE Batch(v) /\ attached'
    BY <1>3, <2>1, <2>3, Serves
  <2>4. QED
    BY <1>6, <2>2, <2>3 DEF Read, viewers
<1>7. ASSUME NEW v \in Viewers, Wake(v) PROVE Goal
  <2>1. UNCHANGED <<latest, earliest, exit, attached>>
    BY <1>7 DEF Wake
  <2>2. CASE attached /\ Batch(v)
    BY <1>3, <1>4, <2>1, <2>2, Serves
  <2>3. CASE UNCHANGED <<given, missed>>
    BY <1>1, <2>1, <2>3
  <2>4. QED
    BY <1>7, <2>2, <2>3 DEF Wake
<1>8. ASSUME NEW v \in Viewers, Detach(v) PROVE Goal
  <2>1. /\ UNCHANGED <<latest, earliest, exit, given, missed>>
        /\ attached' => attached
    BY <1>8 DEF Detach, viewers
  <2>2. QED
    BY <1>2, <1>4, <2>1, Records DEF TypeOK
<1>9. ASSUME NEW v \in Viewers, Resume(v) PROVE Goal
  <2>1. Batch(v) /\ attached' /\ UNCHANGED <<latest, exit>> /\ earliest <= earliest'
    BY <1>4, <1>9 DEF Resume, Evict
  <2>2. QED
    BY <1>3, <2>1, Serves
<1>10. ASSUME Drain, UNCHANGED viewers, exit' = exit \/ exit' = latest' PROVE Goal
  <2>1. /\ earliest <= earliest' /\ latest <= latest' /\ (attached' => attached)
        /\ exit # NoExit => latest' = latest
    BY <1>10, DrainRecords
  <2>2. exit # NoExit => exit' # NoExit
    BY <1>10 DEF Inv, TypeOK, NoExit
  <2>3. QED
    BY <1>2, <1>10, <2>1, <2>2, Records DEF viewers
<1>11. CASE Look
  BY <1>10, <1>11 DEF Look
<1>12. CASE Terminate \/ Reap
  <2>1. CASE Announce /\ UNCHANGED viewers
    BY <1>10, <2>1 DEF Announce
  <2>2. CASE UNCHANGED <<latest, earliest, attached, exit, viewers>>
    BY <1>1, <2>2 DEF viewers
  <2>3. QED
    BY <1>12, <2>1, <2>2 DEF Terminate, Reap
<1>13. CASE Close \/ Joined \/ WaitFails \/ Rest \/ Produce \/ ShellExits
  BY <1>1, <1>13 DEF Close, Joined, WaitFails, Rest, Produce, ShellExits, replay, viewers
<1>14. CASE Tick
  BY <1>1, <1>14 DEF Tick, viewers
<1>15. QED
  BY <1>5, <1>6, <1>7, <1>8, <1>9, <1>11, <1>12, <1>13, <1>14 DEF Next, Call, MonitorStep

-----------------------------------------------------------------------------
(* Theorems *)

\* All of the invariants hold together.
THEOREM TerminalInvariant == Spec => []Inv
<1>1. Init => Inv
  <2> SUFFICES ASSUME Init PROVE Inv
    OBVIOUS
  <2>1. 0 \in 0..MaxSequence /\ 0 \in 0..Retention /\ 1 \in 1..MaxSequence + 1
    BY TerminalAssumption
  <2>2. age \in [Seqs -> 0..Retention] /\ reached \in [Viewers -> 0..MaxSequence]
    BY <2>1 DEF Init
  <2>3. NoTimer \in NoTimer..Retention /\ NoExit \in NoExit..MaxSequence
    BY TerminalAssumption DEF NoTimer, NoExit
  <2>4. TypeOK
    BY <2>1, <2>2, <2>3 DEF Init, TypeOK
  <2>5. Ordered /\ Closing /\ AttachedKeepsUp /\ RetentionMatchesAttachment
    BY DEF Init, Ordered, Closing, AttachedKeepsUp, RetentionMatchesAttachment
  <2>6. NothingSilentlyLost /\ HandedOut /\ ExitIsFinal /\ MonitorLeavesNothing
    BY DEF Init, NothingSilentlyLost, HandedOut, ExitIsFinal, MonitorLeavesNothing
  <2>7. QED
    BY <2>4, <2>5, <2>6 DEF Inv
<1>2. Inv /\ [Next]_vars => Inv'
  <2>1. ASSUME Inv, Next PROVE Inv'
    BY <2>1, CallStep, MonitorKeeps, OtherSteps DEF Next
  <2>2. ASSUME Inv, UNCHANGED vars PROVE Inv'
    BY <2>2, OtherSteps
  <2>3. QED
    BY <2>1, <2>2
<1>3. QED
  BY <1>1, <1>2, PTL DEF Spec

\* The terminal's state keeps its shape, whatever the limits.
THEOREM TerminalTypeCorrect == Spec => []TypeOK
BY TerminalInvariant, PTL DEF Inv

\* However callers detach, resume and overtake each other, each of them is given every output
\* up to where it is, or told that it is gone (batch).
THEOREM NothingEverSilentlyLost == Spec => []NothingSilentlyLost
BY TerminalInvariant, PTL DEF Inv

\* Nothing is evicted under an attached caller before it was handed out (expire_history).
THEOREM AttachedAlwaysKeepsUp == Spec => []AttachedKeepsUp
BY TerminalInvariant, PTL DEF Inv

\* An announced exit covers all the shell wrote, and no output follows it (monitor).
THEOREM ExitAlwaysFinal == Spec => []ExitIsFinal
BY TerminalInvariant, PTL DEF Inv

\* When the monitor has ended, so has the shell (terminate).
THEOREM MonitorAlwaysLeavesNothing == Spec => []MonitorLeavesNothing
BY TerminalInvariant, PTL DEF Inv

\* The retention runs exactly while nobody is attached (detach, resume, expire_history).
THEOREM RetentionAlwaysMatches == Spec => []RetentionMatchesAttachment
BY TerminalInvariant, PTL DEF Inv

\* The history is a replay log for any number of callers and any limits: each output reaches
\* each caller once or is reported to it as gone, only what some caller was told of goes while
\* anybody is attached, and nothing follows the announced exit (batch, expire_history, monitor).
THEOREM ReplayAlwaysKept == Spec => ReplayIsKept
<1>1. Init => Log!Init
  BY DEF Init, Log!Init, NoExit
<1>2. Inv /\ Inv' /\ [Next]_vars => [Log!Next]_Log!log
  <2>1. ASSUME Inv, Inv', Next PROVE [Log!Next]_Log!log
    BY <2>1, LogStep
  <2>2. ASSUME UNCHANGED vars PROVE [Log!Next]_Log!log
    BY <2>2 DEF vars, replay, viewers, Log!log
  <2>3. QED
    BY <2>1, <2>2
<1>3. QED
  BY <1>1, <1>2, TerminalInvariant, PTL DEF Spec, ReplayIsKept, Log!Spec

=============================================================================
