-------------------------- MODULE X11BackendProofs --------------------------
(* Proofs about X11Backend, for any modes, inputs and keys, any number of      *)
(* operations and of changes by other clients, and any length of the queue.   *)
EXTENDS X11Backend, TLAPS

-----------------------------------------------------------------------------
(* The invariant, in parts *)

\* Whose answer is awaited, in which step.
Awaiting ==
    awaiting # None =>
        \/ pc = "event" /\ awaiting = Head(todo)
        \/ pc = "release" /\ awaiting \in Releases
        \/ pc \in Changing /\ awaiting \in Changes

\* The guard has been asked only in a guarded step, and was asked for what is awaited there.
Cleared ==
    /\ cleared => pc \in Guarded
    /\ awaiting # None /\ pc \in Guarded => cleared

\* While there is something to inject there is a next event.
Planned == pc \in Injecting \cup {"input.core"} => todo # <<>>

\* The awaited request is the last one written, and what it releases is up once it is answered.
LastAwaited ==
    awaiting # None =>
        /\ wire # <<>> => wire[Len(wire)] = awaiting
        /\ wire = <<>> /\ answer = "ok" /\ awaiting \in Releases => awaiting.input \notin down

\* A release that goes well leaves only what is still to be released, and nothing is held in
\* a transaction.
Emptied ==
    /\ pc = "release" /\ ~failed =>
        \A i \in held : i \in rest \/ awaiting = Release(i)
    /\ pc \in Applying \cup Restoring => held = {}

\* Nothing is held as long as a change of the display is on its way, and an event is written
\* only when everything before it has been executed.
Separate ==
    /\ (\E n \in DOMAIN wire : wire[n] \in Changes) => held = {}
    /\ pc = "event" /\ awaiting = None => wire = <<>>

\* A late request is awaited, or is the last: the guard will refuse the next.
Late ==
    /\ pc = "idle" => late = 0
    /\ \/ late = 0
       \/ late = 1 /\ ~authorized /\ (cleared => awaiting # None)

\* The client's snapshot is of a revision that had one mode.
Snapped ==
    /\ snap.picture = snap.mode
    /\ snap.rev <= revision
    /\ snap.rev = revision => known = snap.mode
    /\ pc = "event" => snap.rev = revision

\* A picture of another mode than the topology's has a notification on its heels.
Pictured ==
    /\ view.rev <= revision
    /\ pc = "shot.image" =>
        look.step = "idle" /\ view.mode = known /\ (mode = known \/ noticed # "none")
    /\ pc = "shot.after" /\ view.picture # view.mode =>
        IF look.step = "idle" THEN noticed = "arrived" ELSE look.changed
    /\ pc = "shot.core" => view.picture = view.mode

IInv ==
    /\ TypeOK /\ Awaiting /\ Cleared /\ Planned /\ LastAwaited /\ Emptied
    /\ HeldCoversDown /\ Separate /\ Late /\ Snapped /\ Pictured

-----------------------------------------------------------------------------
(* What is written *)

LEMMA RequestsApart ==
    /\ None \notin Requests
    /\ Presses \subseteq Requests /\ Releases \subseteq Requests /\ Changes \subseteq Requests
    /\ Motion \in Requests
    /\ Motion \notin Presses \cup Releases \cup Changes
    /\ Presses \cap Releases = {} /\ Presses \cap Changes = {} /\ Releases \cap Changes = {}
    /\ \A i \in Inputs : Press(i) \in Presses /\ Release(i) \in Releases
    /\ \A i \in Inputs : Press(i).input = i /\ Release(i).input = i
    /\ \A r \in Presses : r.input \in Inputs /\ r = Press(r.input)
    /\ \A r \in Releases : r.input \in Inputs /\ r = Release(r.input)
<1>1. None \notin Requests
  BY NoneAssumption
<1>2. /\ \A r \in Presses : r.do = "press" /\ r.input \in Inputs /\ r = Press(r.input)
      /\ \A r \in Releases : r.do = "release" /\ r.input \in Inputs /\ r = Release(r.input)
      /\ \A r \in Changes : r.do \in {"screen", "crtc"}
      /\ Motion.do = "motion"
  BY DEF Presses, Press, Releases, Release, Changes, Motion
<1>3. \A i \in Inputs : Press(i).input = i /\ Release(i).input = i
  BY DEF Press, Release
<1>4. \A i \in Inputs : Press(i) \in Presses /\ Release(i) \in Releases
  BY DEF Presses, Releases
<1>5. QED
  BY <1>1, <1>2, <1>3, <1>4 DEF Requests

LEMMA LargerType ==
    ASSUME NEW a \in Int, NEW b \in Positive
    PROVE  Larger(a, b) \in Positive
BY DEF Larger, Positive

LEMMA JoinType ==
    ASSUME NEW a \in Positive \X Positive, NEW b \in Positive \X Positive
    PROVE  Join(a, b) \in Positive \X Positive
BY DEF Join, Larger, Positive

LEMMA ScaledType ==
    ASSUME NEW mm \in Positive \X Positive, NEW from \in Positive \X Positive,
           NEW to \in Positive \X Positive
    PROVE  Scaled(mm, from, to) \in Positive \X Positive
<1>1. ASSUME NEW a \in Positive, NEW b \in Positive, NEW c \in Positive
      PROVE  (a * b) \div c \in Int
  BY <1>1 DEF Positive
<1>2. 1 \in Positive
  BY DEF Positive
<1>3. mm[1] \in Positive /\ mm[2] \in Positive /\ from[1] \in Positive /\ from[2] \in Positive
      /\ to[1] \in Positive /\ to[2] \in Positive
  OBVIOUS
<1>4. (mm[1] * to[1]) \div from[1] \in Int /\ (mm[2] * to[2]) \div from[2] \in Int
  BY <1>1, <1>3
<1>5. /\ Larger((mm[1] * to[1]) \div from[1], 1) \in Positive
      /\ Larger((mm[2] * to[2]) \div from[2], 1) \in Positive
  BY <1>2, <1>4, LargerType
<1>6. QED
  BY <1>5 DEF Scaled

\* Every change the backend writes is one the server knows.
LEMMA ChangesWritten ==
    ASSUME TypeOK
    PROVE  /\ SetScreen(Grown, TargetMM) \in Changes
           /\ SetScreen(target, TargetMM) \in Changes
           /\ SetScreen(bound, saved.mm) \in Changes
           /\ SetScreen(saved.size, saved.mm) \in Changes
           /\ SetCrtc(target, look.stamp) \in Changes
           /\ SetCrtc(saved.mode, look.stamp) \in Changes
<1>1. /\ target \in Positive \X Positive /\ target \in Sizes
      /\ bound \in Positive \X Positive /\ saved.size \in Positive \X Positive
      /\ saved.mm \in Positive \X Positive /\ saved.mode \in Sizes \cup {Off}
      /\ look.stamp \in Nat
  BY SizesAssumption DEF TypeOK, SightTypeOK, ChangeTypeOK
<1>2. Grown \in Positive \X Positive /\ TargetMM \in Positive \X Positive
  BY <1>1, JoinType, ScaledType DEF Grown, TargetMM
<1>3. ASSUME NEW size \in Positive \X Positive, NEW mm \in Positive \X Positive
      PROVE  SetScreen(size, mm) \in Changes
  BY DEF SetScreen, Changes, Screens
<1>4. ASSUME NEW m \in Sizes \cup {Off}, NEW s \in Nat
      PROVE  SetCrtc(m, s) \in Changes
  BY DEF SetCrtc, Changes
<1>5. QED
  BY <1>1, <1>2, <1>3, <1>4

\* So is every event.
LEMMA EventsWritten ==
    ASSUME TypeOK, Planned, pc \in Injecting
    PROVE  /\ Head(todo) \in Requests \ Changes
           /\ Tail(todo) \in Seq(Presses \cup Releases \cup {Motion})
<1>1. todo \in Seq(Presses \cup Releases \cup {Motion}) /\ todo # <<>>
  BY DEF TypeOK, FlowTypeOK, Planned
<1>2. /\ Head(todo) \in Presses \cup Releases \cup {Motion}
      /\ Tail(todo) \in Seq(Presses \cup Releases \cup {Motion})
  BY <1>1
<1>3. QED
  BY <1>2, RequestsApart

\* A plan has an event, and no change of the display.
LEMMA PlansType == Plans \subseteq Seq(Presses \cup Releases \cup {Motion}) \ {<<>>}
<1> DEFINE Events == Presses \cup Releases \cup {Motion}
<1>1. ASSUME NEW a \in Events, NEW b \in Events, NEW c \in Events, NEW d \in Events
      PROVE  /\ <<a>> \in Seq(Events) \ {<<>>} /\ <<a, b>> \in Seq(Events) \ {<<>>}
             /\ <<a, b, c>> \in Seq(Events) \ {<<>>} /\ <<a, b, c, d>> \in Seq(Events) \ {<<>>}
  OBVIOUS
<1>2. Keys \subseteq Inputs /\ Buttons \subseteq Inputs /\ Shift \in Inputs
  BY KeysAssumption DEF Buttons
<1>3. Motion \in Events /\ \A i \in Inputs : Press(i) \in Events /\ Release(i) \in Events
  BY RequestsApart
<1> HIDE DEF Events
<1>4. TextPlans \subseteq Seq(Events) \ {<<>>}
  <2>1. ASSUME NEW k \in Keys
        PROVE  /\ <<Press(k), Release(k)>> \in Seq(Events) \ {<<>>}
               /\ <<Press(Shift), Press(k), Release(k), Release(Shift)>> \in Seq(Events) \ {<<>>}
    BY <1>1, <1>2, <1>3
  <2>2. QED
    BY <2>1 DEF TextPlans
<1>5. Plans \subseteq Seq(Events) \ {<<>>}
  BY <1>1, <1>2, <1>3, <1>4 DEF Plans
<1>6. QED
  BY <1>5 DEF Events

\* Executing a request takes the first one off the wire.
LEMMA Executed ==
    ASSUME TypeOK, NEW result, NEW awaited, Execute(result, awaited)
    PROVE  /\ Head(wire) \in Requests /\ Head(wire) = wire[1] /\ 1 \in DOMAIN wire
           /\ wire' \in Seq(Requests)
           /\ \A n \in DOMAIN wire' : n + 1 \in DOMAIN wire /\ wire'[n] = wire[n + 1]
<1>1. wire \in Seq(Requests) /\ wire # <<>> /\ wire' = Tail(wire)
  BY DEF TypeOK, ServerTypeOK, Execute
<1>2. QED
  BY <1>1

\* The server leaves the backend's own state alone, and takes requests only off the front.
LEMMA Served ==
    ASSUME TypeOK, Server
    PROVE  /\ UNCHANGED <<topology, look, held, faulted, sight, flow, awaiting, authorized, late,
                          change>>
           /\ \A r : (\E n \in DOMAIN wire' : wire'[n] = r) => (\E n \in DOMAIN wire : wire[n] = r)
           /\ wire = <<>> => wire' = <<>>
           /\ \A i \in down' : i \in down \/ (\E n \in DOMAIN wire : wire[n] = Press(i))
<1>1. UNCHANGED <<topology, look, held, faulted, sight, flow, awaiting, authorized, late, change>>
  BY DEF Server
<1>2. CASE \E result \in {"ok", "refused"} : Execute(result, awaiting # None)
  <2>1. PICK result \in {"ok", "refused"} : Execute(result, awaiting # None)
    BY <1>2
  <2>2. /\ Head(wire) \in Requests /\ Head(wire) = wire[1] /\ 1 \in DOMAIN wire
        /\ \A n \in DOMAIN wire' : n + 1 \in DOMAIN wire /\ wire'[n] = wire[n + 1]
    BY <2>1, Executed
  <2>3. wire # <<>>
    BY <2>1 DEF Execute
  <2>4. down' = down \/ (Head(wire) \in Presses /\ down' = down \cup {Head(wire).input})
        \/ down' = down \ {Head(wire).input}
    BY <2>1 DEF Execute, Obey, Refuse
  <2>5. Head(wire) \in Presses => wire[1] = Press(Head(wire).input)
    BY <2>2, RequestsApart
  <2>6. QED
    BY <1>1, <2>2, <2>3, <2>4, <2>5
<1>3. CASE Meddle \/ Hotplug
  BY <1>1, <1>3 DEF Meddle, Hotplug, Meddles
<1>4. QED
  BY <1>2, <1>3 DEF Server

\* A refresh that leaves the revision as it was has seen nothing new.
Looked ==
    /\ revision' \in {revision, revision + 1}
    /\ revision' = revision => known' = known /\ ~look.changed
    /\ known' = mode /\ UNCHANGED mode
    /\ look'.step = "idle" /\ look.step = "listed"
    /\ noticed = "arrived" => noticed' = "arrived"
    /\ noticed # "none" => noticed' # "none"

LEMMA Refreshes ==
    ASSUME TypeOK, Refreshed
    PROVE  Looked
BY DEF TypeOK, ServerTypeOK, SightTypeOK, Refreshed, Answered, Revised, NoLook, Positive, Looked

LEMMA Numbers ==
    ASSUME TypeOK
    PROVE  /\ revision \in Nat /\ 0 < revision /\ snap.rev \in Nat /\ view.rev \in Nat
           /\ snap \in Views
           /\ view \in Views
           /\ look \in [step : {"idle", "drained", "listed"}, changed : BOOLEAN, stamp : Nat]
           /\ noticed \in {"none", "queued", "arrived"}
BY DEF TypeOK, ServerTypeOK, SightTypeOK, Views, Positive

\* Wherever a step leads, the flow is typed.
LEMMA GotoTyped ==
    ASSUME TypeOK, NEW p \in Steps, Goto(p)
    PROVE  FlowTypeOK'
BY DEF TypeOK, FlowTypeOK, Goto

LEMMA ReleaseAllTyped ==
    ASSUME TypeOK, held' \subseteq Inputs, NEW p \in {"core", "lease", "resize.first", "apply.grow"},
           ReleaseAll(p)
    PROVE  FlowTypeOK'
<1>1. <<>> \in Seq(Presses \cup Releases \cup {Motion}) /\ "release" \in Steps
  BY DEF Steps
<1>2. QED
  BY <1>1 DEF TypeOK, FlowTypeOK, ReleaseAll

LEMMA AbortTyped ==
    ASSUME TypeOK, held' \subseteq Inputs, NEW lost \in BOOLEAN, Abort(lost)
    PROVE  FlowTypeOK'
<1>1. CASE ReleaseAll("core")
  BY <1>1, ReleaseAllTyped
<1>2. CASE Undo
  BY <1>2 DEF TypeOK, FlowTypeOK, Undo, Steps, Restoring
<1>3. CASE Conclude("rollback_failed", lost)
  BY <1>3 DEF TypeOK, FlowTypeOK, Conclude, Steps, Refreshing
<1>4. CASE Goto("done")
  BY <1>4, GotoTyped DEF Steps
<1>5. QED
  BY <1>1, <1>2, <1>3, <1>4 DEF Abort

LEMMA ProceedTyped ==
    ASSUME TypeOK, held' \subseteq Inputs, NEW ok \in BOOLEAN, NEW p \in Steps, Proceed(ok, p)
    PROVE  FlowTypeOK'
BY GotoTyped, AbortTyped DEF Proceed

\* A refresh leaves the topology typed, and so is what an operation remembers of it.
LEMMA RefreshTyped ==
    ASSUME TypeOK, Refreshed
    PROVE  /\ revision' \in Positive /\ known' \in Sizes \cup {Off} /\ knownStamp' \in Nat
           /\ look' \in [step : {"idle", "drained", "listed"}, changed : BOOLEAN, stamp : Nat]
           /\ missed' \in BOOLEAN
           /\ [NoView EXCEPT !.rev = revision', !.mode = known'] \in Views
           /\ [NoView EXCEPT !.rev = revision'] \in Views
<1>1. /\ revision' \in Positive /\ known' \in Sizes \cup {Off} /\ knownStamp' \in Nat
      /\ missed' \in BOOLEAN
  BY DEF TypeOK, ServerTypeOK, SightTypeOK, Refreshed, Answered, Revised, Positive
<1>2. look' \in [step : {"idle", "drained", "listed"}, changed : BOOLEAN, stamp : Nat]
  BY DEF Refreshed, NoLook
<1>3. /\ [NoView EXCEPT !.rev = revision', !.mode = known'] \in Views
      /\ [NoView EXCEPT !.rev = revision'] \in Views
  BY <1>1 DEF NoView, Views, Positive
<1>4. QED
  BY <1>1, <1>2, <1>3

-----------------------------------------------------------------------------
(* Types *)

LEMMA ServerStaysTyped ==
    ASSUME IInv, Next
    PROVE  ServerTypeOK'
<1> USE DEF IInv, ServerTypeOK, Guarded, Injecting, Applying, Restoring, Changing, Refreshing,
    Querying
<1>a. TypeOK /\ ServerTypeOK
  BY DEF TypeOK
<1>1. CASE Screenshot
  BY <1>1, <1>a DEF Screenshot, Start, server, topology, sight
<1>2. CASE Input
  BY <1>2, <1>a, PlansType DEF Input, Start, server, topology, sight
<1>3. CASE \E next \in {"done", "lease"} : ReleaseHeld(next)
  BY <1>3, <1>a DEF ReleaseHeld, Start, server, topology, sight
<1>4. CASE \E m \in Sizes : Resize(m)
  BY <1>4, <1>a DEF Resize, Start, server, topology, sight
<1>5. CASE Drain
  BY <1>5, <1>a DEF Drain, topology, sight, flow, change
<1>6. CASE ListResources
  BY <1>6, <1>a DEF ListResources, Answered, topology, sight, flow, change
<1>7. CASE Fails
  BY <1>7, <1>a DEF Fails, Abort, NoLook, server, sight, change, ReleaseAll, Undo, Conclude,
      Goto
<1>8. CASE TimesOut
  BY <1>8, <1>a DEF TimesOut, Abort, NoLook, topology, sight, change, ReleaseAll, Undo,
      Conclude, Goto
<1>9. CASE Refused
  BY <1>9, <1>a DEF Refused, Returned, Abort, NoLook, topology, sight, change, ReleaseAll, Undo,
      Conclude, Goto
<1>10. CASE Guard
  BY <1>10, <1>a DEF Guard, Abort, server, topology, sight, change, ReleaseAll, Undo, Conclude,
      Goto
<1>11. CASE Before
  BY <1>11, <1>a DEF Before, Refreshed, Proceed, change, Answered, Revised, NoLook, Goto, Abort,
      ReleaseAll, Undo, Conclude
<1>12. CASE GetImage
  BY <1>12, <1>a DEF GetImage, Answered, Goto, topology, change
<1>13. CASE After
  BY <1>13, <1>a DEF After, Refreshed, Proceed, sight, change, Answered, Revised, NoLook, Goto,
      Abort, ReleaseAll, Undo, Conclude
<1>14. CASE Keep
  BY <1>14, <1>a DEF Keep, Refreshed, Goto, change, Answered, Revised, NoLook
<1>15. CASE Admit
  BY <1>15, <1>a DEF Admit, Refreshed, Proceed, sight, change, Answered, Revised, NoLook, Goto,
      Abort, ReleaseAll, Undo, Conclude
<1>16. CASE Inject
  BY <1>16, <1>a DEF Inject, Refreshed, Proceed, Checked, sight, change, Answered, Revised,
      NoLook, Goto, Abort, ReleaseAll, Undo, Conclude
<1>17. CASE BeforeInput
  BY <1>17, <1>a DEF BeforeInput, Refreshed, Proceed, Checked, sight, change, Answered, Revised,
      NoLook, Goto, Abort, ReleaseAll, Undo, Conclude
<1>18. CASE SendEvent
  BY <1>18, <1>a, EventsWritten, RequestsApart DEF SendEvent, WriteGuarded, Remember, topology,
      sight, flow, change, Write
<1>19. CASE EventUnsent
  BY <1>19, <1>a, EventsWritten, RequestsApart DEF EventUnsent, Remember, Abort, server,
      topology, sight, change, ReleaseAll, Undo, Conclude, Goto
<1>20. CASE EventDone
  BY <1>20, <1>a, EventsWritten, RequestsApart DEF EventDone, Returned, topology, sight, change
<1>21. CASE \E i \in Inputs : SendRelease(i)
  BY <1>21, <1>a, RequestsApart DEF SendRelease, Due, Write, topology, sight, change
<1>22. CASE \E i \in Inputs : ReleaseUnsent(i)
  BY <1>22, <1>a DEF ReleaseUnsent, Due, server, topology, sight, change
<1>23. CASE ReleaseDone
  BY <1>23, <1>a, RequestsApart DEF ReleaseDone, Returned, flow, topology, sight, change
<1>24. CASE AllReleased
  BY <1>24, <1>a, RequestsApart DEF AllReleased, ReleaseAll, Goto, server, topology, sight,
      change
<1>25. CASE Reply
  BY <1>25, <1>a DEF Reply, server, topology
<1>26. CASE Listed
  BY <1>26, <1>a DEF Listed, Refreshed, ReleaseAll, Goto, change, Answered, Revised, NoLook
<1>27. CASE Preflight
  BY <1>27, <1>a DEF Preflight, Refreshed, Proceed, Checked, sight, change, Answered, Revised,
      NoLook, Goto, Abort, ReleaseAll, Undo, Conclude
<1>28. CASE SaveCrtc
  BY <1>28, <1>a DEF SaveCrtc, Answered, Goto, Conclude, Quiet, topology, sight
<1>29. CASE SaveFresh
  BY <1>29, <1>a DEF SaveFresh, Goto, Quiet, server, topology, sight
<1>30. CASE SaveGeometry
  BY <1>30, <1>a DEF SaveGeometry, Answered, Proceed, Quiet, Goto, Abort, topology, sight,
      ReleaseAll, Undo, Conclude
<1>31. CASE Begin
  BY <1>31, <1>a DEF Begin, Refreshed, Checked, ReleaseAll, Abort, sight, Answered, Revised,
      NoLook, Undo, Conclude, Goto
<1>32. CASE ApplyGrow
  BY <1>32, <1>a, ChangesWritten, RequestsApart DEF ApplyGrow, WriteGuarded, Mutates, Write,
      flow, topology, sight
<1>33. CASE NoGrowth
  BY <1>33, <1>a DEF NoGrowth, Goto, server, Quiet, topology, sight
<1>34. CASE ApplyCrtc
  BY <1>34, <1>a, ChangesWritten, RequestsApart DEF ApplyCrtc, WriteGuarded, Mutates, Write,
      flow, topology, sight
<1>35. CASE ApplyShrink
  BY <1>35, <1>a, ChangesWritten, RequestsApart DEF ApplyShrink, WriteGuarded, Mutates, Write,
      flow, topology, sight
<1>36. CASE ApplyUnsent
  BY <1>36, <1>a DEF ApplyUnsent, Undo, NoLook, server, topology, sight
<1>37. CASE Confirm
  BY <1>37, <1>a DEF Confirm, Answered, Conclude, Undo, Quiet, topology, sight
<1>38. CASE Restore
  BY <1>38, <1>a DEF Restore, Answered, Goto, Quiet, topology, sight
<1>39. CASE RestoreGrow
  BY <1>39, <1>a, ChangesWritten, RequestsApart DEF RestoreGrow, Write, Mutates, flow, topology,
      sight
<1>40. CASE RestoreCrtc
  BY <1>40, <1>a, ChangesWritten, RequestsApart DEF RestoreCrtc, Write, Mutates, flow, topology,
      sight
<1>41. CASE RestoreShrink
  BY <1>41, <1>a, ChangesWritten, RequestsApart DEF RestoreShrink, Write, Mutates, flow,
      topology, sight
<1>42. CASE RestoreUnsent
  BY <1>42, <1>a DEF RestoreUnsent, Conclude, NoLook, server, topology, sight, change
<1>43. CASE ListAgain
  BY <1>43, <1>a DEF ListAgain, Answered, NoLook, Goto, topology, sight, change
<1>44. CASE Mutated
  BY <1>44, <1>a, RequestsApart DEF Mutated, Returned, Goto, Follows, NoLook, topology, sight,
      change
<1>45. CASE Restored
  BY <1>45, <1>a DEF Restored, Answered, Conclude, Quiet, topology, sight
<1>46. CASE Actual
  BY <1>46, <1>a DEF Actual, Refreshed, Proceed, change, Answered, Revised, NoLook, Goto, Abort,
      ReleaseAll, Undo, Conclude
<1>47. CASE Report
  BY <1>47, <1>a DEF Report, Refreshed, sight, change, Answered, Revised, NoLook
<1>48. CASE Deauthorize
  BY <1>48, <1>a DEF Deauthorize, server, topology, sight, flow, change
<1>49. CASE Server
  <2>1. CASE \E result \in {"ok", "refused"} : Execute(result, awaiting # None)
    <3>1. PICK result \in {"ok", "refused"} : Execute(result, awaiting # None)
      BY <2>1
    <3>2. Head(wire) \in Requests /\ wire' \in Seq(Requests)
      BY <1>a, <3>1, Executed
    <3>3. /\ Head(wire) \in Presses \cup Releases => Head(wire).input \in Inputs
          /\ Head(wire).do = "screen" => Head(wire).screen \in Screens
          /\ Head(wire).do = "crtc" => Head(wire).mode \in Sizes \cup {Off}
      BY <3>2 DEF Requests, Presses, Press, Releases, Release, Motion, Changes
    <3>4. /\ down' \subseteq Inputs /\ screen' \in Screens /\ mode' \in Sizes \cup {Off}
          /\ noticed' \in {"none", "queued", "arrived"}
      BY <1>a, <3>1, <3>3 DEF Execute, Obey, Refuse, Notify
    <3>5. QED
      BY <1>a, <3>1, <3>2, <3>4 DEF Execute
  <2>2. CASE Meddle
    <3>1. PICK m \in Sizes \cup {Off} :
            mode' = m /\ screen' = [screen EXCEPT !.size = IF m = Off THEN screen.size ELSE m]
      BY <2>2 DEF Meddle
    <3>2. m # Off => m \in Positive \X Positive
      BY SizesAssumption
    <3>3. screen' \in Screens
      BY <1>a, <3>1, <3>2 DEF Screens
    <3>4. QED
      BY <1>a, <2>2, <3>1, <3>3 DEF Meddle, Meddles, Notify
  <2>3. CASE Hotplug
    BY <1>a, <2>3 DEF Hotplug, Meddles, Notify, Positive
  <2>4. QED
    BY <1>49, <2>1, <2>2, <2>3 DEF Server
<1>50. QED
  BY <1>1, <1>2, <1>3, <1>4, <1>5, <1>6, <1>7, <1>8, <1>9, <1>10, <1>11, <1>12, <1>13, <1>14,
      <1>15, <1>16, <1>17, <1>18, <1>19, <1>20, <1>21, <1>22, <1>23, <1>24, <1>25, <1>26, <1>27,
      <1>28, <1>29, <1>30, <1>31, <1>32, <1>33, <1>34, <1>35, <1>36, <1>37, <1>38, <1>39, <1>40,
      <1>41, <1>42, <1>43, <1>44, <1>45, <1>46, <1>47, <1>48, <1>49 DEF Next, Request, Continue

\* A request of the mode change that is written keeps the types.
LEMMA WritesTyped ==
    ASSUME SightTypeOK, InputTypeOK, ChangeTypeOK, NEW r \in Changes, Write(r), Mutates,
           late' \in Nat
    PROVE  SightTypeOK' /\ InputTypeOK' /\ ChangeTypeOK'
<1>1. awaiting' \in Requests
  BY RequestsApart DEF Write
<1>2. SightTypeOK'
  BY DEF Mutates, SightTypeOK, topology, sight
<1>3. InputTypeOK'
  BY <1>1 DEF Mutates, InputTypeOK
<1>4. ChangeTypeOK'
  BY DEF Mutates, ChangeTypeOK
<1>5. QED
  BY <1>2, <1>3, <1>4

LEMMA SightStaysTyped ==
    ASSUME IInv, Next
    PROVE  SightTypeOK' /\ InputTypeOK' /\ ChangeTypeOK'
<1> USE DEF IInv, SightTypeOK, InputTypeOK, ChangeTypeOK, Views, Off, Positive, Guarded,
    Injecting, Applying, Restoring, Changing, Refreshing, Querying
<1>a. /\ TypeOK /\ SightTypeOK /\ InputTypeOK /\ ChangeTypeOK
      /\ stamp \in Nat /\ mode \in Sizes \cup {Off} /\ meddles \in Nat
      /\ screen.size \in Positive \X Positive /\ screen.mm \in Positive \X Positive
      /\ Unsaved \in [mode : Sizes \cup {Off}, size : Positive \X Positive,
                      mm : Positive \X Positive, meddles : Nat]
  BY DEF TypeOK, ServerTypeOK, Screens, Unsaved
<1>1. CASE Screenshot
  BY <1>1, <1>a DEF Screenshot, Start, NoView, server, topology, sight
<1>2. CASE Input
  BY <1>2, <1>a, PlansType DEF Input, NoView, Start, server, topology, sight
<1>3. CASE \E next \in {"done", "lease"} : ReleaseHeld(next)
  BY <1>3, <1>a DEF ReleaseHeld, Start, NoView, server, topology, sight
<1>4. CASE \E m \in Sizes : Resize(m)
  BY <1>4, <1>a DEF Resize, Start, NoView, server, topology, sight
<1>5. CASE Drain
  BY <1>5, <1>a DEF Drain, topology, sight, flow, change
<1>6. CASE ListResources
  BY <1>6, <1>a DEF ListResources, Answered, topology, sight, flow, change
<1>7. CASE Fails
  BY <1>7, <1>a DEF Fails, Abort, NoLook, NoView, server, sight, change, ReleaseAll, Undo,
      Conclude, Goto
<1>8. CASE TimesOut
  BY <1>8, <1>a DEF TimesOut, Abort, NoLook, topology, sight, change, ReleaseAll, Undo,
      Conclude, Goto
<1>9. CASE Refused
  BY <1>9, <1>a DEF Refused, Returned, Abort, NoLook, topology, sight, change, ReleaseAll, Undo,
      Conclude, Goto
<1>10. CASE Guard
  BY <1>10, <1>a DEF Guard, Abort, server, topology, sight, change, ReleaseAll, Undo, Conclude,
      Goto
<1>11. CASE Before
  <2>1. InputTypeOK' /\ ChangeTypeOK'
    BY <1>11, <1>a DEF Before, Refreshed, NoView, Proceed, change, Answered, Revised, NoLook,
        Goto, Abort, ReleaseAll, Undo, Conclude
  <2>2. SightTypeOK'
    BY <1>11, <1>a, RefreshTyped DEF Before, sight
  <2>3. QED
    BY <2>1, <2>2
<1>12. CASE GetImage
  <2>1. SightTypeOK'
    BY <1>12, <1>a DEF GetImage, Answered, Goto, topology, change
  <2>2. InputTypeOK'
    BY <1>12, <1>a DEF GetImage, Answered, Goto, topology, change
  <2>3. ChangeTypeOK'
    BY <1>12, <1>a DEF GetImage, Answered, Goto, topology, change
  <2>4. QED
    BY <2>1, <2>2, <2>3
<1>13. CASE After
  <2>1. InputTypeOK' /\ ChangeTypeOK'
    BY <1>13, <1>a DEF After, Refreshed, Proceed, sight, change, Answered, Revised, NoLook,
        Goto, Abort, ReleaseAll, Undo, Conclude
  <2>2. SightTypeOK'
    BY <1>13, <1>a, RefreshTyped DEF After, sight
  <2>3. QED
    BY <2>1, <2>2
<1>14. CASE Keep
  <2>1. InputTypeOK' /\ ChangeTypeOK'
    BY <1>14, <1>a DEF Keep, Refreshed, Goto, change, Answered, Revised, NoLook
  <2>2. SightTypeOK'
    BY <1>14, <1>a, RefreshTyped DEF Keep, sight
  <2>3. QED
    BY <2>1, <2>2
<1>15. CASE Admit
  <2>1. InputTypeOK' /\ ChangeTypeOK'
    BY <1>15, <1>a DEF Admit, Refreshed, Proceed, sight, change, Answered, Revised, NoLook,
        Goto, Abort, ReleaseAll, Undo, Conclude
  <2>2. SightTypeOK'
    BY <1>15, <1>a, RefreshTyped DEF Admit, sight
  <2>3. QED
    BY <2>1, <2>2
<1>16. CASE Inject
  <2>1. InputTypeOK' /\ ChangeTypeOK'
    BY <1>16, <1>a DEF Inject, Refreshed, Proceed, Checked, sight, change, Answered, Revised,
        NoLook, Goto, Abort, ReleaseAll, Undo, Conclude
  <2>2. SightTypeOK'
    BY <1>16, <1>a, RefreshTyped DEF Inject, sight
  <2>3. QED
    BY <2>1, <2>2
<1>17. CASE BeforeInput
  <2>1. InputTypeOK' /\ ChangeTypeOK'
    BY <1>17, <1>a DEF BeforeInput, Refreshed, Proceed, Checked, sight, change, Answered,
        Revised, NoLook, Goto, Abort, ReleaseAll, Undo, Conclude
  <2>2. SightTypeOK'
    BY <1>17, <1>a, RefreshTyped DEF BeforeInput, sight
  <2>3. QED
    BY <2>1, <2>2
<1>18. CASE SendEvent
  <2>1. SightTypeOK'
    BY <1>18, <1>a, EventsWritten, RequestsApart DEF SendEvent, WriteGuarded, Remember, topology,
        sight, flow, change, Write
  <2>2. InputTypeOK'
    <3>1. Head(todo) \in Requests /\ (Head(todo) \in Presses => Head(todo).input \in Inputs)
      BY <1>18, <1>a, EventsWritten, RequestsApart DEF SendEvent
    <3>2. held' \subseteq Inputs /\ awaiting' = Head(todo) /\ UNCHANGED <<faulted, authorized>>
      BY <1>18, <1>a, <3>1 DEF SendEvent, WriteGuarded, Write, Remember
    <3>3. late' \in Nat
      BY <1>18, <1>a DEF SendEvent, WriteGuarded
    <3>4. QED
      BY <1>a, <3>1, <3>2, <3>3
  <2>3. ChangeTypeOK'
    BY <1>18, <1>a, EventsWritten, RequestsApart DEF SendEvent, WriteGuarded, Remember, topology,
        sight, flow, change, Write
  <2>4. QED
    BY <2>1, <2>2, <2>3
<1>19. CASE EventUnsent
  <2>1. SightTypeOK' /\ ChangeTypeOK'
    BY <1>19, <1>a, EventsWritten, RequestsApart DEF EventUnsent, Remember, Abort, server,
        topology, sight, change, ReleaseAll, Undo, Conclude, Goto
  <2>2. InputTypeOK'
    <3>1. Head(todo) \in Presses => Head(todo).input \in Inputs
      BY RequestsApart
    <3>2. held' \subseteq Inputs /\ UNCHANGED <<faulted, authorized, awaiting, late>>
      BY <1>19, <1>a, <3>1 DEF EventUnsent, Remember
    <3>3. QED
      BY <1>a, <3>2
  <2>3. QED
    BY <2>1, <2>2
<1>20. CASE EventDone
  BY <1>20, <1>a, EventsWritten, RequestsApart DEF EventDone, Returned, topology, sight, change
<1>21. CASE \E i \in Inputs : SendRelease(i)
  <2>1. SightTypeOK'
    BY <1>21, <1>a, RequestsApart DEF SendRelease, Due, Write, topology, sight, change
  <2>2. InputTypeOK'
    BY <1>21, <1>a, RequestsApart DEF SendRelease, Due, Write, topology, sight, change
  <2>3. ChangeTypeOK'
    BY <1>21, <1>a, RequestsApart DEF SendRelease, Due, Write, topology, sight, change
  <2>4. QED
    BY <2>1, <2>2, <2>3
<1>22. CASE \E i \in Inputs : ReleaseUnsent(i)
  BY <1>22, <1>a DEF ReleaseUnsent, Due, server, topology, sight, change
<1>23. CASE ReleaseDone
  BY <1>23, <1>a, RequestsApart DEF ReleaseDone, Returned, flow, topology, sight, change
<1>24. CASE AllReleased
  <2>1. SightTypeOK'
    BY <1>24, <1>a, RequestsApart DEF AllReleased, ReleaseAll, Goto, server, topology, sight,
        change
  <2>2. InputTypeOK'
    BY <1>24, <1>a, RequestsApart DEF AllReleased, ReleaseAll, Goto, server, topology, sight,
        change
  <2>3. ChangeTypeOK'
    BY <1>24, <1>a, RequestsApart DEF AllReleased, ReleaseAll, Goto, server, topology, sight,
        change
  <2>4. QED
    BY <2>1, <2>2, <2>3
<1>25. CASE Reply
  <2>1. SightTypeOK' /\ InputTypeOK'
    BY <1>25, <1>a DEF Reply, NoView, server, topology
  <2>2. ChangeTypeOK'
    BY <1>25, <1>a, SizesAssumption DEF Reply
  <2>3. QED
    BY <2>1, <2>2
<1>26. CASE Listed
  <2>1. InputTypeOK' /\ ChangeTypeOK'
    BY <1>26, <1>a DEF Listed, Refreshed, NoView, ReleaseAll, Goto, change, Answered, Revised,
        NoLook
  <2>2. SightTypeOK'
    BY <1>26, <1>a, RefreshTyped DEF Listed, sight
  <2>3. QED
    BY <2>1, <2>2
<1>27. CASE Preflight
  <2>1. InputTypeOK' /\ ChangeTypeOK'
    BY <1>27, <1>a DEF Preflight, Refreshed, Proceed, Checked, sight, change, Answered, Revised,
        NoLook, Goto, Abort, ReleaseAll, Undo, Conclude
  <2>2. SightTypeOK'
    BY <1>27, <1>a, RefreshTyped DEF Preflight, sight
  <2>3. QED
    BY <2>1, <2>2
<1>28. CASE SaveCrtc
  <2>1. InputTypeOK'
    BY <1>28, <1>a DEF SaveCrtc, Answered, Goto, Conclude, Quiet, topology, sight
  <2>2. SightTypeOK'
    BY <1>28, <1>a DEF SaveCrtc, Answered, Goto, Conclude, Quiet, topology, sight
  <2>3. ChangeTypeOK'
    BY <1>28, <1>a DEF SaveCrtc, Answered, Goto, Conclude, Quiet, topology, sight
  <2>4. QED
    BY <2>1, <2>2, <2>3
<1>29. CASE SaveFresh
  <2>1. InputTypeOK'
    BY <1>29, <1>a DEF SaveFresh, Goto, Quiet, server, topology, sight
  <2>2. SightTypeOK'
    BY <1>29, <1>a DEF SaveFresh, Goto, Quiet, server, topology, sight
  <2>3. ChangeTypeOK'
    BY <1>29, <1>a DEF SaveFresh, Goto, Quiet, server, topology, sight
  <2>4. QED
    BY <2>1, <2>2, <2>3
<1>30. CASE SaveGeometry
  <2>1. SightTypeOK'
    BY <1>30, <1>a DEF SaveGeometry, Answered, Proceed, Quiet, Goto, Abort, topology, sight,
        ReleaseAll, Undo, Conclude
  <2>2. InputTypeOK'
    BY <1>30, <1>a DEF SaveGeometry, Answered, Proceed, Quiet, Goto, Abort, topology, sight,
        ReleaseAll, Undo, Conclude
  <2>3. ChangeTypeOK'
    BY <1>30, <1>a DEF SaveGeometry, Answered, Proceed, Quiet, Goto, Abort, topology, sight,
        ReleaseAll, Undo, Conclude
  <2>4. QED
    BY <2>1, <2>2, <2>3
<1>31. CASE Begin
  <2>1. InputTypeOK' /\ ChangeTypeOK'
    BY <1>31, <1>a DEF Begin, Refreshed, Checked, ReleaseAll, Abort, sight, Answered, Revised,
        NoLook, Undo, Conclude, Goto
  <2>2. SightTypeOK'
    BY <1>31, <1>a, RefreshTyped DEF Begin, sight
  <2>3. QED
    BY <2>1, <2>2
<1>32. CASE ApplyGrow
  <2>1. late' \in Nat
    BY <1>32, <1>a DEF ApplyGrow, WriteGuarded
  <2>2. QED
    BY <1>32, <1>a, <2>1, ChangesWritten, WritesTyped DEF ApplyGrow, WriteGuarded
<1>33. CASE NoGrowth
  BY <1>33, <1>a DEF NoGrowth, Goto, server, Quiet, topology, sight
<1>34. CASE ApplyCrtc
  <2>1. late' \in Nat
    BY <1>34, <1>a DEF ApplyCrtc, WriteGuarded
  <2>2. QED
    BY <1>34, <1>a, <2>1, ChangesWritten, WritesTyped DEF ApplyCrtc, WriteGuarded
<1>35. CASE ApplyShrink
  <2>1. late' \in Nat
    BY <1>35, <1>a DEF ApplyShrink, WriteGuarded
  <2>2. QED
    BY <1>35, <1>a, <2>1, ChangesWritten, WritesTyped DEF ApplyShrink, WriteGuarded
<1>36. CASE ApplyUnsent
  BY <1>36, <1>a DEF ApplyUnsent, Undo, NoLook, server, topology, sight
<1>37. CASE Confirm
  <2>1. SightTypeOK'
    BY <1>37, <1>a DEF Confirm, Answered, Conclude, Undo, Quiet, topology, sight
  <2>2. InputTypeOK'
    BY <1>37, <1>a DEF Confirm, Answered, Conclude, Undo, Quiet, topology, sight
  <2>3. ChangeTypeOK'
    BY <1>37, <1>a DEF Confirm, Answered, Conclude, Undo, Quiet, topology, sight
  <2>4. QED
    BY <2>1, <2>2, <2>3
<1>38. CASE Restore
  <2>1. SightTypeOK' /\ InputTypeOK'
    BY <1>38, <1>a DEF Restore, Answered, Goto, Quiet, topology, sight
  <2>2. ChangeTypeOK'
    <3>1. bound' \in Positive \X Positive
      BY <1>38, <1>a, JoinType DEF Restore
    <3>2. QED
      BY <1>38, <1>a, <3>1 DEF Restore, Quiet
  <2>3. QED
    BY <2>1, <2>2
<1>39. CASE RestoreGrow
  <2>1. late' \in Nat
    BY <1>39, <1>a DEF RestoreGrow
  <2>2. QED
    BY <1>39, <1>a, <2>1, ChangesWritten, WritesTyped DEF RestoreGrow
<1>40. CASE RestoreCrtc
  <2>1. late' \in Nat
    BY <1>40, <1>a DEF RestoreCrtc
  <2>2. QED
    BY <1>40, <1>a, <2>1, ChangesWritten, WritesTyped DEF RestoreCrtc
<1>41. CASE RestoreShrink
  <2>1. late' \in Nat
    BY <1>41, <1>a DEF RestoreShrink
  <2>2. QED
    BY <1>41, <1>a, <2>1, ChangesWritten, WritesTyped DEF RestoreShrink
<1>42. CASE RestoreUnsent
  BY <1>42, <1>a DEF RestoreUnsent, Conclude, NoLook, server, topology, sight, change
<1>43. CASE ListAgain
  BY <1>43, <1>a DEF ListAgain, Answered, NoLook, Goto, topology, sight, change
<1>44. CASE Mutated
  <2>1. SightTypeOK'
    BY <1>44, <1>a, RequestsApart DEF Mutated, Returned, Goto, Follows, NoLook, topology, sight,
        change
  <2>2. InputTypeOK'
    BY <1>44, <1>a, RequestsApart DEF Mutated, Returned, Goto, Follows, NoLook, topology, sight,
        change
  <2>3. ChangeTypeOK'
    BY <1>44, <1>a, RequestsApart DEF Mutated, Returned, Goto, Follows, NoLook, topology, sight,
        change
  <2>4. QED
    BY <2>1, <2>2, <2>3
<1>45. CASE Restored
  <2>1. SightTypeOK'
    BY <1>45, <1>a DEF Restored, Answered, Conclude, Quiet, topology, sight
  <2>2. InputTypeOK'
    BY <1>45, <1>a DEF Restored, Answered, Conclude, Quiet, topology, sight
  <2>3. ChangeTypeOK'
    BY <1>45, <1>a DEF Restored, Answered, Conclude, Quiet, topology, sight
  <2>4. QED
    BY <2>1, <2>2, <2>3
<1>46. CASE Actual
  <2>1. InputTypeOK' /\ ChangeTypeOK'
    BY <1>46, <1>a DEF Actual, Refreshed, NoView, Proceed, change, Answered, Revised, NoLook,
        Goto, Abort, ReleaseAll, Undo, Conclude
  <2>2. SightTypeOK'
    BY <1>46, <1>a, RefreshTyped DEF Actual, sight
  <2>3. QED
    BY <2>1, <2>2
<1>47. CASE Report
  <2>1. InputTypeOK' /\ ChangeTypeOK'
    BY <1>47, <1>a DEF Report, Refreshed, sight, change, Answered, Revised, NoLook
  <2>2. SightTypeOK'
    BY <1>47, <1>a, RefreshTyped DEF Report, sight
  <2>3. QED
    BY <2>1, <2>2
<1>48. CASE Deauthorize
  <2>1. InputTypeOK'
    BY <1>48, <1>a DEF Deauthorize, server, topology, sight, flow, change
  <2>2. SightTypeOK'
    BY <1>48, <1>a DEF Deauthorize, server, topology, sight, flow, change
  <2>3. ChangeTypeOK'
    BY <1>48, <1>a DEF Deauthorize, server, topology, sight, flow, change
  <2>4. QED
    BY <2>1, <2>2, <2>3
<1>49. CASE Server
  BY <1>49, <1>a DEF Server, Execute, Undoing, Meddle, Hotplug, topology, sight, flow, change,
      Obey, Refuse, Meddles, Notify
<1>50. QED
  BY <1>1, <1>2, <1>3, <1>4, <1>5, <1>6, <1>7, <1>8, <1>9, <1>10, <1>11, <1>12, <1>13, <1>14,
      <1>15, <1>16, <1>17, <1>18, <1>19, <1>20, <1>21, <1>22, <1>23, <1>24, <1>25, <1>26, <1>27,
      <1>28, <1>29, <1>30, <1>31, <1>32, <1>33, <1>34, <1>35, <1>36, <1>37, <1>38, <1>39, <1>40,
      <1>41, <1>42, <1>43, <1>44, <1>45, <1>46, <1>47, <1>48, <1>49 DEF Next, Request, Continue

LEMMA FlowStaysTyped ==
    ASSUME IInv, Next
    PROVE  FlowTypeOK'
<1> USE DEF IInv, FlowTypeOK, Steps, Guarded, Injecting, Applying, Restoring, Changing,
    Refreshing, Querying
<1>a. TypeOK /\ FlowTypeOK /\ held \subseteq Inputs
  BY DEF TypeOK, InputTypeOK
<1>1. CASE Screenshot
  BY <1>1, <1>a DEF Screenshot, Start, server, topology, sight
<1>2. CASE Input
  BY <1>2, <1>a, PlansType DEF Input, Start, server, topology, sight
<1>3. CASE \E next \in {"done", "lease"} : ReleaseHeld(next)
  BY <1>3, <1>a DEF ReleaseHeld, Start, server, topology, sight
<1>4. CASE \E m \in Sizes : Resize(m)
  BY <1>4, <1>a DEF Resize, Start, server, topology, sight
<1>5. CASE Drain
  BY <1>5, <1>a DEF Drain, topology, sight, flow, change
<1>6. CASE ListResources
  BY <1>6, <1>a DEF ListResources, Answered, topology, sight, flow, change
<1>7. CASE Fails
  BY <1>7, <1>a, GotoTyped, ReleaseAllTyped, AbortTyped, ProceedTyped DEF Fails, Refreshing,
      Querying, Guarded, NoLook, server, sight, change
<1>8. CASE TimesOut
  BY <1>8, <1>a, GotoTyped, ReleaseAllTyped, AbortTyped, ProceedTyped DEF TimesOut, NoLook,
      topology, sight, change
<1>9. CASE Refused
  BY <1>9, <1>a, GotoTyped, ReleaseAllTyped, AbortTyped, ProceedTyped DEF Refused, Returned,
      NoLook, topology, sight, change
<1>10. CASE Guard
  <2>1. CASE authorized
    BY <1>10, <1>a, <2>1 DEF Guard
  <2>2. CASE ~authorized
    BY <1>10, <1>a, <2>2, AbortTyped DEF Guard
  <2>3. QED
    BY <2>1, <2>2
<1>11. CASE Before
  BY <1>11, <1>a, GotoTyped, ReleaseAllTyped, AbortTyped, ProceedTyped DEF Before, Refreshed,
      change, Answered, Revised, NoLook
<1>12. CASE GetImage
  BY <1>12, <1>a DEF GetImage, Answered, Goto, topology, change
<1>13. CASE After
  BY <1>13, <1>a, GotoTyped, ReleaseAllTyped, AbortTyped, ProceedTyped DEF After, Refreshed,
      sight, change, Answered, Revised, NoLook
<1>14. CASE Keep
  BY <1>14, <1>a, GotoTyped, ReleaseAllTyped, AbortTyped, ProceedTyped DEF Keep, Refreshed,
      change, Answered, Revised, NoLook
<1>15. CASE Admit
  BY <1>15, <1>a, GotoTyped, ReleaseAllTyped, AbortTyped, ProceedTyped DEF Admit, Refreshed,
      sight, change, Answered, Revised, NoLook
<1>16. CASE Inject
  BY <1>16, <1>a, GotoTyped, ReleaseAllTyped, AbortTyped, ProceedTyped DEF Inject, Refreshed,
      Checked, sight, change, Answered, Revised, NoLook
<1>17. CASE BeforeInput
  BY <1>17, <1>a, GotoTyped, ReleaseAllTyped, AbortTyped, ProceedTyped DEF BeforeInput,
      Refreshed, Checked, sight, change, Answered, Revised, NoLook
<1>18. CASE SendEvent
  BY <1>18, <1>a, EventsWritten, RequestsApart DEF SendEvent, WriteGuarded, Remember, topology,
      sight, flow, change, Write
<1>19. CASE EventUnsent
  BY <1>19, <1>a, EventsWritten, RequestsApart, GotoTyped, ReleaseAllTyped, AbortTyped,
      ProceedTyped DEF EventUnsent, Remember, server, topology, sight, change
<1>20. CASE EventDone
  BY <1>20, <1>a, EventsWritten, RequestsApart DEF EventDone, Returned, topology, sight, change
<1>21. CASE \E i \in Inputs : SendRelease(i)
  BY <1>21, <1>a, RequestsApart DEF SendRelease, Due, Write, topology, sight, change
<1>22. CASE \E i \in Inputs : ReleaseUnsent(i)
  BY <1>22, <1>a DEF ReleaseUnsent, Due, server, topology, sight, change
<1>23. CASE ReleaseDone
  BY <1>23, <1>a, RequestsApart DEF ReleaseDone, Returned, flow, topology, sight, change
<1>24. CASE AllReleased
  BY <1>24, <1>a, RequestsApart, GotoTyped, ReleaseAllTyped, AbortTyped, ProceedTyped DEF
      AllReleased, server, topology, sight, change
<1>25. CASE Reply
  <2>1. <<>> \in Seq(Presses \cup Releases \cup {Motion}) /\ pc' \in Steps
    BY <1>25 DEF Reply, Steps
  <2>2. QED
    BY <1>25, <1>a, <2>1 DEF Reply
<1>26. CASE Listed
  BY <1>26, <1>a, GotoTyped, ReleaseAllTyped, AbortTyped, ProceedTyped DEF Listed, Refreshed,
      change, Answered, Revised, NoLook
<1>27. CASE Preflight
  BY <1>27, <1>a, GotoTyped, ReleaseAllTyped, AbortTyped, ProceedTyped DEF Preflight, Refreshed,
      Checked, sight, change, Answered, Revised, NoLook
<1>28. CASE SaveCrtc
  BY <1>28, <1>a DEF SaveCrtc, Answered, Goto, Conclude, Quiet, topology, sight
<1>29. CASE SaveFresh
  BY <1>29, <1>a DEF SaveFresh, Goto, Quiet, server, topology, sight
<1>30. CASE SaveGeometry
  BY <1>30, <1>a DEF SaveGeometry, Answered, Proceed, Quiet, Goto, Abort, topology, sight,
      ReleaseAll, Undo, Conclude
<1>31. CASE Begin
  BY <1>31, <1>a, GotoTyped, ReleaseAllTyped, AbortTyped, ProceedTyped DEF Begin, Refreshed,
      Checked, sight, Answered, Revised, NoLook
<1>32. CASE ApplyGrow
  BY <1>32, <1>a, ChangesWritten, RequestsApart DEF ApplyGrow, WriteGuarded, Mutates, Write,
      flow, topology, sight
<1>33. CASE NoGrowth
  BY <1>33, <1>a DEF NoGrowth, Goto, server, Quiet, topology, sight
<1>34. CASE ApplyCrtc
  BY <1>34, <1>a, ChangesWritten, RequestsApart DEF ApplyCrtc, WriteGuarded, Mutates, Write,
      flow, topology, sight
<1>35. CASE ApplyShrink
  BY <1>35, <1>a, ChangesWritten, RequestsApart DEF ApplyShrink, WriteGuarded, Mutates, Write,
      flow, topology, sight
<1>36. CASE ApplyUnsent
  BY <1>36, <1>a DEF ApplyUnsent, Undo, NoLook, server, topology, sight
<1>37. CASE Confirm
  BY <1>37, <1>a DEF Confirm, Answered, Conclude, Undo, Quiet, topology, sight
<1>38. CASE Restore
  BY <1>38, <1>a DEF Restore, Answered, Goto, Quiet, topology, sight
<1>39. CASE RestoreGrow
  BY <1>39, <1>a, ChangesWritten, RequestsApart DEF RestoreGrow, Write, Mutates, flow, topology,
      sight
<1>40. CASE RestoreCrtc
  BY <1>40, <1>a, ChangesWritten, RequestsApart DEF RestoreCrtc, Write, Mutates, flow, topology,
      sight
<1>41. CASE RestoreShrink
  BY <1>41, <1>a, ChangesWritten, RequestsApart DEF RestoreShrink, Write, Mutates, flow,
      topology, sight
<1>42. CASE RestoreUnsent
  BY <1>42, <1>a DEF RestoreUnsent, Conclude, NoLook, server, topology, sight, change
<1>43. CASE ListAgain
  BY <1>43, <1>a DEF ListAgain, Answered, NoLook, Goto, topology, sight, change
<1>44. CASE Mutated
  BY <1>44, <1>a, RequestsApart, GotoTyped, ReleaseAllTyped, AbortTyped, ProceedTyped DEF
      Mutated, Changing, Returned, Follows, NoLook, topology, sight, change
<1>45. CASE Restored
  BY <1>45, <1>a DEF Restored, Answered, Conclude, Quiet, topology, sight
<1>46. CASE Actual
  BY <1>46, <1>a, GotoTyped, ReleaseAllTyped, AbortTyped, ProceedTyped DEF Actual, Refreshed,
      change, Answered, Revised, NoLook
<1>47. CASE Report
  BY <1>47, <1>a, GotoTyped, ReleaseAllTyped, AbortTyped, ProceedTyped DEF Report, Refreshed,
      sight, change, Answered, Revised, NoLook
<1>48. CASE Deauthorize
  BY <1>48, <1>a DEF Deauthorize, server, topology, sight, flow, change
<1>49. CASE Server
  <2>1. trouble' \in BOOLEAN
    BY <1>49, Zenon DEF Server
  <2>2. QED
    BY <1>49, <1>a, <2>1, Served DEF flow
<1>50. QED
  BY <1>1, <1>2, <1>3, <1>4, <1>5, <1>6, <1>7, <1>8, <1>9, <1>10, <1>11, <1>12, <1>13, <1>14,
      <1>15, <1>16, <1>17, <1>18, <1>19, <1>20, <1>21, <1>22, <1>23, <1>24, <1>25, <1>26, <1>27,
      <1>28, <1>29, <1>30, <1>31, <1>32, <1>33, <1>34, <1>35, <1>36, <1>37, <1>38, <1>39, <1>40,
      <1>41, <1>42, <1>43, <1>44, <1>45, <1>46, <1>47, <1>48, <1>49 DEF Next, Request, Continue

-----------------------------------------------------------------------------
(* Requests, answers and what is held *)

LEMMA RequestsStayAwaited ==
    ASSUME IInv, Next
    PROVE  Awaiting' /\ Cleared' /\ Planned' /\ Late'
<1> USE DEF IInv, Awaiting, Cleared, Planned, Late, Guarded, Injecting, Applying, Restoring,
    Changing, Refreshing, Querying
<1>a. TypeOK /\ late \in Nat
  BY DEF TypeOK, InputTypeOK
<1>1. CASE Screenshot
  BY <1>1, <1>a DEF Screenshot, Start, server, topology, sight
<1>2. CASE Input
  BY <1>2, <1>a, PlansType DEF Input, Start, server, topology, sight
<1>3. CASE \E next \in {"done", "lease"} : ReleaseHeld(next)
  BY <1>3, <1>a DEF ReleaseHeld, Start, server, topology, sight
<1>4. CASE \E m \in Sizes : Resize(m)
  BY <1>4, <1>a DEF Resize, Start, server, topology, sight
<1>5. CASE Drain
  BY <1>5, <1>a DEF Drain, topology, sight, flow, change
<1>6. CASE ListResources
  BY <1>6, <1>a DEF ListResources, Answered, topology, sight, flow, change
<1>7. CASE Fails
  BY <1>7, <1>a DEF Fails, Abort, NoLook, server, sight, change, ReleaseAll, Undo, Conclude,
      Goto
<1>8. CASE TimesOut
  BY <1>8, <1>a DEF TimesOut, Abort, NoLook, topology, sight, change, ReleaseAll, Undo,
      Conclude, Goto
<1>9. CASE Refused
  BY <1>9, <1>a DEF Refused, Returned, Abort, NoLook, topology, sight, change, ReleaseAll, Undo,
      Conclude, Goto
<1>10. CASE Guard
  BY <1>10, <1>a DEF Guard, Abort, server, topology, sight, change, ReleaseAll, Undo, Conclude,
      Goto
<1>11. CASE Before
  BY <1>11, <1>a DEF Before, Refreshed, Proceed, change, Answered, Revised, NoLook, Goto, Abort,
      ReleaseAll, Undo, Conclude
<1>12. CASE GetImage
  BY <1>12, <1>a DEF GetImage, Answered, Goto, topology, change
<1>13. CASE After
  BY <1>13, <1>a DEF After, Refreshed, Proceed, sight, change, Answered, Revised, NoLook, Goto,
      Abort, ReleaseAll, Undo, Conclude
<1>14. CASE Keep
  BY <1>14, <1>a DEF Keep, Refreshed, Goto, change, Answered, Revised, NoLook
<1>15. CASE Admit
  BY <1>15, <1>a DEF Admit, Refreshed, Proceed, sight, change, Answered, Revised, NoLook, Goto,
      Abort, ReleaseAll, Undo, Conclude
<1>16. CASE Inject
  BY <1>16, <1>a DEF Inject, Refreshed, Proceed, Checked, sight, change, Answered, Revised,
      NoLook, Goto, Abort, ReleaseAll, Undo, Conclude
<1>17. CASE BeforeInput
  BY <1>17, <1>a DEF BeforeInput, Refreshed, Proceed, Checked, sight, change, Answered, Revised,
      NoLook, Goto, Abort, ReleaseAll, Undo, Conclude
<1>18. CASE SendEvent
  BY <1>18, <1>a, EventsWritten, RequestsApart DEF SendEvent, WriteGuarded, Remember, topology,
      sight, flow, change, Write
<1>19. CASE EventUnsent
  BY <1>19, <1>a, EventsWritten, RequestsApart DEF EventUnsent, Remember, Abort, server,
      topology, sight, change, ReleaseAll, Undo, Conclude, Goto
<1>20. CASE EventDone
  BY <1>20, <1>a, EventsWritten, RequestsApart DEF EventDone, Returned, topology, sight, change
<1>21. CASE \E i \in Inputs : SendRelease(i)
  BY <1>21, <1>a, RequestsApart DEF SendRelease, Due, Write, topology, sight, change
<1>22. CASE \E i \in Inputs : ReleaseUnsent(i)
  BY <1>22, <1>a DEF ReleaseUnsent, Due, server, topology, sight, change
<1>23. CASE ReleaseDone
  BY <1>23, <1>a, RequestsApart DEF ReleaseDone, Returned, flow, topology, sight, change
<1>24. CASE AllReleased
  BY <1>24, <1>a, RequestsApart DEF AllReleased, ReleaseAll, Goto, server, topology, sight,
      change
<1>25. CASE Reply
  BY <1>25, <1>a DEF Reply, server, topology
<1>26. CASE Listed
  BY <1>26, <1>a DEF Listed, Refreshed, ReleaseAll, Goto, change, Answered, Revised, NoLook
<1>27. CASE Preflight
  BY <1>27, <1>a DEF Preflight, Refreshed, Proceed, Checked, sight, change, Answered, Revised,
      NoLook, Goto, Abort, ReleaseAll, Undo, Conclude
<1>28. CASE SaveCrtc
  BY <1>28, <1>a DEF SaveCrtc, Answered, Goto, Conclude, Quiet, topology, sight
<1>29. CASE SaveFresh
  BY <1>29, <1>a DEF SaveFresh, Goto, Quiet, server, topology, sight
<1>30. CASE SaveGeometry
  BY <1>30, <1>a DEF SaveGeometry, Answered, Proceed, Quiet, Goto, Abort, topology, sight,
      ReleaseAll, Undo, Conclude
<1>31. CASE Begin
  BY <1>31, <1>a DEF Begin, Refreshed, Checked, ReleaseAll, Abort, sight, Answered, Revised,
      NoLook, Undo, Conclude, Goto
<1>32. CASE ApplyGrow
  BY <1>32, <1>a, ChangesWritten, RequestsApart DEF ApplyGrow, WriteGuarded, Mutates, Write,
      flow, topology, sight
<1>33. CASE NoGrowth
  BY <1>33, <1>a DEF NoGrowth, Goto, server, Quiet, topology, sight
<1>34. CASE ApplyCrtc
  BY <1>34, <1>a, ChangesWritten, RequestsApart DEF ApplyCrtc, WriteGuarded, Mutates, Write,
      flow, topology, sight
<1>35. CASE ApplyShrink
  BY <1>35, <1>a, ChangesWritten, RequestsApart DEF ApplyShrink, WriteGuarded, Mutates, Write,
      flow, topology, sight
<1>36. CASE ApplyUnsent
  BY <1>36, <1>a DEF ApplyUnsent, Undo, NoLook, server, topology, sight
<1>37. CASE Confirm
  BY <1>37, <1>a DEF Confirm, Answered, Conclude, Undo, Quiet, topology, sight
<1>38. CASE Restore
  BY <1>38, <1>a DEF Restore, Answered, Goto, Quiet, topology, sight
<1>39. CASE RestoreGrow
  BY <1>39, <1>a, ChangesWritten, RequestsApart DEF RestoreGrow, Write, Mutates, flow, topology,
      sight
<1>40. CASE RestoreCrtc
  BY <1>40, <1>a, ChangesWritten, RequestsApart DEF RestoreCrtc, Write, Mutates, flow, topology,
      sight
<1>41. CASE RestoreShrink
  BY <1>41, <1>a, ChangesWritten, RequestsApart DEF RestoreShrink, Write, Mutates, flow,
      topology, sight
<1>42. CASE RestoreUnsent
  BY <1>42, <1>a DEF RestoreUnsent, Conclude, NoLook, server, topology, sight, change
<1>43. CASE ListAgain
  BY <1>43, <1>a DEF ListAgain, Answered, NoLook, Goto, topology, sight, change
<1>44. CASE Mutated
  BY <1>44, <1>a, RequestsApart DEF Mutated, Returned, Goto, Follows, NoLook, topology, sight,
      change
<1>45. CASE Restored
  BY <1>45, <1>a DEF Restored, Answered, Conclude, Quiet, topology, sight
<1>46. CASE Actual
  BY <1>46, <1>a DEF Actual, Refreshed, Proceed, change, Answered, Revised, NoLook, Goto, Abort,
      ReleaseAll, Undo, Conclude
<1>47. CASE Report
  BY <1>47, <1>a DEF Report, Refreshed, sight, change, Answered, Revised, NoLook
<1>48. CASE Deauthorize
  BY <1>48, <1>a DEF Deauthorize, server, topology, sight, flow, change
<1>49. CASE Server
  BY <1>49, <1>a DEF Server, Execute, Undoing, Meddle, Hotplug, topology, sight, flow, change,
      Obey, Refuse, Meddles, Notify
<1>50. QED
  BY <1>1, <1>2, <1>3, <1>4, <1>5, <1>6, <1>7, <1>8, <1>9, <1>10, <1>11, <1>12, <1>13, <1>14,
      <1>15, <1>16, <1>17, <1>18, <1>19, <1>20, <1>21, <1>22, <1>23, <1>24, <1>25, <1>26, <1>27,
      <1>28, <1>29, <1>30, <1>31, <1>32, <1>33, <1>34, <1>35, <1>36, <1>37, <1>38, <1>39, <1>40,
      <1>41, <1>42, <1>43, <1>44, <1>45, <1>46, <1>47, <1>48, <1>49 DEF Next, Request, Continue

LEMMA LastAwaitedStays ==
    ASSUME IInv, Next
    PROVE  LastAwaited'
<1> USE DEF IInv, LastAwaited, Cleared, Awaiting, Guarded, Injecting, Applying, Restoring,
    Changing, Refreshing, Querying
<1>a. TypeOK /\ wire \in Seq(Requests)
  BY DEF TypeOK, ServerTypeOK
<1>1. CASE Screenshot
  BY <1>1, <1>a DEF Screenshot, Start, server, topology, sight
<1>2. CASE Input
  BY <1>2, <1>a, PlansType DEF Input, Start, server, topology, sight
<1>3. CASE \E next \in {"done", "lease"} : ReleaseHeld(next)
  BY <1>3, <1>a DEF ReleaseHeld, Start, server, topology, sight
<1>4. CASE \E m \in Sizes : Resize(m)
  BY <1>4, <1>a DEF Resize, Start, server, topology, sight
<1>5. CASE Drain
  BY <1>5, <1>a DEF Drain, topology, sight, flow, change
<1>6. CASE ListResources
  BY <1>6, <1>a DEF ListResources, Answered, topology, sight, flow, change
<1>7. CASE Fails
  BY <1>7, <1>a DEF Fails, Abort, NoLook, server, sight, change, ReleaseAll, Undo, Conclude,
      Goto
<1>8. CASE TimesOut
  BY <1>8, <1>a DEF TimesOut, Abort, NoLook, topology, sight, change, ReleaseAll, Undo,
      Conclude, Goto
<1>9. CASE Refused
  BY <1>9, <1>a DEF Refused, Returned, Abort, NoLook, topology, sight, change, ReleaseAll, Undo,
      Conclude, Goto
<1>10. CASE Guard
  BY <1>10, <1>a DEF Guard, Abort, server, topology, sight, change, ReleaseAll, Undo, Conclude,
      Goto
<1>11. CASE Before
  BY <1>11, <1>a DEF Before, Refreshed, Proceed, change, Answered, Revised, NoLook, Goto, Abort,
      ReleaseAll, Undo, Conclude
<1>12. CASE GetImage
  BY <1>12, <1>a DEF GetImage, Answered, Goto, topology, change
<1>13. CASE After
  BY <1>13, <1>a DEF After, Refreshed, Proceed, sight, change, Answered, Revised, NoLook, Goto,
      Abort, ReleaseAll, Undo, Conclude
<1>14. CASE Keep
  BY <1>14, <1>a DEF Keep, Refreshed, Goto, change, Answered, Revised, NoLook
<1>15. CASE Admit
  BY <1>15, <1>a DEF Admit, Refreshed, Proceed, sight, change, Answered, Revised, NoLook, Goto,
      Abort, ReleaseAll, Undo, Conclude
<1>16. CASE Inject
  BY <1>16, <1>a DEF Inject, Refreshed, Proceed, Checked, sight, change, Answered, Revised,
      NoLook, Goto, Abort, ReleaseAll, Undo, Conclude
<1>17. CASE BeforeInput
  BY <1>17, <1>a DEF BeforeInput, Refreshed, Proceed, Checked, sight, change, Answered, Revised,
      NoLook, Goto, Abort, ReleaseAll, Undo, Conclude
<1>18. CASE SendEvent
  BY <1>18, <1>a, EventsWritten, RequestsApart DEF SendEvent, WriteGuarded, Remember, topology,
      sight, flow, change, Write
<1>19. CASE EventUnsent
  BY <1>19, <1>a, EventsWritten, RequestsApart DEF EventUnsent, Remember, Abort, server,
      topology, sight, change, ReleaseAll, Undo, Conclude, Goto
<1>20. CASE EventDone
  BY <1>20, <1>a, EventsWritten, RequestsApart DEF EventDone, Returned, topology, sight, change
<1>21. CASE \E i \in Inputs : SendRelease(i)
  <2>1. PICK i \in Inputs : SendRelease(i)
    BY <1>21
  <2>2. Release(i) \in Requests
    BY RequestsApart
  <2>3. wire' = Append(wire, Release(i)) /\ awaiting' = Release(i)
    BY <2>1 DEF SendRelease, Write
  <2>4. QED
    BY <1>a, <2>2, <2>3
<1>22. CASE \E i \in Inputs : ReleaseUnsent(i)
  BY <1>22, <1>a DEF ReleaseUnsent, Due, server, topology, sight, change
<1>23. CASE ReleaseDone
  BY <1>23, <1>a, RequestsApart DEF ReleaseDone, Returned, flow, topology, sight, change
<1>24. CASE AllReleased
  BY <1>24, <1>a, RequestsApart DEF AllReleased, ReleaseAll, Goto, server, topology, sight,
      change
<1>25. CASE Reply
  BY <1>25, <1>a DEF Reply, server, topology
<1>26. CASE Listed
  BY <1>26, <1>a DEF Listed, Refreshed, ReleaseAll, Goto, change, Answered, Revised, NoLook
<1>27. CASE Preflight
  BY <1>27, <1>a DEF Preflight, Refreshed, Proceed, Checked, sight, change, Answered, Revised,
      NoLook, Goto, Abort, ReleaseAll, Undo, Conclude
<1>28. CASE SaveCrtc
  BY <1>28, <1>a DEF SaveCrtc, Answered, Goto, Conclude, Quiet, topology, sight
<1>29. CASE SaveFresh
  BY <1>29, <1>a DEF SaveFresh, Goto, Quiet, server, topology, sight
<1>30. CASE SaveGeometry
  BY <1>30, <1>a DEF SaveGeometry, Answered, Proceed, Quiet, Goto, Abort, topology, sight,
      ReleaseAll, Undo, Conclude
<1>31. CASE Begin
  BY <1>31, <1>a DEF Begin, Refreshed, Checked, ReleaseAll, Abort, sight, Answered, Revised,
      NoLook, Undo, Conclude, Goto
<1>32. CASE ApplyGrow
  BY <1>32, <1>a, ChangesWritten, RequestsApart DEF ApplyGrow, WriteGuarded, Mutates, Write,
      flow, topology, sight
<1>33. CASE NoGrowth
  BY <1>33, <1>a DEF NoGrowth, Goto, server, Quiet, topology, sight
<1>34. CASE ApplyCrtc
  BY <1>34, <1>a, ChangesWritten, RequestsApart DEF ApplyCrtc, WriteGuarded, Mutates, Write,
      flow, topology, sight
<1>35. CASE ApplyShrink
  BY <1>35, <1>a, ChangesWritten, RequestsApart DEF ApplyShrink, WriteGuarded, Mutates, Write,
      flow, topology, sight
<1>36. CASE ApplyUnsent
  BY <1>36, <1>a DEF ApplyUnsent, Undo, NoLook, server, topology, sight
<1>37. CASE Confirm
  BY <1>37, <1>a DEF Confirm, Answered, Conclude, Undo, Quiet, topology, sight
<1>38. CASE Restore
  BY <1>38, <1>a DEF Restore, Answered, Goto, Quiet, topology, sight
<1>39. CASE RestoreGrow
  BY <1>39, <1>a, ChangesWritten, RequestsApart DEF RestoreGrow, Write, Mutates, flow, topology,
      sight
<1>40. CASE RestoreCrtc
  BY <1>40, <1>a, ChangesWritten, RequestsApart DEF RestoreCrtc, Write, Mutates, flow, topology,
      sight
<1>41. CASE RestoreShrink
  BY <1>41, <1>a, ChangesWritten, RequestsApart DEF RestoreShrink, Write, Mutates, flow,
      topology, sight
<1>42. CASE RestoreUnsent
  BY <1>42, <1>a DEF RestoreUnsent, Conclude, NoLook, server, topology, sight, change
<1>43. CASE ListAgain
  BY <1>43, <1>a DEF ListAgain, Answered, NoLook, Goto, topology, sight, change
<1>44. CASE Mutated
  BY <1>44, <1>a, RequestsApart DEF Mutated, Returned, Goto, Follows, NoLook, topology, sight,
      change
<1>45. CASE Restored
  BY <1>45, <1>a DEF Restored, Answered, Conclude, Quiet, topology, sight
<1>46. CASE Actual
  BY <1>46, <1>a DEF Actual, Refreshed, Proceed, change, Answered, Revised, NoLook, Goto, Abort,
      ReleaseAll, Undo, Conclude
<1>47. CASE Report
  BY <1>47, <1>a DEF Report, Refreshed, sight, change, Answered, Revised, NoLook
<1>48. CASE Deauthorize
  BY <1>48, <1>a DEF Deauthorize, server, topology, sight, flow, change
<1>49. CASE Server
  <2>1. UNCHANGED awaiting
    BY <1>49, Served
  <2>2. CASE \E result \in {"ok", "refused"} : Execute(result, awaiting # None)
    <3>1. PICK result \in {"ok", "refused"} : Execute(result, awaiting # None)
      BY <2>2
    <3>2. /\ Head(wire) = wire[1] /\ wire' = Tail(wire) /\ wire # <<>>
          /\ result = "ok" => Obey(wire[1])
          /\ awaiting # None => answer' = result
      BY <1>a, <3>1, Executed DEF Execute
    <3>3. wire' # <<>> => wire'[Len(wire')] = wire[Len(wire)]
      BY <1>a, <3>2
    <3>4. wire' = <<>> => wire[Len(wire)] = wire[1]
      <4>1. Len(wire') = Len(wire) - 1
        BY <1>a, <3>2
      <4>2. wire' = <<>> => Len(wire) = 1
        BY <1>a, <4>1
      <4>3. QED
        BY <4>2
    <3>5. awaiting \in Releases /\ wire[1] = awaiting /\ result = "ok" => awaiting.input \notin down'
      BY <3>2, RequestsApart DEF Obey
    <3>6. QED
      BY <2>1, <3>2, <3>3, <3>4, <3>5
  <2>3. CASE Meddle \/ Hotplug
    BY <2>1, <2>3 DEF Meddle, Hotplug, Meddles
  <2>4. QED
    BY <1>49, <2>2, <2>3 DEF Server
<1>50. QED
  BY <1>1, <1>2, <1>3, <1>4, <1>5, <1>6, <1>7, <1>8, <1>9, <1>10, <1>11, <1>12, <1>13, <1>14,
      <1>15, <1>16, <1>17, <1>18, <1>19, <1>20, <1>21, <1>22, <1>23, <1>24, <1>25, <1>26, <1>27,
      <1>28, <1>29, <1>30, <1>31, <1>32, <1>33, <1>34, <1>35, <1>36, <1>37, <1>38, <1>39, <1>40,
      <1>41, <1>42, <1>43, <1>44, <1>45, <1>46, <1>47, <1>48, <1>49 DEF Next, Request, Continue

LEMMA HeldStaysCovering ==
    ASSUME IInv, Next
    PROVE  Emptied' /\ HeldCoversDown' /\ Separate'
<1> USE DEF IInv, Emptied, HeldCoversDown, Separate, Cleared, Awaiting, LastAwaited, Guarded,
    Injecting, Applying, Restoring, Changing, Refreshing, Querying
<1>a. TypeOK /\ failed \in BOOLEAN /\ held \subseteq Inputs
  BY DEF TypeOK, FlowTypeOK, InputTypeOK
<1>1. CASE Screenshot
  BY <1>1, <1>a DEF Screenshot, Start, server, topology, sight
<1>2. CASE Input
  BY <1>2, <1>a, PlansType DEF Input, Start, server, topology, sight
<1>3. CASE \E next \in {"done", "lease"} : ReleaseHeld(next)
  BY <1>3, <1>a DEF ReleaseHeld, Start, server, topology, sight
<1>4. CASE \E m \in Sizes : Resize(m)
  BY <1>4, <1>a DEF Resize, Start, server, topology, sight
<1>5. CASE Drain
  BY <1>5, <1>a DEF Drain, topology, sight, flow, change
<1>6. CASE ListResources
  BY <1>6, <1>a DEF ListResources, Answered, topology, sight, flow, change
<1>7. CASE Fails
  BY <1>7, <1>a DEF Fails, Abort, NoLook, server, sight, change, ReleaseAll, Undo, Conclude,
      Goto
<1>8. CASE TimesOut
  BY <1>8, <1>a DEF TimesOut, Abort, NoLook, topology, sight, change, ReleaseAll, Undo,
      Conclude, Goto
<1>9. CASE Refused
  BY <1>9, <1>a DEF Refused, Returned, Abort, NoLook, topology, sight, change, ReleaseAll, Undo,
      Conclude, Goto
<1>10. CASE Guard
  BY <1>10, <1>a DEF Guard, Abort, server, topology, sight, change, ReleaseAll, Undo, Conclude,
      Goto
<1>11. CASE Before
  BY <1>11, <1>a DEF Before, Refreshed, Proceed, change, Answered, Revised, NoLook, Goto, Abort,
      ReleaseAll, Undo, Conclude
<1>12. CASE GetImage
  BY <1>12, <1>a DEF GetImage, Answered, Goto, topology, change
<1>13. CASE After
  BY <1>13, <1>a DEF After, Refreshed, Proceed, sight, change, Answered, Revised, NoLook, Goto,
      Abort, ReleaseAll, Undo, Conclude
<1>14. CASE Keep
  BY <1>14, <1>a DEF Keep, Refreshed, Goto, change, Answered, Revised, NoLook
<1>15. CASE Admit
  BY <1>15, <1>a DEF Admit, Refreshed, Proceed, sight, change, Answered, Revised, NoLook, Goto,
      Abort, ReleaseAll, Undo, Conclude
<1>16. CASE Inject
  BY <1>16, <1>a DEF Inject, Refreshed, Proceed, Checked, sight, change, Answered, Revised,
      NoLook, Goto, Abort, ReleaseAll, Undo, Conclude
<1>17. CASE BeforeInput
  BY <1>17, <1>a DEF BeforeInput, Refreshed, Proceed, Checked, sight, change, Answered, Revised,
      NoLook, Goto, Abort, ReleaseAll, Undo, Conclude
<1>18. CASE SendEvent
  BY <1>18, <1>a, EventsWritten, RequestsApart DEF SendEvent, WriteGuarded, Remember, topology,
      sight, flow, change, Write
<1>19. CASE EventUnsent
  BY <1>19, <1>a, EventsWritten, RequestsApart DEF EventUnsent, Remember, Abort, server,
      topology, sight, change, ReleaseAll, Undo, Conclude, Goto
<1>20. CASE EventDone
  BY <1>20, <1>a, EventsWritten, RequestsApart DEF EventDone, Returned, topology, sight, change
<1>21. CASE \E i \in Inputs : SendRelease(i)
  BY <1>21, <1>a, RequestsApart DEF SendRelease, Due, Write, topology, sight, change
<1>22. CASE \E i \in Inputs : ReleaseUnsent(i)
  BY <1>22, <1>a DEF ReleaseUnsent, Due, server, topology, sight, change
<1>23. CASE ReleaseDone
  <2>1. HeldCoversDown' /\ Separate'
    BY <1>23, <1>a, RequestsApart DEF ReleaseDone, Returned, flow, topology, sight, change
  <2>2. Emptied'
    <3>1. /\ pc = "release" /\ awaiting # None /\ UNCHANGED <<pc, failed, rest>>
          /\ held' = held \ {awaiting.input}
      BY <1>23 DEF ReleaseDone, Returned, flow
    <3>2. \A i \in held' : i \in rest \/ failed
      BY <1>a, <3>1, RequestsApart
    <3>3. QED
      BY <3>1, <3>2
  <2>3. QED
    BY <2>1, <2>2
<1>24. CASE AllReleased
  BY <1>24, <1>a, RequestsApart DEF AllReleased, ReleaseAll, Goto, server, topology, sight,
      change
<1>25. CASE Reply
  BY <1>25, <1>a DEF Reply, server, topology
<1>26. CASE Listed
  BY <1>26, <1>a DEF Listed, Refreshed, ReleaseAll, Goto, change, Answered, Revised, NoLook
<1>27. CASE Preflight
  BY <1>27, <1>a DEF Preflight, Refreshed, Proceed, Checked, sight, change, Answered, Revised,
      NoLook, Goto, Abort, ReleaseAll, Undo, Conclude
<1>28. CASE SaveCrtc
  BY <1>28, <1>a DEF SaveCrtc, Answered, Goto, Conclude, Quiet, topology, sight
<1>29. CASE SaveFresh
  BY <1>29, <1>a DEF SaveFresh, Goto, Quiet, server, topology, sight
<1>30. CASE SaveGeometry
  BY <1>30, <1>a DEF SaveGeometry, Answered, Proceed, Quiet, Goto, Abort, topology, sight,
      ReleaseAll, Undo, Conclude
<1>31. CASE Begin
  BY <1>31, <1>a DEF Begin, Refreshed, Checked, ReleaseAll, Abort, sight, Answered, Revised,
      NoLook, Undo, Conclude, Goto
<1>32. CASE ApplyGrow
  BY <1>32, <1>a, ChangesWritten, RequestsApart DEF ApplyGrow, WriteGuarded, Mutates, Write,
      flow, topology, sight
<1>33. CASE NoGrowth
  BY <1>33, <1>a DEF NoGrowth, Goto, server, Quiet, topology, sight
<1>34. CASE ApplyCrtc
  BY <1>34, <1>a, ChangesWritten, RequestsApart DEF ApplyCrtc, WriteGuarded, Mutates, Write,
      flow, topology, sight
<1>35. CASE ApplyShrink
  BY <1>35, <1>a, ChangesWritten, RequestsApart DEF ApplyShrink, WriteGuarded, Mutates, Write,
      flow, topology, sight
<1>36. CASE ApplyUnsent
  BY <1>36, <1>a DEF ApplyUnsent, Undo, NoLook, server, topology, sight
<1>37. CASE Confirm
  BY <1>37, <1>a DEF Confirm, Answered, Conclude, Undo, Quiet, topology, sight
<1>38. CASE Restore
  BY <1>38, <1>a DEF Restore, Answered, Goto, Quiet, topology, sight
<1>39. CASE RestoreGrow
  BY <1>39, <1>a, ChangesWritten, RequestsApart DEF RestoreGrow, Write, Mutates, flow, topology,
      sight
<1>40. CASE RestoreCrtc
  BY <1>40, <1>a, ChangesWritten, RequestsApart DEF RestoreCrtc, Write, Mutates, flow, topology,
      sight
<1>41. CASE RestoreShrink
  BY <1>41, <1>a, ChangesWritten, RequestsApart DEF RestoreShrink, Write, Mutates, flow,
      topology, sight
<1>42. CASE RestoreUnsent
  BY <1>42, <1>a DEF RestoreUnsent, Conclude, NoLook, server, topology, sight, change
<1>43. CASE ListAgain
  BY <1>43, <1>a DEF ListAgain, Answered, NoLook, Goto, topology, sight, change
<1>44. CASE Mutated
  BY <1>44, <1>a, RequestsApart DEF Mutated, Returned, Goto, Follows, NoLook, topology, sight,
      change
<1>45. CASE Restored
  BY <1>45, <1>a DEF Restored, Answered, Conclude, Quiet, topology, sight
<1>46. CASE Actual
  BY <1>46, <1>a DEF Actual, Refreshed, Proceed, change, Answered, Revised, NoLook, Goto, Abort,
      ReleaseAll, Undo, Conclude
<1>47. CASE Report
  BY <1>47, <1>a DEF Report, Refreshed, sight, change, Answered, Revised, NoLook
<1>48. CASE Deauthorize
  BY <1>48, <1>a DEF Deauthorize, server, topology, sight, flow, change
<1>49. CASE Server
  <2>1. Emptied'
    BY <1>49, <1>a DEF Server, Execute, Undoing, Meddle, Hotplug, topology, sight, flow, change,
        Obey, Refuse, Meddles, Notify
  <2>2. HeldCoversDown'
    BY <1>49, Served
  <2>3. Separate'
    BY <1>49, Served DEF flow
  <2>4. QED
    BY <2>1, <2>2, <2>3
<1>50. QED
  BY <1>1, <1>2, <1>3, <1>4, <1>5, <1>6, <1>7, <1>8, <1>9, <1>10, <1>11, <1>12, <1>13, <1>14,
      <1>15, <1>16, <1>17, <1>18, <1>19, <1>20, <1>21, <1>22, <1>23, <1>24, <1>25, <1>26, <1>27,
      <1>28, <1>29, <1>30, <1>31, <1>32, <1>33, <1>34, <1>35, <1>36, <1>37, <1>38, <1>39, <1>40,
      <1>41, <1>42, <1>43, <1>44, <1>45, <1>46, <1>47, <1>48, <1>49 DEF Next, Request, Continue

-----------------------------------------------------------------------------
(* The client's snapshot *)

LEMMA SnapshotStays ==
    ASSUME IInv, Next
    PROVE  Snapped' /\ Pictured'
<1> USE DEF IInv, Snapped, Pictured, Guarded, Injecting, Applying, Restoring, Changing,
    Refreshing, Querying
<1>a. /\ TypeOK /\ revision \in Nat /\ 0 < revision /\ snap.rev \in Nat /\ view.rev \in Nat
      /\ view \in Views
      /\ look \in [step : {"idle", "drained", "listed"}, changed : BOOLEAN, stamp : Nat]
      /\ noticed \in {"none", "queued", "arrived"}
  BY Numbers
<1>1. CASE Screenshot
  BY <1>1, <1>a DEF Screenshot, Start, NoView, server, topology, sight
<1>2. CASE Input
  BY <1>2, <1>a, PlansType DEF Input, NoView, Start, server, topology, sight
<1>3. CASE \E next \in {"done", "lease"} : ReleaseHeld(next)
  BY <1>3, <1>a DEF ReleaseHeld, Start, NoView, server, topology, sight
<1>4. CASE \E m \in Sizes : Resize(m)
  BY <1>4, <1>a DEF Resize, Start, NoView, server, topology, sight
<1>5. CASE Drain
  BY <1>5, <1>a DEF Drain, topology, sight, flow, change
<1>6. CASE ListResources
  BY <1>6, <1>a DEF ListResources, Answered, topology, sight, flow, change
<1>7. CASE Fails
  BY <1>7, <1>a DEF Fails, Abort, NoLook, NoView, server, sight, change, ReleaseAll, Undo,
      Conclude, Goto
<1>8. CASE TimesOut
  BY <1>8, <1>a DEF TimesOut, Abort, NoLook, topology, sight, change, ReleaseAll, Undo,
      Conclude, Goto
<1>9. CASE Refused
  BY <1>9, <1>a DEF Refused, Returned, Abort, NoLook, topology, sight, change, ReleaseAll, Undo,
      Conclude, Goto
<1>10. CASE Guard
  BY <1>10, <1>a DEF Guard, Abort, server, topology, sight, change, ReleaseAll, Undo, Conclude,
      Goto
<1>11. CASE Before
  BY <1>11, <1>a, Refreshes
  DEF Before, Looked, Proceed, Checked, Goto, Abort, ReleaseAll, change, sight, NoView
<1>12. CASE GetImage
  BY <1>12, <1>a DEF GetImage, Answered, Goto, topology, change
<1>13. CASE After
  BY <1>13, <1>a, Refreshes
  DEF After, Looked, Proceed, Checked, Goto, Abort, ReleaseAll, change, sight, NoView
<1>14. CASE Keep
  BY <1>14, <1>a, Refreshes
  DEF Keep, Looked, Proceed, Checked, Goto, Abort, ReleaseAll, change, sight, NoView
<1>15. CASE Admit
  BY <1>15, <1>a, Refreshes
  DEF Admit, Looked, Proceed, Checked, Goto, Abort, ReleaseAll, change, sight, NoView
<1>16. CASE Inject
  BY <1>16, <1>a, Refreshes
  DEF Inject, Looked, Proceed, Checked, Goto, Abort, ReleaseAll, change, sight, NoView
<1>17. CASE BeforeInput
  BY <1>17, <1>a, Refreshes
  DEF BeforeInput, Looked, Proceed, Checked, Goto, Abort, ReleaseAll, change, sight, NoView
<1>18. CASE SendEvent
  BY <1>18, <1>a, EventsWritten, RequestsApart DEF SendEvent, WriteGuarded, Remember, topology,
      sight, flow, change, Write
<1>19. CASE EventUnsent
  BY <1>19, <1>a, EventsWritten, RequestsApart DEF EventUnsent, Remember, Abort, server,
      topology, sight, change, ReleaseAll, Undo, Conclude, Goto
<1>20. CASE EventDone
  BY <1>20, <1>a, EventsWritten, RequestsApart DEF EventDone, Returned, topology, sight, change
<1>21. CASE \E i \in Inputs : SendRelease(i)
  BY <1>21, <1>a, RequestsApart DEF SendRelease, Due, Write, topology, sight, change
<1>22. CASE \E i \in Inputs : ReleaseUnsent(i)
  BY <1>22, <1>a DEF ReleaseUnsent, Due, server, topology, sight, change
<1>23. CASE ReleaseDone
  BY <1>23, <1>a, RequestsApart DEF ReleaseDone, Returned, flow, topology, sight, change
<1>24. CASE AllReleased
  BY <1>24, <1>a, RequestsApart DEF AllReleased, ReleaseAll, Goto, server, topology, sight,
      change
<1>25. CASE Reply
  BY <1>25, <1>a DEF Reply, NoView, server, topology
<1>26. CASE Listed
  BY <1>26, <1>a, Refreshes
  DEF Listed, Looked, Proceed, Checked, Goto, Abort, ReleaseAll, change, sight, NoView
<1>27. CASE Preflight
  BY <1>27, <1>a, Refreshes
  DEF Preflight, Looked, Proceed, Checked, Goto, Abort, ReleaseAll, change, sight, NoView
<1>28. CASE SaveCrtc
  BY <1>28, <1>a DEF SaveCrtc, Answered, Goto, Conclude, Quiet, topology, sight
<1>29. CASE SaveFresh
  BY <1>29, <1>a DEF SaveFresh, Goto, Quiet, server, topology, sight
<1>30. CASE SaveGeometry
  BY <1>30, <1>a DEF SaveGeometry, Answered, Proceed, Quiet, Goto, Abort, topology, sight,
      ReleaseAll, Undo, Conclude
<1>31. CASE Begin
  BY <1>31, <1>a, Refreshes
  DEF Begin, Looked, Proceed, Checked, Goto, Abort, ReleaseAll, change, sight, NoView
<1>32. CASE ApplyGrow
  BY <1>32, <1>a, ChangesWritten, RequestsApart DEF ApplyGrow, WriteGuarded, Mutates, Write,
      flow, topology, sight
<1>33. CASE NoGrowth
  BY <1>33, <1>a DEF NoGrowth, Goto, server, Quiet, topology, sight
<1>34. CASE ApplyCrtc
  BY <1>34, <1>a, ChangesWritten, RequestsApart DEF ApplyCrtc, WriteGuarded, Mutates, Write,
      flow, topology, sight
<1>35. CASE ApplyShrink
  BY <1>35, <1>a, ChangesWritten, RequestsApart DEF ApplyShrink, WriteGuarded, Mutates, Write,
      flow, topology, sight
<1>36. CASE ApplyUnsent
  BY <1>36, <1>a DEF ApplyUnsent, Undo, NoLook, server, topology, sight
<1>37. CASE Confirm
  BY <1>37, <1>a DEF Confirm, Answered, Conclude, Undo, Quiet, topology, sight
<1>38. CASE Restore
  BY <1>38, <1>a DEF Restore, Answered, Goto, Quiet, topology, sight
<1>39. CASE RestoreGrow
  BY <1>39, <1>a, ChangesWritten, RequestsApart DEF RestoreGrow, Write, Mutates, flow, topology,
      sight
<1>40. CASE RestoreCrtc
  BY <1>40, <1>a, ChangesWritten, RequestsApart DEF RestoreCrtc, Write, Mutates, flow, topology,
      sight
<1>41. CASE RestoreShrink
  BY <1>41, <1>a, ChangesWritten, RequestsApart DEF RestoreShrink, Write, Mutates, flow,
      topology, sight
<1>42. CASE RestoreUnsent
  BY <1>42, <1>a DEF RestoreUnsent, Conclude, NoLook, server, topology, sight, change
<1>43. CASE ListAgain
  BY <1>43, <1>a DEF ListAgain, Answered, NoLook, Goto, topology, sight, change
<1>44. CASE Mutated
  BY <1>44, <1>a, RequestsApart DEF Mutated, Returned, Goto, Follows, NoLook, topology, sight,
      change
<1>45. CASE Restored
  BY <1>45, <1>a DEF Restored, Answered, Conclude, Quiet, topology, sight
<1>46. CASE Actual
  BY <1>46, <1>a, Refreshes
  DEF Actual, Looked, Proceed, Checked, Goto, Abort, ReleaseAll, change, sight, NoView
<1>47. CASE Report
  BY <1>47, <1>a, Refreshes
  DEF Report, Looked, Proceed, Checked, Goto, Abort, ReleaseAll, change, sight, NoView
<1>48. CASE Deauthorize
  BY <1>48, <1>a DEF Deauthorize, server, topology, sight, flow, change
<1>49. CASE Server
  BY <1>49, <1>a DEF Server, Execute, Undoing, Meddle, Hotplug, topology, sight, flow, change,
      Obey, Refuse, Meddles, Notify
<1>50. QED
  BY <1>1, <1>2, <1>3, <1>4, <1>5, <1>6, <1>7, <1>8, <1>9, <1>10, <1>11, <1>12, <1>13, <1>14,
      <1>15, <1>16, <1>17, <1>18, <1>19, <1>20, <1>21, <1>22, <1>23, <1>24, <1>25, <1>26, <1>27,
      <1>28, <1>29, <1>30, <1>31, <1>32, <1>33, <1>34, <1>35, <1>36, <1>37, <1>38, <1>39, <1>40,
      <1>41, <1>42, <1>43, <1>44, <1>45, <1>46, <1>47, <1>48, <1>49 DEF Next, Request, Continue

-----------------------------------------------------------------------------
(* The theorems *)

LEMMA HoldsAtFirst == Init => IInv
<1> SUFFICES ASSUME Init PROVE IInv
  OBVIOUS
<1> USE DEF Init, ServerInit
<1>1. ServerTypeOK
  <2>1. Preferred \in Positive \X Positive
    BY SizesAssumption
  <2>2. screen \in Screens
    BY <2>1 DEF Screens
  <2>3. QED
    BY <2>2, SizesAssumption DEF ServerTypeOK, Positive
<1>2. SightTypeOK
  <2>1. NoView \in Views /\ 1 \in Positive /\ 1 \in Nat
    BY DEF NoView, Views, Positive
  <2>2. NoLook \in [step : {"idle", "drained", "listed"}, changed : BOOLEAN, stamp : Nat]
    BY DEF NoLook
  <2>3. QED
    BY <2>1, <2>2, SizesAssumption DEF SightTypeOK
<1>a. ChangeTypeOK
  <2>1. Unsaved \in [mode : Sizes \cup {Off}, size : Positive \X Positive,
                    mm : Positive \X Positive, meddles : Nat]
    BY DEF Unsaved, Positive
  <2>2. <<1, 1>> \in Positive \X Positive
    BY DEF Positive
  <2>3. QED
    BY <2>1, <2>2, SizesAssumption DEF ChangeTypeOK
<1>3. InputTypeOK
  BY DEF InputTypeOK
<1>4. FlowTypeOK
  <2>1. <<>> \in Seq(Presses \cup Releases \cup {Motion})
    OBVIOUS
  <2>2. QED
    BY <2>1 DEF FlowTypeOK, Steps
<1>5. Awaiting /\ Cleared /\ Planned /\ LastAwaited /\ Emptied
  BY DEF Awaiting, Cleared, Planned, LastAwaited, Emptied, Guarded, Injecting, Applying, Restoring
<1>6. HeldCoversDown /\ Separate /\ Late
  BY DEF HeldCoversDown, Separate, Late
<1>7. Snapped /\ Pictured
  BY DEF Snapped, Pictured, NoView
<1>8. QED
  BY <1>1, <1>2, <1>a, <1>3, <1>4, <1>5, <1>6, <1>7 DEF IInv, TypeOK

LEMMA HoldsOn == IInv /\ [Next]_vars => IInv'
<1> SUFFICES ASSUME IInv, [Next]_vars PROVE IInv'
  OBVIOUS
<1>1. CASE Next
  <2>1. TypeOK'
    BY <1>1, ServerStaysTyped, SightStaysTyped, FlowStaysTyped DEF TypeOK
  <2>2. Awaiting' /\ Cleared' /\ Planned' /\ Late' /\ LastAwaited'
    BY <1>1, RequestsStayAwaited, LastAwaitedStays
  <2>3. Emptied' /\ HeldCoversDown' /\ Separate' /\ Snapped' /\ Pictured'
    BY <1>1, HeldStaysCovering, SnapshotStays
  <2>4. QED
    BY <2>1, <2>2, <2>3 DEF IInv
<1>2. CASE UNCHANGED vars
  <2> USE <1>2 DEF vars, server, topology, sight, flow, change, IInv
  <2>1. TypeOK'
    BY DEF TypeOK, ServerTypeOK, SightTypeOK, FlowTypeOK, InputTypeOK, ChangeTypeOK
  <2>2. Awaiting' /\ Cleared' /\ Planned' /\ LastAwaited' /\ Emptied'
    BY DEF Awaiting, Cleared, Planned, LastAwaited, Emptied
  <2>3. HeldCoversDown' /\ Separate' /\ Late' /\ Snapped' /\ Pictured'
    BY DEF HeldCoversDown, Separate, Late, Snapped, Pictured
  <2>4. QED
    BY <2>1, <2>2, <2>3
<1>3. QED
  BY <1>1, <1>2

\* The parts of the invariant together are kept by every step of the backend, the server and
\* the other clients.
THEOREM Invariance == Spec => []IInv
BY HoldsAtFirst, HoldsOn, PTL DEF Spec

\* Every variable keeps its type, through every failure of a request.
THEOREM TypeCorrect == Spec => []TypeOK
<1>1. IInv => TypeOK
  BY DEF IInv
<1>2. QED
  BY <1>1, Invariance, PTL

\* release_all and fake (x11.rs): what is down at the server, or may yet be, is held by the
\* backend, whatever of a press or a release was lost or came late.
THEOREM HeldCovers == Spec => []HeldCoversDown
<1>1. IInv => HeldCoversDown
  BY DEF IInv
<1>2. QED
  BY <1>1, Invariance, PTL

\* resize_display (x11.rs): no request to change the display is on its way while a key or a
\* button is down, not even one nobody waits for any more.
THEOREM ChangesFindNothingDown == Spec => []NothingDownInTransaction
<1>1. IInv => NothingDownInTransaction
  BY DEF IInv, Separate, HeldCoversDown, NothingDownInTransaction, TypeOK, ServerTypeOK
<1>2. QED
  BY <1>1, Invariance, PTL

\* The guard before every event and every change (ActionGuard, lib.rs): at most one request
\* follows the end of the authorization.
THEOREM OneLate == Spec => []OneLateRequest
<1>1. IInv => OneLateRequest
  BY DEF IInv, Late, OneLateRequest
<1>2. QED
  BY <1>1, Invariance, PTL

\* screenshot (x11.rs): a snapshot the client holds shows the layout of its revision, although
\* the layout may change and change back while the picture is taken.
THEOREM SnapshotsShowTheirLayout == Spec => []SnapshotShowsItsLayout
<1>1. IInv => SnapshotShowsItsLayout
  BY DEF IInv, Snapped, SnapshotShowsItsLayout
<1>2. QED
  BY <1>1, Invariance, PTL

\* checked_display (x11.rs) before each event: an event is aimed at the layout in the picture.
THEOREM InputsMatchTheirPicture == Spec => []InputMatchesPicture
<1>1. IInv => InputMatchesPicture
  BY DEF IInv, Snapped, InputMatchesPicture
<1>2. QED
  BY <1>1, Invariance, PTL

-----------------------------------------------------------------------------
(* The invariant of the mode change, in parts *)

\* The releases before the transaction, as long as they go well.
Preparing == pc = "release" /\ then = "apply.grow" /\ ~failed

\* The mode, then the root window, then the revision are looked at.
Saving == {"resize.fresh", "resize.geometry", "resize.again"}

\* From the mode that is saved to the end of the undo.
Inside == Preparing \/ pc \in Saving \cup Applying \cup Restoring

\* The mode change is over.
Told == {"actual", "report", "done"}

\* A mode change has its outcome when it is over, and a good one was seen when nothing was on
\* its way any more. Nobody has taken changes back.
Concluded ==
    /\ pc \notin Told => outcome = "none"
    /\ outcome \in {"applied", "os_failed"} => wire = <<>>
    /\ saved.meddles <= meddles

\* The CRTC lies within the root window.
Within == Fits(mode, screen.size)

\* Nothing is on its way but the request whose answer is awaited; only the undo of a change
\* that was made may begin with one that was given up.
Alone ==
    Inside /\ (pc = "restore" => ~mutated) =>
        wire = <<>> \/ (awaiting # None /\ wire = <<awaiting>>)

\* What is asked of the server in each step that counts for the report or for the undo, and
\* that it counts as a change.
Asked ==
    /\ awaiting # None =>
        /\ pc = "apply.shrink" => awaiting = SetScreen(target, TargetMM)
        /\ pc = "restore.grow" => awaiting = SetScreen(bound, saved.mm)
        /\ pc = "restore.crtc" => awaiting = SetCrtc(saved.mode, look.stamp)
        /\ pc = "restore.shrink" => awaiting = SetScreen(saved.size, saved.mm)
        /\ pc \in Changing => mutated
    /\ pc \in Restoring \ {"restore", "restored"} => mutated

\* The last request of either direction has set the millimetres, which others leave alone.
Measured ==
    /\ pc = "confirm" => screen.mm = TargetMM
    /\ pc = "restored" /\ mutated => screen.mm = saved.mm
    /\ pc \in {"apply.shrink", "restore.shrink"} /\ awaiting # None /\ wire = <<>> /\ answer = "ok"
       => screen.mm = awaiting.screen.mm

\* Until a change is made, the display is what was saved, unless another client has changed it.
Untouched ==
    meddles = saved.meddles =>
        /\ pc = "resize.fresh" => mode = saved.mode
        /\ \/ Preparing \/ pc \in Saving \ {"resize.fresh"}
           \/ ~mutated /\ pc \in Applying \cup Restoring
           => mode = saved.mode /\ screen = [size |-> saved.size, mm |-> saved.mm]

\* The mode that was saved lies within the root window that was saved, although they were not
\* read at once: a change between the two has a notification on its heels.
Restorable ==
    /\ pc \in {"resize.crtc", "resize.fresh", "resize.geometry"} => look.step = "idle"
    /\ pc = "resize.fresh" => mode = saved.mode \/ noticed # "none"
    /\ pc = "resize.geometry" => Fits(saved.mode, saved.size) \/ noticed # "none"
    /\ pc = "resize.again" /\ ~Fits(saved.mode, saved.size) =>
        IF look.step = "idle" THEN noticed = "arrived" ELSE look.changed
    /\ Preparing \/ pc \in Applying \cup Restoring => Fits(saved.mode, saved.size)

\* How far the undo has come, if nothing went wrong since it began.
Undone ==
    ~trouble =>
        /\ pc \in Changing \cap Restoring /\ awaiting # None /\ wire = <<>> => answer = "ok"
        /\ pc = "restore.grow" =>
            /\ Fits(mode, bound) /\ Fits(saved.size, bound)
            /\ awaiting # None /\ wire = <<>> => screen.size = bound
        /\ pc \in {"restore.list", "restore.crtc"} => Fits(saved.size, screen.size)
        /\ pc = "restore.crtc" =>
            /\ look.stamp = stamp
            /\ awaiting # None /\ wire = <<>> => mode = saved.mode
        /\ pc = "restore.shrink" =>
            /\ mode = saved.mode
            /\ awaiting # None /\ wire = <<>> => screen.size = saved.size
        /\ pc = "restored" /\ mutated => mode = saved.mode /\ screen.size = saved.size

ChangeInv ==
    /\ Concluded /\ Within /\ Alone /\ Asked /\ Measured /\ Untouched /\ Restorable /\ Undone
    /\ ReportIsTrue /\ UndoWorks

\* A step outside of the mode change: nothing of the display changes, and an outcome is kept
\* with all it is about, replaced, or forgotten.
Aside ==
    /\ ~Inside' /\ UNCHANGED <<mode, screen, stamp, meddles>> /\ saved' \in {saved, Unsaved}
    /\ pc' = "resize.crtc" => look' = NoLook \/ (pc = "resize.crtc" /\ look' = look)
    /\ \/ outcome' = "none"
       \/ /\ pc \in Told /\ pc' \in Told /\ outcome' \in {outcome, "capture_failed"}
          /\ pc' = "actual" => pc = "actual"
          /\ UNCHANGED <<wire, target, saved, mutated, trouble>>

\* Only the mode that is saved leads into the mode change.
LEMMA Outside ==
    ASSUME IInv, Concluded, Next, ~Server, ~Inside
    PROVE  SaveCrtc \/ Aside
<1> USE DEF Aside, Inside, Preparing, Saving, Told, Concluded, Guarded, Injecting, Applying,
    Restoring, Changing, Refreshing, Querying
<1>a. Awaiting
  BY DEF IInv
<1>1. CASE Screenshot
  BY <1>1, <1>a DEF Screenshot, Start, server, topology, sight, Awaiting
<1>2. CASE Input
  BY <1>2, <1>a DEF Input, Start, server, topology, sight, Awaiting
<1>3. CASE \E next \in {"done", "lease"} : ReleaseHeld(next)
  BY <1>3, <1>a DEF ReleaseHeld, Start, server, topology, sight, Awaiting
<1>4. CASE \E m \in Sizes : Resize(m)
  BY <1>4, <1>a DEF Resize, Start, server, topology, sight, Awaiting
<1>5. CASE Drain
  BY <1>5, <1>a DEF Drain, topology, sight, flow, change, Awaiting
<1>6. CASE ListResources
  BY <1>6, <1>a DEF ListResources, Answered, topology, sight, flow, change, Awaiting
<1>7. CASE Fails
  BY <1>7, <1>a DEF Fails, Abort, NoLook, server, sight, change, ReleaseAll, Undo, Conclude,
      Goto, Awaiting
<1>8. CASE TimesOut
  BY <1>8, <1>a DEF TimesOut, Abort, NoLook, topology, sight, change, ReleaseAll, Undo,
      Conclude, Goto, Awaiting
<1>9. CASE Refused
  BY <1>9, <1>a DEF Refused, Returned, Abort, NoLook, topology, sight, change, ReleaseAll, Undo,
      Conclude, Goto, Awaiting
<1>10. CASE Guard
  BY <1>10, <1>a DEF Guard, Abort, server, topology, sight, change, ReleaseAll, Undo, Conclude,
      Goto, Awaiting
<1>11. CASE Before
  BY <1>11, <1>a DEF Before, Refreshed, Proceed, change, Answered, Revised, NoLook, Goto, Abort,
      ReleaseAll, Undo, Conclude, Awaiting
<1>12. CASE GetImage
  BY <1>12, <1>a DEF GetImage, Answered, Goto, topology, change, Awaiting
<1>13. CASE After
  BY <1>13, <1>a DEF After, Refreshed, Proceed, sight, change, Answered, Revised, NoLook, Goto,
      Abort, ReleaseAll, Undo, Conclude, Awaiting
<1>14. CASE Keep
  BY <1>14, <1>a DEF Keep, Refreshed, Goto, change, Answered, Revised, NoLook, Awaiting
<1>15. CASE Admit
  BY <1>15, <1>a DEF Admit, Refreshed, Proceed, sight, change, Answered, Revised, NoLook, Goto,
      Abort, ReleaseAll, Undo, Conclude, Awaiting
<1>16. CASE Inject
  BY <1>16, <1>a DEF Inject, Refreshed, Proceed, Checked, sight, change, Answered, Revised,
      NoLook, Goto, Abort, ReleaseAll, Undo, Conclude, Awaiting
<1>17. CASE BeforeInput
  BY <1>17, <1>a DEF BeforeInput, Refreshed, Proceed, Checked, sight, change, Answered, Revised,
      NoLook, Goto, Abort, ReleaseAll, Undo, Conclude, Awaiting
<1>18. CASE SendEvent
  BY <1>18, <1>a DEF SendEvent, WriteGuarded, Remember, topology, sight, flow, change, Write,
      Awaiting
<1>19. CASE EventUnsent
  BY <1>19, <1>a DEF EventUnsent, Remember, Abort, server, topology, sight, change, ReleaseAll,
      Undo, Conclude, Goto, Awaiting
<1>20. CASE EventDone
  BY <1>20, <1>a DEF EventDone, Returned, topology, sight, change, Awaiting
<1>21. CASE \E i \in Inputs : SendRelease(i)
  BY <1>21, <1>a DEF SendRelease, Due, Write, topology, sight, change, Awaiting
<1>22. CASE \E i \in Inputs : ReleaseUnsent(i)
  BY <1>22, <1>a DEF ReleaseUnsent, Due, server, topology, sight, change, Awaiting
<1>23. CASE ReleaseDone
  BY <1>23, <1>a DEF ReleaseDone, Returned, flow, topology, sight, change, Awaiting
<1>24. CASE AllReleased
  BY <1>24, <1>a DEF AllReleased, ReleaseAll, Goto, server, topology, sight, change, Awaiting
<1>25. CASE Reply
  BY <1>25, <1>a DEF Reply, server, topology, Awaiting
<1>26. CASE Listed
  BY <1>26, <1>a DEF Listed, Refreshed, ReleaseAll, Goto, change, Answered, Revised, NoLook,
      Awaiting
<1>27. CASE Preflight
  <2>1. /\ pc = "resize.first" /\ look' = NoLook
        /\ UNCHANGED <<mode, screen, stamp, meddles, change>>
        /\ Proceed(authorized /\ Checked(view.rev), "resize.crtc")
    BY <1>27 DEF Preflight, Refreshed, Answered
  <2>2. Goto("resize.crtc") \/ Goto("done")
    BY <2>1 DEF Proceed, Abort
  <2>3. QED
    BY <2>1, <2>2 DEF Goto, change
<1>28. CASE Actual
  BY <1>28, <1>a DEF Actual, Refreshed, Proceed, change, Answered, Revised, NoLook, Goto, Abort,
      ReleaseAll, Undo, Conclude, Awaiting
<1>29. CASE Report
  BY <1>29, <1>a DEF Report, Refreshed, sight, change, Answered, Revised, NoLook, Awaiting
<1>30. CASE Deauthorize
  BY <1>30, <1>a DEF Deauthorize, server, topology, sight, flow, change, Awaiting
<1>31. CASE SaveCrtc
  BY <1>31
<1>32. /\ ~SaveFresh /\ ~SaveGeometry /\ ~Begin /\ ~ApplyGrow /\ ~NoGrowth /\ ~ApplyCrtc
      /\ ~ApplyShrink /\ ~ApplyUnsent /\ ~Confirm /\ ~Restore /\ ~RestoreGrow /\ ~RestoreCrtc
      /\ ~RestoreShrink /\ ~RestoreUnsent /\ ~ListAgain /\ ~Mutated /\ ~Restored
  BY DEF SaveFresh, SaveGeometry, Begin, ApplyGrow, NoGrowth, ApplyCrtc, ApplyShrink,
      ApplyUnsent, Confirm, Restore, RestoreGrow, RestoreCrtc, RestoreShrink, RestoreUnsent,
      ListAgain, Mutated, Restored
<1>33. QED
  BY <1>1, <1>2, <1>3, <1>4, <1>5, <1>6, <1>7, <1>8, <1>9, <1>10, <1>11, <1>12, <1>13, <1>14,
      <1>15, <1>16, <1>17, <1>18, <1>19, <1>20, <1>21, <1>22, <1>23, <1>24, <1>25, <1>26, <1>27,
      <1>28, <1>29, <1>30, <1>31, <1>32 DEF Next, Request, Continue

\* What may happen in it, but for the server.
LEMMA InsideSteps ==
    ASSUME Next, ~Server, Inside
    PROVE  \/ Drain \/ ListResources \/ Fails \/ TimesOut \/ Refused \/ Guard \/ Deauthorize
           \/ \E i \in Inputs : SendRelease(i) \/ ReleaseUnsent(i)
           \/ ReleaseDone \/ AllReleased
           \/ SaveFresh \/ SaveGeometry \/ Begin
           \/ ApplyGrow \/ NoGrowth \/ ApplyCrtc \/ ApplyShrink \/ ApplyUnsent \/ Confirm
           \/ Restore \/ RestoreGrow \/ RestoreCrtc \/ RestoreShrink \/ RestoreUnsent
           \/ ListAgain \/ Mutated \/ Restored
<1>1. pc \in {"release"} \cup Saving \cup Applying \cup Restoring
  BY DEF Inside, Preparing
<1>2. ~Request
  BY <1>1 DEF Request, Screenshot, Input, ReleaseHeld, Resize, Start, Saving, Applying,
      Restoring
<1>3. /\ ~Before /\ ~GetImage /\ ~After /\ ~Keep /\ ~Admit /\ ~Inject /\ ~BeforeInput /\ ~SendEvent
      /\ ~EventUnsent /\ ~EventDone /\ ~Reply /\ ~Listed /\ ~Preflight /\ ~SaveCrtc /\ ~Actual
      /\ ~Report
  BY <1>1 DEF Before, GetImage, After, Keep, Admit, Inject, BeforeInput, SendEvent, EventUnsent,
      EventDone, Reply, Listed, Preflight, SaveCrtc, Actual, Report, Saving, Applying, Restoring
<1>4. QED
  BY <1>2, <1>3 DEF Next, Continue

-----------------------------------------------------------------------------
(* Every step keeps the invariant *)

LEMMA FitsJoin ==
    ASSUME NEW a \in Positive \X Positive, NEW b \in Positive \X Positive
    PROVE  /\ Join(a, b) \in Positive \X Positive /\ Fits(a, Join(a, b)) /\ Fits(b, Join(a, b))
BY JoinType DEF Fits, Join, Larger, Positive

LEMMA FitsOver ==
    ASSUME NEW a \in (Nat \X Nat), NEW b \in (Nat \X Nat), NEW c \in (Nat \X Nat),
           Fits(a, b), Fits(b, c)
    PROVE  Fits(a, c)
BY DEF Fits

\* Outside of the mode change an outcome stays true until it is forgotten.
LEMMA ChangeKeptOutside ==
    ASSUME IInv, ChangeInv, Next, ~Server, ~Inside
    PROVE  ChangeInv'
<1> USE DEF Told, Concluded, Applying, Restoring, Changing
<1>1. meddles \in Nat /\ wire \in Seq(Requests) /\ screen \in Screens
  BY DEF IInv, TypeOK, ServerTypeOK
<1>2. Concluded /\ Within /\ Restorable /\ ReportIsTrue /\ UndoWorks
  BY DEF ChangeInv
<1>3. CASE Aside
  <2>1. ~Inside' /\ UNCHANGED <<mode, screen, stamp, meddles>> /\ saved' \in {saved, Unsaved}
    BY <1>3 DEF Aside
  <2>2. Within' /\ saved'.meddles <= meddles'
    BY <1>1, <1>2, <2>1 DEF Within, Unsaved
  <2>3. Alone' /\ Untouched'
    BY <2>1 DEF Inside, Alone, Untouched, Saving
  <2>4. Asked' /\ Measured'
    <3>1. pc' \notin Applying \cup Restoring /\ pc' \notin Changing
      BY <2>1 DEF Inside
    <3>2. QED
      BY <3>1 DEF Asked, Measured
  <2>5. Restorable' /\ Undone'
    <3>1. pc' = "resize.crtc" => look'.step = "idle"
      BY <1>2, <1>3 DEF Aside, NoLook, Restorable
    <3>2. QED
      BY <2>1, <3>1 DEF Inside, Restorable, Undone, Saving
  <2>6. CASE outcome' = "none"
    <3>1. Concluded'
      BY <2>2, <2>6
    <3>2. ReportIsTrue' /\ UndoWorks'
      BY <2>6 DEF ReportIsTrue, UndoWorks
    <3>3. QED
      BY <2>2, <2>3, <2>4, <2>5, <3>1, <3>2 DEF ChangeInv
  <2>7. CASE outcome' # "none"
    <3>1. /\ pc \in Told /\ pc' \in Told /\ outcome' \in {outcome, "capture_failed"}
          /\ pc' = "actual" => pc = "actual"
          /\ UNCHANGED <<wire, target, saved, mutated, trouble>>
      BY <1>3, <2>7 DEF Aside
    <3>2. Concluded'
      BY <1>2, <2>2, <3>1
    <3>3. ReportIsTrue' /\ UndoWorks'
      BY <1>2, <2>1, <3>1 DEF ReportIsTrue, UndoWorks
    <3>4. QED
      BY <2>2, <2>3, <2>4, <2>5, <3>2, <3>3 DEF ChangeInv
  <2>8. QED
    BY <2>6, <2>7
<1>4. CASE SaveCrtc
  <2>1. /\ pc = "resize.crtc" /\ wire = <<>> /\ UNCHANGED <<mode, screen, stamp, wire, meddles>>
        /\ saved' = [Unsaved EXCEPT !.mode = mode, !.meddles = meddles]
        /\ look' = look
    BY <1>4 DEF SaveCrtc, Answered, Quiet
  <2>2. saved'.mode = mode /\ saved'.meddles = meddles
    BY <2>1 DEF Unsaved
  <2>3. Within'
    BY <1>2, <2>1 DEF Within
  <2>4. outcome = "none"
    BY <1>2, <2>1
  <2>5. CASE pc' = "resize.fresh" /\ outcome' = outcome
    <3>1. Concluded' /\ ReportIsTrue' /\ UndoWorks'
      BY <1>1, <2>1, <2>2, <2>4, <2>5 DEF ReportIsTrue, UndoWorks
    <3>2. Alone' /\ Asked' /\ Measured'
      BY <2>1, <2>5 DEF Alone, Asked, Measured
    <3>3. Untouched' /\ Undone'
      BY <2>1, <2>2, <2>5 DEF Untouched, Undone, Preparing, Saving
    <3>4. Restorable'
      BY <1>2, <2>1, <2>2, <2>5 DEF Restorable, Preparing, Saving
    <3>5. QED
      BY <2>3, <3>1, <3>2, <3>3, <3>4 DEF ChangeInv
  <2>6. CASE pc' = "actual" /\ outcome' = "unsupported"
    <3>1. Concluded' /\ ReportIsTrue' /\ UndoWorks'
      BY <1>1, <2>1, <2>2, <2>6 DEF ReportIsTrue, UndoWorks
    <3>2. Alone' /\ Asked' /\ Measured' /\ Untouched' /\ Restorable' /\ Undone'
      BY <2>6 DEF Inside, Alone, Asked, Measured, Untouched, Restorable, Undone, Preparing, Saving
    <3>3. QED
      BY <2>3, <3>1, <3>2 DEF ChangeInv
  <2>7. QED
    BY <1>4, <2>5, <2>6 DEF SaveCrtc, Goto, Conclude
<1>5. QED
  BY <1>2, <1>3, <1>4, Outside

\* The display is left alone, and so is what is saved of it.
Still == UNCHANGED <<mode, screen, stamp, meddles, target, saved, bound>>

\* The types that the mode change needs.
LEMMA ChangeTyped ==
    ASSUME IInv
    PROVE  /\ meddles \in Nat /\ wire \in Seq(Requests) /\ screen \in Screens
           /\ mode \in Sizes \cup {Off} /\ target \in Sizes /\ bound \in Positive \X Positive
           /\ mutated \in BOOLEAN /\ trouble \in BOOLEAN /\ awaiting \in Requests \cup {None}
           /\ saved \in [mode : Sizes \cup {Off}, size : Positive \X Positive,
                         mm : Positive \X Positive, meddles : Nat]
BY DEF IInv, TypeOK, ServerTypeOK, ChangeTypeOK, FlowTypeOK, InputTypeOK

\* A mode change that is given up before anything was changed.
LEMMA Leaves ==
    ASSUME ChangeInv, Still, Inside, ~Inside', pc' # "resize.crtc", outcome' = outcome
    PROVE  ChangeInv'
<1>1. pc \notin Told /\ outcome = "none"
  BY DEF Inside, Preparing, Saving, Applying, Restoring, Told, ChangeInv, Concluded
<1>2. Concluded' /\ Within' /\ ReportIsTrue' /\ UndoWorks'
  BY <1>1 DEF ChangeInv, Still, Concluded, Within, ReportIsTrue, UndoWorks
<1>3. pc' \notin Saving \cup Applying \cup Restoring /\ ~Preparing'
  BY DEF Inside
<1>4. Asked' /\ Measured' /\ Restorable' /\ Undone'
  BY <1>3
  DEF Asked, Measured, Restorable, Undone, Saving, Applying, Restoring, Changing
<1>5. Alone' /\ Untouched'
  BY <1>3 DEF Alone, Untouched, Inside, Saving
<1>6. QED
  BY <1>2, <1>4, <1>5 DEF ChangeInv

\* An error of the transaction: the undo begins.
LEMMA Undoes ==
    ASSUME ChangeInv, Still, pc \in Applying, pc' = "restore", outcome' = outcome, wire' = wire,
           mutated \in BOOLEAN, mutated' \in {mutated, TRUE}, ~mutated' => wire = <<>>
    PROVE  ChangeInv'
<1>1. pc \notin Told /\ outcome = "none"
  BY DEF Applying, Told, ChangeInv, Concluded
<1>2. Concluded' /\ Within' /\ ReportIsTrue' /\ UndoWorks'
  BY <1>1 DEF ChangeInv, Still, Concluded, Within, ReportIsTrue, UndoWorks, Told
<1>3. Asked' /\ Measured' /\ Undone' /\ Alone'
  BY DEF Asked, Measured, Undone, Alone, Restoring, Changing
<1>4. Restorable'
  BY DEF ChangeInv, Still, Restorable, Saving, Preparing, Restoring
<1>5. Untouched'
  BY DEF ChangeInv, Still, Untouched, Saving, Preparing, Applying, Restoring
<1>6. QED
  BY <1>2, <1>3, <1>4, <1>5 DEF ChangeInv

\* An error of the undo, which is reported.
LEMMA GivesUp ==
    ASSUME ChangeInv, Still, pc' = "actual", outcome' = "rollback_failed",
           trouble' \/ (~mutated' /\ meddles # saved.meddles)
    PROVE  ChangeInv'
<1>1. Concluded' /\ Within' /\ ReportIsTrue' /\ UndoWorks'
  BY DEF ChangeInv, Still, Concluded, Within, ReportIsTrue, UndoWorks, Told
<1>2. Asked' /\ Measured' /\ Undone' /\ Alone' /\ Untouched' /\ Restorable'
  BY DEF Asked, Measured, Undone, Alone, Untouched, Restorable, Restoring, Applying, Changing,
         Saving, Preparing, Inside
<1>3. QED
  BY <1>1, <1>2 DEF ChangeInv

\* Wherever an error leads.
LEMMA Aborts ==
    ASSUME IInv, ChangeInv, Still, UNCHANGED <<wire, mutated>>, Inside, pc # "release",
           NEW lost \in BOOLEAN, Abort(lost),
           awaiting = None \/ pc \notin Applying \/ mutated,
           pc \in Restoring => lost \/ trouble
    PROVE  ChangeInv'
<1>1. pc \notin Injecting
  BY DEF Inside, Preparing, Injecting, Saving, Applying, Restoring
<1>2. CASE pc \in Applying
  <2>1. pc' = "restore" /\ outcome' = outcome
    BY <1>1, <1>2 DEF Abort, Undo, Applying, Restoring
  <2>2. ~mutated => wire = <<>>
    <3>1. Alone
      BY DEF ChangeInv
    <3>2. Inside /\ pc # "restore"
      BY <1>2 DEF Applying
    <3>3. QED
      BY <1>2, <3>1, <3>2 DEF Alone
  <2>3. QED
    BY <1>2, <2>1, <2>2, Undoes, ChangeTyped
<1>3. CASE pc \in Restoring
  <2>1. pc' = "actual" /\ outcome' = "rollback_failed" /\ trouble' = (trouble \/ lost)
    BY <1>1, <1>3 DEF Abort, Conclude, Applying, Restoring
  <2>2. QED
    BY <1>3, <2>1, GivesUp
<1>4. CASE pc \in Saving
  <2>1. pc' = "done" /\ outcome' = outcome
    BY <1>1, <1>4 DEF Abort, Goto, Applying, Restoring, Saving
  <2>2. ~Inside'
    BY <2>1 DEF Inside, Preparing, Saving, Applying, Restoring
  <2>3. QED
    BY <2>1, <2>2, Leaves
<1>5. QED
  BY <1>2, <1>3, <1>4 DEF Inside, Preparing

\* While nothing is told, only the way through the transaction matters.
LEMMA NotYetTold ==
    ASSUME ChangeInv, Inside, UNCHANGED <<mode, screen, meddles>>, saved'.meddles <= meddles,
           pc' \notin Told, outcome' = outcome
    PROVE  Concluded' /\ Within' /\ ReportIsTrue' /\ UndoWorks'
<1>1. pc \notin Told /\ outcome = "none"
  BY DEF Inside, Preparing, Saving, Applying, Restoring, Told, ChangeInv, Concluded
<1>2. QED
  BY <1>1 DEF ChangeInv, Concluded, Within, ReportIsTrue, UndoWorks

\* A step in place: all that matters of it is what it sees.
Waits ==
    /\ Still
    /\ UNCHANGED <<wire, answer, awaiting, pc, then, failed, mutated, outcome, trouble>>

LEMMA KeptInPlace ==
    ASSUME IInv, ChangeInv, Inside, Waits, Restorable', pc = "restore.crtc" => look' = look
    PROVE  ChangeInv'
<1>1. pc' \notin Told /\ saved'.meddles <= meddles
  BY DEF Inside, Preparing, Saving, Applying, Restoring, Told, Waits, Still, ChangeInv, Concluded
<1>2. Concluded' /\ Within' /\ ReportIsTrue' /\ UndoWorks'
  BY <1>1, NotYetTold DEF Waits, Still
<1>3. Alone' /\ Measured' /\ Untouched'
  BY DEF ChangeInv, Waits, Still, Alone, Measured, Untouched, Inside, Preparing, TargetMM
<1>4. Asked'
  BY DEF ChangeInv, Waits, Still, Asked, TargetMM
<1>5. Undone'
  BY DEF ChangeInv, Waits, Still, Undone
<1>6. QED
  BY <1>2, <1>3, <1>4, <1>5 DEF ChangeInv

\* The checks before a step, the end of the authorization, and the errors of any step.
LEMMA ChangeKeptByErrors ==
    ASSUME IInv, ChangeInv, Inside,
           Drain \/ ListResources \/ Guard \/ Deauthorize \/ Fails \/ TimesOut \/ Refused
    PROVE  ChangeInv'
<1>1. pc \in {"release"} \cup Saving \cup Applying \cup Restoring
  BY DEF Inside, Preparing
<1>2. CASE Drain
  <2>1. /\ pc = "resize.again" /\ look.step = "idle" /\ look'.step = "drained"
        /\ noticed = "arrived" => look'.changed
    BY <1>1, <1>2 DEF Drain, Refreshing, Saving, Applying, Restoring
  <2>2. Waits
    BY <1>2 DEF Drain, Waits, Still, flow, change
  <2>3. Restorable'
    BY <2>1, <2>2 DEF ChangeInv, Restorable, Waits, Still, Preparing, Saving, Applying, Restoring
  <2>4. QED
    BY <2>1, <2>2, <2>3, KeptInPlace
<1>3. CASE ListResources
  <2>1. pc = "resize.again" /\ look.step = "drained" /\ look'.step = "listed"
        /\ look'.changed = look.changed
    BY <1>1, <1>3, Numbers
    DEF IInv, ListResources, Refreshing, Saving, Applying, Restoring
  <2>2. Waits
    BY <1>3 DEF ListResources, Answered, Waits, Still, flow, change
  <2>3. Restorable'
    BY <2>1, <2>2 DEF ChangeInv, Restorable, Waits, Still, Preparing, Saving, Applying, Restoring
  <2>4. QED
    BY <2>1, <2>2, <2>3, KeptInPlace
<1>4. CASE Guard
  <2>1. pc \in Applying /\ awaiting = None
    BY <1>1, <1>4 DEF Guard, IInv, Cleared, Guarded, Saving, Applying, Restoring
  <2>2. Still /\ UNCHANGED <<wire, answer, awaiting, mutated, noticed, look>>
    BY <1>4 DEF Guard, Still, server, change
  <2>3. CASE authorized
    <3>1. Waits
      BY <1>4, <2>2, <2>3 DEF Guard, Waits
    <3>2. Restorable'
      BY <2>2, <3>1 DEF ChangeInv, Restorable, Waits, Still, Preparing
    <3>3. QED
      BY <2>2, <3>1, <3>2, KeptInPlace
  <2>4. CASE ~authorized
    <3>1. Abort(FALSE) /\ pc # "release" /\ pc \notin Restoring
      BY <1>4, <2>1, <2>4 DEF Guard, Applying, Restoring
    <3>2. QED
      BY <2>1, <2>2, <3>1, Aborts
  <2>5. QED
    BY <2>3, <2>4
<1>5. CASE Deauthorize
  <2>1. Waits /\ UNCHANGED <<noticed, look>>
    BY <1>5 DEF Deauthorize, Waits, Still, server, flow, change
  <2>2. Restorable'
    BY <2>1 DEF ChangeInv, Restorable, Waits, Still, Preparing
  <2>3. QED
    BY <2>1, <2>2, KeptInPlace
<1>6. CASE Fails
  <2>1. Still /\ UNCHANGED <<wire, mutated>> /\ awaiting = None /\ Abort(TRUE)
    BY <1>6 DEF Fails, Still, server, change
  <2>2. pc # "release"
    BY <1>6 DEF Fails, Refreshing, Querying, Guarded
  <2>3. QED
    BY <2>1, <2>2, Aborts
<1>7. ASSUME Still, UNCHANGED mutated, awaiting # None, pc = "release", failed' = TRUE,
             UNCHANGED <<pc, outcome>>
      PROVE  ChangeInv'
  <2>1. ~Inside' /\ pc' # "resize.crtc"
    BY <1>7 DEF Inside, Preparing, Saving, Applying, Restoring
  <2>2. QED
    BY <1>7, <2>1, Leaves
<1>8. awaiting # None => pc = "release" \/ (pc \in Changing /\ mutated)
  BY <1>1 DEF IInv, Awaiting, ChangeInv, Asked, Saving, Applying, Restoring
<1>9. CASE TimesOut
  <2>1. Still /\ UNCHANGED <<wire, mutated>> /\ awaiting # None
    BY <1>9 DEF TimesOut, Still, change
  <2>2. CASE pc = "release"
    BY <1>7, <1>9, <2>1, <2>2 DEF TimesOut
  <2>3. CASE pc # "release"
    <3>1. Abort(TRUE)
      BY <1>9, <2>3 DEF TimesOut
    <3>2. QED
      BY <1>8, <2>1, <2>3, <3>1, Aborts
  <2>4. QED
    BY <2>2, <2>3
<1>10. CASE Refused
  <2>1. /\ Still /\ UNCHANGED <<wire, mutated>> /\ awaiting # None /\ wire = <<>>
        /\ answer = "refused"
    BY <1>10 DEF Refused, Returned, Still, change
  <2>2. CASE pc = "release"
    BY <1>7, <1>10, <2>1, <2>2 DEF Refused
  <2>3. CASE pc # "release"
    <3>1. Abort(FALSE)
      BY <1>10, <2>3 DEF Refused
    <3>2. pc \in Restoring => trouble
      BY <1>8, <2>1, <2>3 DEF ChangeInv, Undone
    <3>3. QED
      BY <1>8, <2>1, <2>3, <3>1, <3>2, Aborts
  <2>4. QED
    BY <2>2, <2>3
<1>11. QED
  BY <1>2, <1>3, <1>4, <1>5, <1>6, <1>9, <1>10

\* From the mode that is saved to the first request: the display is left alone.
LEMMA ChangeKeptBefore ==
    ASSUME IInv, ChangeInv, Inside,
           \/ \E i \in Inputs : SendRelease(i) \/ ReleaseUnsent(i)
           \/ ReleaseDone \/ AllReleased \/ SaveFresh \/ SaveGeometry \/ Begin
    PROVE  ChangeInv'
<1>1. pc \in {"release"} \cup Saving \cup Applying \cup Restoring
  BY DEF Inside, Preparing
<1>2. pc = "release" => Preparing
  BY DEF Inside, Saving, Applying, Restoring
<1>3. saved.meddles <= meddles /\ Alone /\ Untouched /\ Restorable
  BY DEF ChangeInv, Concluded
<1>4. Inside /\ pc # "restore" => wire = <<>> \/ (awaiting # None /\ wire = <<awaiting>>)
  BY <1>3 DEF Alone
<1>5. ASSUME NEW i \in Inputs, SendRelease(i)
      PROVE  ChangeInv'
  <2>1. /\ pc = "release" /\ Still /\ UNCHANGED <<pc, then, failed, outcome, mutated, trouble>>
        /\ awaiting = None /\ wire' = Append(wire, Release(i)) /\ awaiting' = Release(i)
    BY <1>5 DEF SendRelease, Due, Write, Still, change
  <2>2. Preparing /\ Preparing' /\ wire = <<>>
    BY <1>2, <1>4, <2>1 DEF Preparing
  <2>3. wire' = <<awaiting'>> /\ awaiting' # None
    BY <2>1, <2>2, RequestsApart
  <2>4. Concluded' /\ Within' /\ ReportIsTrue' /\ UndoWorks'
    BY <1>3, <2>1, NotYetTold DEF Still, Told
  <2>5. Alone'
    BY <2>3 DEF Alone
  <2>6. Asked' /\ Measured' /\ Undone'
    BY <2>1 DEF Asked, Measured, Undone, Changing, Restoring
  <2>7. Untouched' /\ Restorable'
    BY <1>3, <2>1, <2>2 DEF Untouched, Restorable, Still, Saving, Applying, Restoring
  <2>8. QED
    BY <2>4, <2>5, <2>6, <2>7 DEF ChangeInv
<1>6. ASSUME NEW i \in Inputs, ReleaseUnsent(i)
      PROVE  ChangeInv'
  <2>1. pc' = "release" /\ failed' = TRUE /\ outcome' = outcome /\ Still
    BY <1>6 DEF ReleaseUnsent, Due, Still, server, change
  <2>2. ~Inside' /\ pc' # "resize.crtc"
    BY <2>1 DEF Inside, Preparing, Saving, Applying, Restoring
  <2>3. QED
    BY <2>1, <2>2, Leaves
<1>7. ASSUME Still, pc = "release", pc' = "release" \/ pc' = "apply.grow", wire' = <<>>,
             UNCHANGED <<then, failed, outcome, mutated, trouble>>, awaiting' = None
      PROVE  ChangeInv'
  <2>1. Preparing
    BY <1>2, <1>7
  <2>2. Concluded' /\ Within' /\ ReportIsTrue' /\ UndoWorks'
    BY <1>3, <1>7, NotYetTold DEF Still, Told
  <2>3. Alone'
    BY <1>7 DEF Alone
  <2>4. Asked' /\ Measured' /\ Undone'
    BY <1>7 DEF Asked, Measured, Undone, Changing, Restoring
  <2>5. Untouched' /\ Restorable'
    BY <1>3, <1>7, <2>1 DEF Untouched, Restorable, Still, Saving, Applying, Restoring
  <2>6. QED
    BY <2>2, <2>3, <2>4, <2>5 DEF ChangeInv
<1>8. CASE ReleaseDone
  BY <1>7, <1>8 DEF ReleaseDone, Returned, Still, flow, change
<1>9. CASE AllReleased
  <2>1. pc = "release" /\ then = "apply.grow" /\ ~failed /\ awaiting = None /\ Still
        /\ UNCHANGED <<wire, mutated, awaiting>>
    BY <1>2, <1>9 DEF AllReleased, Preparing, Still, server, change
  <2>2. Goto("apply.grow")
    BY <1>9, <2>1 DEF AllReleased
  <2>3. QED
    BY <1>2, <1>4, <1>7, <2>1, <2>2 DEF Goto, AllReleased
<1>10. CASE SaveFresh
  <2>1. /\ pc = "resize.fresh" /\ pc' = "resize.geometry"
        /\ UNCHANGED <<mode, screen, meddles, wire, noticed, awaiting, outcome, look>>
        /\ saved' = [saved EXCEPT !.size = screen.size, !.mm = screen.mm]
    BY <1>10 DEF SaveFresh, Goto, Quiet, server
  <2>2. /\ saved'.mode = saved.mode /\ saved'.size = screen.size /\ saved'.mm = screen.mm
        /\ saved'.meddles = saved.meddles
    BY <2>1, ChangeTyped
  <2>3. Concluded' /\ Within' /\ ReportIsTrue' /\ UndoWorks'
    BY <1>3, <2>1, <2>2, NotYetTold DEF Told
  <2>4. Alone'
    BY <1>4, <2>1 DEF Alone
  <2>5. Asked' /\ Measured' /\ Undone'
    BY <2>1 DEF Asked, Measured, Undone, Changing, Restoring
  <2>6. Untouched'
    <3>1. screen = [size |-> screen.size, mm |-> screen.mm]
      BY ChangeTyped DEF Screens
    <3>2. QED
      BY <1>3, <2>1, <2>2, <3>1 DEF Untouched
  <2>7. Restorable'
    <3>1. Fits(mode, screen.size)
      BY DEF ChangeInv, Within
    <3>2. QED
      BY <1>3, <2>1, <2>2, <3>1 DEF Restorable, Preparing, Applying, Restoring
  <2>8. QED
    BY <2>3, <2>4, <2>5, <2>6, <2>7 DEF ChangeInv
<1>11. CASE SaveGeometry
  <2>1. /\ pc = "resize.geometry" /\ Still /\ wire' = wire /\ awaiting = None
        /\ noticed # "none" => noticed' = "arrived"
        /\ UNCHANGED <<look, mutated, awaiting>>
        /\ Proceed(screen.size = saved.size, "resize.again")
    BY <1>11, Numbers DEF SaveGeometry, Answered, Quiet, Still, IInv
  <2>2. CASE screen.size # saved.size
    <3>1. Abort(FALSE) /\ pc # "release" /\ pc \notin Restoring
      BY <2>1, <2>2 DEF Proceed, Restoring
    <3>2. QED
      BY <2>1, <3>1, Aborts
  <2>3. CASE screen.size = saved.size
    <3>1. pc' = "resize.again" /\ outcome' = outcome
      BY <2>1, <2>3 DEF Proceed, Goto
    <3>2. Concluded' /\ Within' /\ ReportIsTrue' /\ UndoWorks'
      BY <1>3, <2>1, <3>1, NotYetTold DEF Still, Told
    <3>3. Alone'
      BY <1>4, <2>1 DEF Alone
    <3>4. Asked' /\ Measured' /\ Undone'
      BY <3>1 DEF Asked, Measured, Undone, Changing, Restoring
    <3>5. Untouched'
      BY <1>3, <2>1, <3>1 DEF Untouched, Still, Saving
    <3>6. Restorable'
      BY <1>3, <2>1, <3>1 DEF Restorable, Still, Preparing, Applying, Restoring
    <3>7. QED
      BY <3>2, <3>3, <3>4, <3>5, <3>6 DEF ChangeInv
  <2>4. QED
    BY <2>2, <2>3
<1>12. CASE Begin
  <2>1. /\ pc = "resize.again" /\ Still /\ wire = <<>> /\ wire' = <<>> /\ awaiting = None
        /\ awaiting' = None /\ mutated' = FALSE
    BY <1>12 DEF Begin, Refreshed, Answered, Still
  <2>2. CASE Checked(view.rev) /\ authorized
    <3>1. ReleaseAll("apply.grow")
      BY <1>12, <2>2 DEF Begin
    <3>2. pc' = "release" /\ then' = "apply.grow" /\ failed' = FALSE /\ outcome' = outcome
      BY <3>1 DEF ReleaseAll
    <3>3. Fits(saved.mode, saved.size)
      <4>1. look.step = "listed" /\ (look.changed => revision' = revision + 1)
        BY <1>12 DEF Begin, Refreshed, Revised
      <4>2. revision' = view.rev /\ view.rev <= revision
        BY <2>2 DEF Checked, IInv, Pictured
      <4>3. ~look.changed
        BY <4>1, <4>2, Numbers DEF IInv
      <4>4. QED
        BY <1>3, <2>1, <4>1, <4>3 DEF Restorable
    <3>4. Concluded' /\ Within' /\ ReportIsTrue' /\ UndoWorks'
      BY <1>3, <2>1, <3>2, NotYetTold DEF Still, Told
    <3>5. Alone'
      BY <2>1 DEF Alone
    <3>6. Asked' /\ Measured' /\ Undone'
      BY <3>2 DEF Asked, Measured, Undone, Changing, Restoring
    <3>7. Untouched' /\ Restorable'
      BY <1>3, <2>1, <3>2, <3>3
      DEF Untouched, Restorable, Still, Preparing, Saving, Applying, Restoring
    <3>8. QED
      BY <3>4, <3>5, <3>6, <3>7 DEF ChangeInv
  <2>3. CASE ~(Checked(view.rev) /\ authorized)
    <3>1. Abort(FALSE)
      BY <1>12, <2>3 DEF Begin
    <3>2. pc' = "done" /\ outcome' = outcome
      BY <2>1, <3>1 DEF Abort, Injecting, Applying, Restoring, Goto
    <3>3. ~Inside'
      BY <3>2 DEF Inside, Preparing, Saving, Applying, Restoring
    <3>4. QED
      BY <2>1, <3>2, <3>3, Leaves
  <2>4. QED
    BY <2>2, <2>3
<1>13. QED
  BY <1>5, <1>6, <1>8, <1>9, <1>10, <1>11, <1>12

\* A request of the transaction is written, alone.
LEMMA Asks ==
    ASSUME IInv, ChangeInv, Still, pc \in Changing, NEW r \in Requests, Write(r), mutated' = TRUE,
           UNCHANGED <<look, flow, trouble>>, Asked'
    PROVE  ChangeInv'
<1>1. /\ pc \in Applying \cup Restoring /\ pc # "restore" /\ pc \notin Saving /\ ~Preparing
      /\ pc \notin Told /\ pc # "confirm" /\ pc # "restored"
  BY DEF Changing, Applying, Restoring, Saving, Preparing, Told
<1>2. Inside
  BY <1>1 DEF Inside
<1>3. awaiting = None /\ wire' = Append(wire, r) /\ awaiting' = r
  BY DEF Write
<1>4. wire = <<>>
  BY <1>1, <1>2, <1>3 DEF ChangeInv, Alone
<1>5. wire' = <<awaiting'>> /\ awaiting' # None /\ wire' # <<>>
  BY <1>3, <1>4, RequestsApart
<1>6. pc' = pc /\ UNCHANGED <<then, failed, outcome>>
  BY DEF flow
<1>7. Concluded' /\ Within' /\ ReportIsTrue' /\ UndoWorks'
  BY <1>1, <1>2, <1>6, NotYetTold DEF Still, Told, ChangeInv, Concluded
<1>8. Alone' /\ Measured'
  BY <1>1, <1>5, <1>6 DEF Alone, Measured
<1>9. Untouched' /\ Restorable'
  BY <1>1, <1>6
  DEF ChangeInv, Untouched, Restorable, Still, Preparing, Saving, Applying, Restoring
<1>10. Undone'
  BY <1>1, <1>5, <1>6 DEF ChangeInv, Undone, Still
<1>11. QED
  BY <1>7, <1>8, <1>9, <1>10 DEF ChangeInv

\* From one step of the transaction to the next, with everything answered.
LEMMA GoesOn ==
    ASSUME IInv, ChangeInv, Still, pc \in Applying \cup Restoring,
           pc' \in (Applying \cup Restoring) \ {"restore"}, wire' = <<>>, awaiting' = None,
           UNCHANGED <<outcome, mutated>>, Measured', Undone',
           pc' \in Restoring \ {"restore", "restored"} => mutated
    PROVE  ChangeInv'
<1>1. /\ Inside /\ ~Preparing' /\ pc' \notin Saving /\ pc' \notin Told /\ pc' # "resize.crtc"
  BY DEF Inside, Applying, Restoring, Saving, Preparing, Told
<1>2. Concluded' /\ Within' /\ ReportIsTrue' /\ UndoWorks'
  BY <1>1, NotYetTold DEF Still, ChangeInv, Concluded
<1>3. Alone' /\ Asked'
  BY DEF Alone, Asked
<1>4. Untouched' /\ Restorable'
  BY <1>1 DEF ChangeInv, Untouched, Restorable, Still, Saving
<1>5. QED
  BY <1>2, <1>3, <1>4 DEF ChangeInv

\* Of the transaction: the mode and the millimetres are those of the last request.
LEMMA ChangeKeptApplying ==
    ASSUME IInv, ChangeInv, Inside,
           ApplyGrow \/ NoGrowth \/ ApplyCrtc \/ ApplyShrink \/ ApplyUnsent \/ Confirm
    PROVE  ChangeInv'
<1>1. pc \in Applying
  BY DEF ApplyGrow, NoGrowth, ApplyCrtc, ApplyShrink, ApplyUnsent, Confirm, Applying
<1>2. pc \notin Saving /\ pc # "restore" /\ pc \in Applying \cup Restoring
  BY <1>1 DEF Saving, Applying
<1>3. awaiting = None => wire = <<>>
  BY <1>2 DEF ChangeInv, Alone
<1>4. TypeOK
  BY DEF IInv
<1>5. CASE ApplyGrow
  <2>1. /\ pc = "apply.grow" /\ Write(SetScreen(Grown, TargetMM)) /\ mutated' = TRUE /\ Still
        /\ UNCHANGED <<look, flow, trouble>>
    BY <1>5 DEF ApplyGrow, WriteGuarded, Write, Mutates, Still
  <2>2. Asked'
    BY <2>1 DEF Asked, flow, Restoring
  <2>3. QED
    BY <1>4, <2>1, <2>2, Asks, ChangesWritten, RequestsApart DEF Changing
<1>6. CASE NoGrowth
  <2>1. /\ pc = "apply.grow" /\ pc' = "apply.list" /\ awaiting = None /\ awaiting' = None
        /\ wire' = wire /\ Still /\ UNCHANGED <<outcome, mutated>>
    BY <1>6 DEF NoGrowth, Goto, Quiet, server, Still
  <2>2. Measured' /\ Undone'
    BY <2>1 DEF Measured, Undone, Changing
  <2>3. QED
    BY <1>2, <1>3, <2>1, <2>2, GoesOn DEF Applying, Restoring
<1>7. CASE ApplyCrtc
  <2>1. /\ pc = "apply.crtc" /\ Write(SetCrtc(target, look.stamp)) /\ mutated' = TRUE /\ Still
        /\ UNCHANGED <<look, flow, trouble>>
    BY <1>7 DEF ApplyCrtc, WriteGuarded, Write, Mutates, Still
  <2>2. Asked'
    BY <2>1 DEF Asked, flow, Restoring
  <2>3. QED
    BY <1>4, <2>1, <2>2, Asks, ChangesWritten, RequestsApart DEF Changing
<1>8. CASE ApplyShrink
  <2>1. /\ pc = "apply.shrink" /\ Write(SetScreen(target, TargetMM)) /\ mutated' = TRUE /\ Still
        /\ UNCHANGED <<look, flow, trouble>>
    BY <1>8 DEF ApplyShrink, WriteGuarded, Write, Mutates, Still
  <2>2. awaiting' = SetScreen(target, TargetMM)' /\ pc' = "apply.shrink"
    BY <2>1 DEF Write, Still, TargetMM, flow
  <2>3. Asked'
    BY <2>1, <2>2 DEF Asked, Restoring
  <2>4. QED
    BY <1>4, <2>1, <2>3, Asks, ChangesWritten, RequestsApart DEF Changing
<1>9. CASE ApplyUnsent
  <2>1. /\ pc' = "restore" /\ outcome' = outcome /\ Still /\ wire' = wire /\ mutated' = TRUE
    BY <1>9 DEF ApplyUnsent, Undo, Still, server
  <2>2. QED
    BY <1>1, <2>1, Undoes, ChangeTyped
<1>10. CASE Confirm
  <2>1. /\ pc = "confirm" /\ Still /\ wire = <<>> /\ wire' = <<>> /\ mutated' = mutated
        /\ awaiting = None
    BY <1>10 DEF Confirm, Answered, Quiet, Still
  <2>2. CASE mode = target /\ screen.size = target
    <3>1. pc' = "actual" /\ outcome' = "applied"
      BY <1>10, <2>2 DEF Confirm, Conclude
    <3>2. screen = [size |-> target, mm |-> TargetMM]
      BY <2>1, <2>2, ChangeTyped DEF ChangeInv, Measured, Screens
    <3>3. Concluded' /\ Within' /\ UndoWorks'
      BY <2>1, <3>1 DEF ChangeInv, Concluded, Within, UndoWorks, Still, Told
    <3>4. ReportIsTrue'
      BY <2>1, <2>2, <3>1, <3>2 DEF ReportIsTrue, Still, TargetMM
    <3>5. Alone' /\ Asked' /\ Measured' /\ Untouched' /\ Restorable' /\ Undone'
      BY <3>1 DEF Alone, Asked, Measured, Untouched, Restorable, Undone, Inside, Preparing,
          Saving, Applying, Restoring, Changing
    <3>6. QED
      BY <3>3, <3>4, <3>5 DEF ChangeInv
  <2>3. CASE ~(mode = target /\ screen.size = target)
    <3>1. pc' = "restore" /\ outcome' = outcome
      BY <1>10, <2>3 DEF Confirm, Undo
    <3>2. QED
      BY <1>1, <2>1, <3>1, Undoes, ChangeTyped
  <2>4. QED
    BY <2>2, <2>3
<1>11. QED
  BY <1>5, <1>6, <1>7, <1>8, <1>9, <1>10

\* From one request to the next: what was answered has been done.
LEMMA ChangeKeptBetween ==
    ASSUME IInv, ChangeInv, Inside, ListAgain \/ Mutated
    PROVE  ChangeInv'
<1>1. /\ Alone /\ Asked /\ Measured /\ Undone
  BY DEF ChangeInv
<1>2. CASE ListAgain
  <2>1. /\ Still /\ wire' = <<>> /\ awaiting = None /\ awaiting' = None
        /\ UNCHANGED <<outcome, mutated, trouble>>
        /\ \/ pc = "apply.list" /\ pc' = "apply.crtc"
           \/ pc = "restore.list" /\ pc' = "restore.crtc"
        /\ look' = [NoLook EXCEPT !.stamp = stamp]
    BY <1>2 DEF ListAgain, Answered, Goto, Still, change
  <2>2. look'.stamp = stamp
    BY <2>1 DEF NoLook
  <2>3. Measured'
    BY <2>1 DEF Measured
  <2>4. Undone'
    BY <1>1, <2>1, <2>2 DEF Undone, Still, Restoring
  <2>5. pc = "restore.list" => mutated
    BY <1>1 DEF Asked, Restoring
  <2>6. QED
    BY <2>1, <2>3, <2>4, <2>5, GoesOn DEF Applying, Restoring
<1>3. CASE Mutated
  <2>1. /\ Still /\ wire = <<>> /\ wire' = <<>> /\ answer = "ok" /\ awaiting # None
        /\ awaiting' = None
        /\ UNCHANGED <<outcome, mutated, trouble>>
        /\ pc \in Changing /\ pc' = Follows[pc]
    BY <1>3 DEF Mutated, Returned, Goto, Still, change
  <2>2. \/ pc = "apply.grow" /\ pc' = "apply.list"
        \/ pc = "apply.crtc" /\ pc' = "apply.shrink"
        \/ pc = "apply.shrink" /\ pc' = "confirm"
        \/ pc = "restore.grow" /\ pc' = "restore.list"
        \/ pc = "restore.crtc" /\ pc' = "restore.shrink"
        \/ pc = "restore.shrink" /\ pc' = "restored"
    BY <2>1 DEF Follows, Changing
  <2>3. mutated
    BY <1>1, <2>1 DEF Asked
  <2>4. /\ pc = "apply.shrink" => screen.mm = TargetMM
        /\ pc = "restore.shrink" => screen.mm = saved.mm
    <3>1. ASSUME NEW size, NEW mm
          PROVE  SetScreen(size, mm).screen.mm = mm
      BY DEF SetScreen
    <3>2. QED
      BY <1>1, <2>1, <3>1 DEF Asked, Measured
  <2>5. Measured'
    BY <2>1, <2>2, <2>4 DEF Measured, Still, TargetMM
  <2>6. Undone'
    BY <1>1, <2>1, <2>2 DEF Undone, Still, Restoring, Changing
  <2>7. QED
    BY <2>1, <2>2, <2>3, <2>5, <2>6, GoesOn DEF Applying, Restoring
<1>4. QED
  BY <1>2, <1>3

\* Of the undo: the root window first holds both modes, then the old mode is set in it.
LEMMA ChangeKeptRestoring ==
    ASSUME IInv, ChangeInv, Inside,
           Restore \/ RestoreGrow \/ RestoreCrtc \/ RestoreShrink \/ RestoreUnsent \/ Restored
    PROVE  ChangeInv'
<1>1. pc \in Restoring
  BY DEF Restore, RestoreGrow, RestoreCrtc, RestoreShrink, RestoreUnsent, Restored, Restoring
<1>2. Alone /\ Asked /\ Measured /\ Undone /\ Untouched /\ Restorable /\ Within /\ Concluded
  BY DEF ChangeInv
<1>3. TypeOK
  BY DEF IInv
<1>4. Fits(saved.mode, saved.size)
  BY <1>1, <1>2 DEF Restorable
<1>5. CASE Restore
  <2>1. /\ pc = "restore" /\ UNCHANGED <<mode, screen, stamp, meddles, target, saved>>
        /\ UNCHANGED <<awaiting, mutated, outcome, trouble>>
        /\ pc' = IF mutated THEN "restore.grow" ELSE "restored"
        /\ IF mutated THEN wire = <<>> /\ bound' = Join(screen.size, saved.size)
                      ELSE UNCHANGED bound
        /\ wire' = wire
    BY <1>5 DEF Restore, Answered, Goto, Quiet
  <2>2. awaiting = None
    BY <2>1 DEF IInv, Awaiting, Changing
  <2>3. wire' = <<>>
    BY <1>2, <2>1, <2>2 DEF Alone, Inside, Restoring
  <2>4. Concluded' /\ Within' /\ ReportIsTrue' /\ UndoWorks'
    BY <1>2, <2>1, NotYetTold DEF Told, Concluded
  <2>5. Alone' /\ Asked' /\ Measured'
    BY <2>1, <2>2, <2>3 DEF Alone, Asked, Measured, Restoring
  <2>6. Untouched' /\ Restorable'
    BY <1>1, <1>2, <1>4, <2>1 DEF Untouched, Restorable, Preparing, Saving, Applying, Restoring
  <2>7. Undone'
    <3>1. CASE mutated
      <4>1. screen.size \in Positive \X Positive /\ saved.size \in Positive \X Positive
            /\ mode \in Nat \X Nat
        <5>1. screen \in Screens /\ mode \in Sizes \cup {Off}
              /\ saved \in [mode : Sizes \cup {Off}, size : Positive \X Positive,
                            mm : Positive \X Positive, meddles : Nat]
          BY ChangeTyped
        <5>2. screen.size \in Positive \X Positive
          BY <5>1 DEF Screens
        <5>3. saved.size \in Positive \X Positive
          BY <5>1
        <5>4. mode \in Nat \X Nat
          BY <5>1, SizesAssumption DEF Off, Positive
        <5>5. QED
          BY <5>2, <5>3, <5>4
      <4>2. /\ bound' \in Positive \X Positive /\ Fits(screen.size, bound')
            /\ Fits(saved.size, bound')
        BY <2>1, <3>1, <4>1, FitsJoin
      <4>3. Fits(mode, bound')
        <5>1. screen.size \in Nat \X Nat /\ bound' \in Nat \X Nat
          BY <4>1, <4>2 DEF Positive
        <5>2. QED
          BY <1>2, <4>1, <4>2, <5>1, FitsOver DEF Within
      <4>4. QED
        BY <2>1, <2>2, <3>1, <4>2, <4>3 DEF Undone
    <3>2. CASE ~mutated
      BY <2>1, <3>2 DEF Undone, Changing
    <3>3. QED
      BY <3>1, <3>2, ChangeTyped
  <2>8. QED
    BY <2>4, <2>5, <2>6, <2>7 DEF ChangeInv
<1>6. ASSUME NEW r \in Requests, Write(r), Mutates, pc \in Changing, Asked'
      PROVE  ChangeInv'
  <2>1. Still /\ mutated' = TRUE /\ UNCHANGED <<look, flow, trouble>>
    BY <1>6 DEF Write, Mutates, Still
  <2>2. QED
    BY <1>6, <2>1, Asks
<1>7. CASE RestoreGrow
  <2>1. pc = "restore.grow" /\ Write(SetScreen(bound, saved.mm)) /\ Mutates
    BY <1>7 DEF RestoreGrow
  <2>2. Asked'
    BY <2>1 DEF Asked, Mutates, Write, flow
  <2>3. QED
    BY <1>3, <1>6, <2>1, <2>2, ChangesWritten, RequestsApart DEF Changing
<1>8. CASE RestoreCrtc
  <2>1. pc = "restore.crtc" /\ Write(SetCrtc(saved.mode, look.stamp)) /\ Mutates
    BY <1>8 DEF RestoreCrtc
  <2>2. Asked'
    BY <2>1 DEF Asked, Mutates, Write, flow
  <2>3. QED
    BY <1>3, <1>6, <2>1, <2>2, ChangesWritten, RequestsApart DEF Changing
<1>9. CASE RestoreShrink
  <2>1. pc = "restore.shrink" /\ Write(SetScreen(saved.size, saved.mm)) /\ Mutates
    BY <1>9 DEF RestoreShrink
  <2>2. Asked'
    BY <2>1 DEF Asked, Mutates, Write, flow
  <2>3. QED
    BY <1>3, <1>6, <2>1, <2>2, ChangesWritten, RequestsApart DEF Changing
<1>10. CASE RestoreUnsent
  <2>1. Still /\ pc' = "actual" /\ outcome' = "rollback_failed" /\ trouble'
    BY <1>10 DEF RestoreUnsent, Conclude, Still, server, change
  <2>2. QED
    BY <2>1, GivesUp
<1>11. CASE Restored
  <2>1. /\ pc = "restored" /\ Still /\ wire = <<>> /\ wire' = <<>> /\ pc' = "actual"
        /\ UNCHANGED mutated /\ trouble' = (trouble \/ FALSE)
        /\ outcome' = IF mode = saved.mode /\ screen.size = saved.size
                      THEN "os_failed" ELSE "rollback_failed"
    BY <1>11 DEF Restored, Answered, Conclude, Quiet, Still
  <2>2. CASE mode = saved.mode /\ screen.size = saved.size
    <3>1. meddles = saved.meddles => screen = [size |-> saved.size, mm |-> saved.mm]
      <4>1. CASE mutated
        BY <1>2, <2>1, <2>2, <4>1, ChangeTyped DEF Measured, Screens
      <4>2. CASE ~mutated
        BY <1>1, <1>2, <4>2 DEF Untouched
      <4>3. QED
        BY <4>1, <4>2, ChangeTyped
    <3>2. outcome' = "os_failed"
      BY <2>1, <2>2
    <3>3. Concluded' /\ Within' /\ UndoWorks'
      BY <1>2, <2>1, <3>2 DEF Concluded, Within, UndoWorks, Still, Told
    <3>4. ReportIsTrue'
      BY <2>1, <2>2, <3>1, <3>2 DEF ReportIsTrue, Still
    <3>5. Alone' /\ Asked' /\ Measured' /\ Untouched' /\ Restorable' /\ Undone'
      BY <2>1 DEF Alone, Asked, Measured, Untouched, Restorable, Undone, Inside, Preparing,
          Saving, Applying, Restoring, Changing
    <3>6. QED
      BY <3>3, <3>4, <3>5 DEF ChangeInv
  <2>3. CASE ~(mode = saved.mode /\ screen.size = saved.size)
    <3>1. trouble \/ (~mutated /\ meddles # saved.meddles)
      <4>1. CASE mutated
        BY <1>2, <2>1, <2>3, <4>1 DEF Undone
      <4>2. CASE ~mutated
        BY <1>1, <1>2, <2>3, <4>2, ChangeTyped DEF Untouched
      <4>3. QED
        BY <4>1, <4>2, ChangeTyped
    <3>2. outcome' = "rollback_failed"
      BY <2>1, <2>3
    <3>3. QED
      BY <2>1, <3>1, <3>2, GivesUp, ChangeTyped
  <2>4. QED
    BY <2>2, <2>3
<1>12. QED
  BY <1>5, <1>7, <1>8, <1>9, <1>10, <1>11

\* Other clients: what they change is notified, counted, and trouble for an undo.
LEMMA ChangeKeptByOthers ==
    ASSUME IInv, ChangeInv, Server, Meddle \/ Hotplug
    PROVE  ChangeInv'
<1>1. UNCHANGED <<topology, look, held, faulted, sight, flow, awaiting, authorized, late, change>>
  BY Served DEF IInv
<1>2. UNCHANGED <<look, pc, then, failed, outcome, awaiting, target, saved, mutated, bound>>
  BY <1>1 DEF flow, change
<1>3. /\ meddles' = meddles + 1 /\ UNCHANGED <<wire, answer>> /\ noticed' # "none"
      /\ noticed = "arrived" => noticed' = "arrived"
      /\ screen'.mm = screen.mm
  BY ChangeTyped DEF Meddle, Hotplug, Meddles, Notify, Screens
<1>4. meddles' # saved'.meddles /\ saved'.meddles <= meddles'
  BY <1>2, <1>3, ChangeTyped DEF ChangeInv, Concluded
<1>5. Within'
  <2>1. CASE Meddle
    <3>1. PICK m \in Sizes \cup {Off} :
            /\ mode' = m /\ screen' = [screen EXCEPT !.size = IF m = Off THEN @ ELSE m]
      BY <2>1 DEF Meddle
    <3>2. screen'.size = IF m = Off THEN screen.size ELSE m
      BY <3>1, ChangeTyped DEF Screens
    <3>3. screen.size \in Nat \X Nat /\ (m # Off => m \in Nat \X Nat)
      BY ChangeTyped, SizesAssumption DEF Screens, Positive
    <3>4. QED
      BY <3>1, <3>2, <3>3 DEF Within, Fits, Off
  <2>2. CASE Hotplug
    BY <2>2 DEF Hotplug, ChangeInv, Within
  <2>3. QED
    BY <2>1, <2>2
<1>6. Concluded'
  BY <1>2, <1>3, <1>4 DEF ChangeInv, Concluded
<1>7. Alone' /\ Asked'
  BY <1>2, <1>3 DEF ChangeInv, Alone, Asked, Inside, Preparing, TargetMM
<1>8. Measured'
  BY <1>2, <1>3 DEF ChangeInv, Measured, TargetMM
<1>9. Untouched' /\ ReportIsTrue'
  BY <1>4 DEF Untouched, ReportIsTrue
<1>10. Restorable'
  BY <1>2, <1>3 DEF ChangeInv, Restorable, Preparing
<1>11. trouble' = (trouble \/ Undoing)
  <2>1. ~\E result \in {"ok", "refused"} : Execute(result, awaiting # None)
    BY <1>3, ChangeTyped DEF Execute
  <2>2. QED
    BY <2>1 DEF Server
<1>12. Undone'
  BY <1>2, <1>11 DEF Undone, Undoing, Changing, Restoring
<1>13. UndoWorks'
  BY <1>2, <1>3, <1>4, <1>11 DEF ChangeInv, UndoWorks
<1>14. QED
  BY <1>5, <1>6, <1>7, <1>8, <1>9, <1>10, <1>12, <1>13 DEF ChangeInv

\* The server executes what was asked last, or what was given up before the undo began.
LEMMA ChangeKeptByExecution ==
    ASSUME IInv, ChangeInv, Server, NEW result \in {"ok", "refused"},
           Execute(result, awaiting # None),
           trouble' = (trouble \/ (Undoing /\ result = "refused" /\ Admits(Head(wire))))
    PROVE  ChangeInv'
<1>1. UNCHANGED <<topology, look, held, faulted, sight, flow, awaiting, authorized, late, change>>
  BY Served DEF IInv
<1>2. UNCHANGED <<look, pc, then, failed, outcome, awaiting, target, saved, mutated, bound>>
  BY <1>1 DEF flow, change
<1>3. /\ wire # <<>> /\ wire' = Tail(wire) /\ UNCHANGED <<stamp, meddles>>
      /\ IF result = "ok" THEN Obey(Head(wire)) ELSE Refuse
      /\ awaiting # None => answer' = result
  BY DEF Execute
<1>4. /\ Concluded /\ Within /\ Alone /\ Asked /\ Measured /\ Untouched /\ Restorable /\ Undone
      /\ UndoWorks
  BY DEF ChangeInv
<1>5. wire \in Seq(Requests)
  BY ChangeTyped
<1>6. Inside /\ (pc = "restore" => ~mutated) =>
        awaiting # None /\ wire = <<awaiting>> /\ wire' = <<>> /\ Head(wire) = awaiting
  BY <1>3, <1>4, <1>5 DEF Alone
<1>7. awaiting # None =>
        \/ pc = "event" \/ (pc = "release" /\ awaiting \in Releases)
        \/ (pc \in Changing /\ mutated)
  BY <1>4 DEF IInv, Awaiting, Asked
<1>8. Inside => \/ pc = "restore"
                \/ Preparing /\ awaiting \in Releases
                \/ pc \in Changing /\ mutated
  BY <1>6, <1>7 DEF Inside, Preparing, Saving, Applying, Restoring, Changing
<1>9. Within'
  BY <1>3, <1>4 DEF Within, Obey, Admits, Refuse
<1>10. Concluded' /\ ReportIsTrue'
  BY <1>2, <1>3, <1>4 DEF Concluded, ReportIsTrue
<1>11. Alone'
  BY <1>2, <1>6 DEF Alone, Inside, Preparing
<1>12. Asked'
  BY <1>2, <1>4 DEF Asked, TargetMM
<1>13. Measured'
  <2>1. pc # "confirm" /\ ~(pc = "restored" /\ mutated)
    BY <1>8 DEF Inside, Preparing, Applying, Restoring, Changing
  <2>2. ASSUME pc \in {"apply.shrink", "restore.shrink"}, answer' = "ok"
        PROVE  screen'.mm = awaiting.screen.mm
    <3>1. awaiting # None /\ Head(wire) = awaiting
      BY <1>6, <2>2 DEF Inside, Applying, Restoring
    <3>2. Obey(awaiting)
      BY <1>3, <2>2, <3>1
    <3>3. awaiting.do = "screen"
      BY <1>4, <2>2, <3>1 DEF Asked, SetScreen
    <3>4. QED
      BY <3>2, <3>3 DEF Obey
  <2>3. QED
    BY <1>2, <2>1, <2>2 DEF Measured
<1>14. Untouched'
  <2>1. pc \notin Saving /\ (pc \in Applying \cup Restoring => mutated \/ pc = "restore")
    BY <1>8 DEF Inside, Preparing, Saving, Applying, Restoring, Changing
  <2>2. pc = "restore" => mutated
    BY <1>6, <1>7 DEF Inside, Restoring, Changing
  <2>3. Preparing => UNCHANGED <<mode, screen>>
    <3>1. Preparing => Head(wire) \in Releases
      BY <1>6, <1>8 DEF Inside, Preparing, Changing
    <3>2. \A r \in Releases : r.do = "release"
      BY DEF Releases, Release
    <3>3. QED
      BY <1>3, <3>1, <3>2 DEF Obey, Refuse
  <2>4. QED
    BY <1>2, <1>3, <1>4, <2>1, <2>2, <2>3, ChangeTyped DEF Untouched, Preparing, Saving
<1>15. Restorable'
  <2>1. pc \notin Saving
    BY <1>8 DEF Inside, Preparing, Saving, Changing
  <2>2. QED
    BY <1>2, <1>4, <2>1 DEF Restorable, Preparing, Saving
<1>16. Undone'
  <2>1. SUFFICES ASSUME ~trouble'
                 PROVE  Undone'
    BY DEF Undone
  <2>2. ~trouble /\ (pc \in Restoring => result = "ok" \/ ~Admits(Head(wire)))
    BY <2>1, ChangeTyped DEF Undoing
  <2>3. pc \in Restoring => pc = "restore" \/ (pc \in Changing /\ mutated)
    BY <1>8 DEF Inside, Preparing, Restoring
  <2>4. ASSUME NEW size, NEW mm, NEW m, NEW s
        PROVE  /\ SetScreen(size, mm).do = "screen" /\ SetScreen(size, mm).screen.size = size
               /\ SetCrtc(m, s).do = "crtc" /\ SetCrtc(m, s).mode = m /\ SetCrtc(m, s).stamp = s
    BY DEF SetScreen, SetCrtc
  <2>5. CASE pc = "restore.grow"
    <3>1. Head(wire) = SetScreen(bound, saved.mm) /\ awaiting # None /\ wire' = <<>>
      BY <1>4, <1>6, <2>5 DEF Asked, Inside, Restoring
    <3>2. Admits(Head(wire))
      BY <1>4, <2>2, <2>4, <2>5, <3>1 DEF Undone, Admits
    <3>3. result = "ok" /\ Obey(Head(wire))
      BY <1>3, <2>2, <2>5, <3>2 DEF Restoring
    <3>4. screen'.size = bound /\ mode' = mode
      BY <2>4, <3>1, <3>3 DEF Obey
    <3>5. QED
      BY <1>2, <1>3, <1>4, <2>2, <2>5, <3>1, <3>3, <3>4 DEF Undone
  <2>6. CASE pc = "restore.crtc"
    <3>1. Head(wire) = SetCrtc(saved.mode, look.stamp) /\ awaiting # None /\ wire' = <<>>
      BY <1>4, <1>6, <2>6 DEF Asked, Inside, Restoring
    <3>2. Fits(saved.mode, screen.size) /\ look.stamp = stamp
      <4>1. Fits(saved.mode, saved.size) /\ Fits(saved.size, screen.size) /\ look.stamp = stamp
        BY <1>4, <2>2, <2>6 DEF Restorable, Undone, Restoring
      <4>2. /\ saved.mode \in Nat \X Nat /\ saved.size \in Nat \X Nat
            /\ screen.size \in Nat \X Nat
        BY ChangeTyped, SizesAssumption DEF Screens, Positive, Off
      <4>3. QED
        BY <4>1, <4>2, FitsOver
    <3>3. Admits(Head(wire))
      BY <2>4, <3>1, <3>2 DEF Admits
    <3>4. result = "ok" /\ Obey(Head(wire))
      BY <1>3, <2>2, <2>6, <3>3 DEF Restoring
    <3>5. screen' = screen /\ mode' = saved.mode
      BY <2>4, <3>1, <3>4 DEF Obey
    <3>6. QED
      BY <1>2, <1>3, <1>4, <2>2, <2>6, <3>1, <3>4, <3>5 DEF Undone
  <2>7. CASE pc = "restore.shrink"
    <3>1. Head(wire) = SetScreen(saved.size, saved.mm) /\ awaiting # None /\ wire' = <<>>
      BY <1>4, <1>6, <2>7 DEF Asked, Inside, Restoring
    <3>2. Admits(Head(wire))
      BY <1>4, <2>2, <2>4, <2>7, <3>1 DEF Undone, Restorable, Restoring, Admits
    <3>3. result = "ok" /\ Obey(Head(wire))
      BY <1>3, <2>2, <2>7, <3>2 DEF Restoring
    <3>4. screen'.size = saved.size /\ mode' = mode
      BY <2>4, <3>1, <3>3 DEF Obey
    <3>5. QED
      BY <1>2, <1>3, <1>4, <2>2, <2>7, <3>1, <3>3, <3>4 DEF Undone
  <2>8. CASE pc \notin {"restore.grow", "restore.crtc", "restore.shrink"}
    BY <1>2, <2>3, <2>8 DEF Undone, Restoring, Changing
  <2>9. QED
    BY <2>5, <2>6, <2>7, <2>8
<1>17. UndoWorks'
  BY <1>2, <1>3, <1>4 DEF UndoWorks
<1>18. QED
  BY <1>9, <1>10, <1>11, <1>12, <1>13, <1>14, <1>15, <1>16, <1>17 DEF ChangeInv

\* Every step of the mode change, and every step beside it, keeps the invariant.
LEMMA ChangeKept ==
    ASSUME IInv, ChangeInv, [Next]_vars
    PROVE  ChangeInv'
<1>1. CASE Next /\ ~Server /\ ~Inside
  BY <1>1, ChangeKeptOutside
<1>2. CASE Next /\ ~Server /\ Inside
  BY <1>2, InsideSteps, ChangeKeptByErrors, ChangeKeptBefore, ChangeKeptApplying,
     ChangeKeptBetween, ChangeKeptRestoring
<1>3. CASE Server
  BY <1>3, ChangeKeptByOthers, ChangeKeptByExecution DEF Server
<1>4. CASE UNCHANGED vars
  <2>1. UNCHANGED <<server, look, pc, then, failed, outcome, awaiting, target, saved, mutated,
                    bound, trouble>>
    BY <1>4 DEF vars, flow, change
  <2>2. Concluded' /\ Within' /\ Alone' /\ Asked' /\ Measured'
    BY <2>1
    DEF ChangeInv, Concluded, Within, Alone, Asked, Measured, Inside, Preparing, TargetMM, server
  <2>3. Untouched' /\ Restorable' /\ Undone' /\ ReportIsTrue' /\ UndoWorks'
    BY <2>1
    DEF ChangeInv, Untouched, Restorable, Undone, ReportIsTrue, UndoWorks, Preparing, server
  <2>4. QED
    BY <2>2, <2>3 DEF ChangeInv
<1>5. QED
  BY <1>1, <1>2, <1>3, <1>4

LEMMA ChangeAtFirst == Init => ChangeInv
<1> SUFFICES ASSUME Init
             PROVE  ChangeInv
  OBVIOUS
<1>1. /\ pc = "idle" /\ outcome = "none" /\ wire = <<>> /\ meddles = 0 /\ saved = Unsaved
      /\ mode = Preferred /\ screen = [size |-> mode, mm |-> mode]
  BY DEF Init, ServerInit
<1>2. Within
  <2>1. mode \in Nat \X Nat /\ screen.size = mode
    BY <1>1, SizesAssumption DEF Positive
  <2>2. QED
    BY <2>1 DEF Within, Fits
<1>3. Concluded /\ ReportIsTrue /\ UndoWorks
  BY <1>1 DEF Concluded, ReportIsTrue, UndoWorks, Unsaved
<1>4. Alone /\ Asked /\ Measured /\ Untouched /\ Restorable /\ Undone
  BY <1>1 DEF Alone, Asked, Measured, Untouched, Restorable, Undone, Preparing, Saving, Applying,
      Restoring, Changing
<1>5. QED
  BY <1>2, <1>3, <1>4 DEF ChangeInv

LEMMA ChangeAlways == Spec => []ChangeInv
BY ChangeAtFirst, ChangeKept, Invariance, PTL DEF Spec

\* resize_display and transact (resize.rs), and the core's answer (core.rs, dispatch): what is
\* reported applied is so, to the millimetre, and what is reported as undone is as before,
\* unless another client has changed the display in the meantime.
THEOREM ReportsAreTrue == Spec => []ReportIsTrue
<1>1. ChangeInv => ReportIsTrue
  BY DEF ChangeInv
<1>2. QED
  BY <1>1, ChangeAlways, PTL

\* restore (resize.rs): the root window grows before the mode is set back and shrinks after it,
\* against timestamps just listed, so an undo that nothing disturbs is never refused, whatever
\* of the change was executed, refused, or came late.
THEOREM UndoAlwaysWorks == Spec => []UndoWorks
<1>1. ChangeInv => UndoWorks
  BY DEF ChangeInv
<1>2. QED
  BY <1>1, ChangeAlways, PTL
=============================================================================
