----------------------------- MODULE X11Backend ----------------------------
(***************************************************************************)
(* The desktop backend on X11 (device/capture/src: x11.rs, keyboard.rs,    *)
(* resize.rs, transport.rs) as the worker's core drives it through         *)
(* x11_adapter.rs: screenshots, injected input, releases and the mode      *)
(* change with its rollback.  The worker runs one operation at a time; pc  *)
(* is the step it is in.  Between two steps the X server executes requests *)
(* already written, other clients change the layout, and the authorization *)
(* of the operation may end.  Any request may fail: unwritten, refused, or *)
(* written with nobody waiting for its answer.                             *)
(*                                                                         *)
(* One output with one CRTC is modelled; pixel formats and keymaps are     *)
(* left out, as is the limit of 2^53 revisions.                            *)
(***************************************************************************)
EXTENDS X11Server

CONSTANTS
    Keys,         \* the inputs that are keys; the others are buttons
    Shift,        \* the key that shifts a character
    MaxOps,       \* operations after the first snapshot
    None

ASSUME KeysAssumption == Keys \subseteq Inputs /\ Shift \in Keys
ASSUME OpsAssumption == MaxOps \in Nat
ASSUME NoneAssumption == None \notin Requests

VARIABLES
    revision, known, knownStamp,  \* the topology last seen: its revision, mode, timestamp
    missed,      \* history: a change taken in since the snapshot left the revision as it was
    look,        \* the refresh of the topology under way
    held,        \* inputs the backend holds itself responsible for
    faulted,     \* a failed release has shut the worker
    snap,        \* the client's snapshot
    view,        \* the topology and picture this operation has seen
    ops,         \* operations begun, attempts at a first snapshot aside
    pc,          \* the step the operation is in
    cleared,     \* the guard has just been checked for this step
    awaiting,    \* the request whose answer is awaited
    authorized,  \* what the guard would say now
    late,        \* history: guarded requests written after authorization ended
    todo,        \* events still to inject
    rest, then, failed,   \* release_all: inputs left, the step after it, an error
    target, saved, mutated, bound, outcome,  \* the mode change
    trouble      \* history: the undo under way met an error

topology == <<revision, known, knownStamp, missed>>
flow == <<ops, pc, cleared, rest, then, failed, outcome, todo>>
change == <<target, saved, mutated, bound>>
sight == <<snap, view>>
vars == <<server, topology, look, held, faulted, sight, flow, awaiting,
          authorized, late, change, trouble>>

Buttons == Inputs \ Keys
NoLook == [step |-> "idle", changed |-> FALSE, stamp |-> 0]
NoView == [rev |-> 0, mode |-> Off, picture |-> Off]
Unsaved == [mode |-> Off, size |-> <<1, 1>>, mm |-> <<1, 1>>, meddles |-> 0]

Refreshing == {"shot.before", "shot.after", "shot.core", "input.core", "inject", "look",
               "resize.core", "resize.first", "resize.again", "actual", "report"}
Querying == {"shot.image", "resize.crtc", "resize.fresh", "resize.geometry",
             "apply.list", "restore.list", "restored"}
Guarded == {"event", "apply.grow", "apply.crtc", "apply.shrink", "confirm"}
Injecting == {"inject", "look", "event"}
Applying == {"apply.grow", "apply.list", "apply.crtc", "apply.shrink", "confirm"}
Restoring == {"restore", "restore.grow", "restore.list", "restore.crtc",
              "restore.shrink", "restored"}
Changing == {"apply.grow", "apply.crtc", "apply.shrink",
             "restore.grow", "restore.crtc", "restore.shrink"}
Steps == {"idle", "done", "release"} \cup Refreshing \cup Querying \cup Guarded \cup Restoring

\* What one input request injects; the last two are the text of one character.
TextPlans == {<<Press(k), Release(k)>> : k \in Keys \ {Shift}} \cup
             {<<Press(Shift), Press(k), Release(k), Release(Shift)>> : k \in Keys \ {Shift}}
Plans == {<<Motion>>} \cup {<<Motion, Press(b)>> : b \in Buttons}
         \cup {<<Motion, Release(b)>> : b \in Buttons}
         \cup {<<Motion, Press(b), Release(b)>> : b \in Buttons}
         \cup {<<Press(k)>> : k \in Keys} \cup {<<Release(k)>> : k \in Keys}
         \cup TextPlans

\* Physical dimensions follow the pixels they were measured for.
Scaled(mm, from, to) == <<Larger((mm[1] * to[1]) \div from[1], 1),
                          Larger((mm[2] * to[2]) \div from[2], 1)>>

Views == [rev : Nat, mode : Sizes \cup {Off}, picture : Sizes \cup {Off}]

SightTypeOK ==
    /\ revision \in Positive /\ knownStamp \in Nat /\ known \in Sizes \cup {Off}
    /\ look \in [step : {"idle", "drained", "listed"}, changed : BOOLEAN, stamp : Nat]
    /\ missed \in BOOLEAN
    /\ snap \in Views /\ view \in Views

FlowTypeOK ==
    /\ pc \in Steps /\ ops \in Nat /\ cleared \in BOOLEAN
    /\ todo \in Seq(Presses \cup Releases \cup {Motion})
    /\ rest \subseteq Inputs /\ failed \in BOOLEAN
    /\ then \in {"done", "core", "lease", "resize.first", "apply.grow"}
    /\ trouble \in BOOLEAN
    /\ outcome \in {"none", "unsupported", "applied", "os_failed", "rollback_failed",
                   "capture_failed"}

InputTypeOK ==
    /\ held \subseteq Inputs /\ faulted \in BOOLEAN
    /\ awaiting \in Requests \cup {None}
    /\ authorized \in BOOLEAN /\ late \in Nat

ChangeTypeOK ==
    /\ target \in Sizes /\ mutated \in BOOLEAN /\ bound \in Positive \X Positive
    /\ saved \in [mode : Sizes \cup {Off}, size : Positive \X Positive,
                  mm : Positive \X Positive, meddles : Nat]

TypeOK == ServerTypeOK /\ SightTypeOK /\ FlowTypeOK /\ InputTypeOK /\ ChangeTypeOK

Init ==
    /\ ServerInit
    /\ revision = 1 /\ known = mode /\ knownStamp = stamp
    /\ missed = FALSE /\ look = NoLook
    /\ held = {} /\ faulted = FALSE
    /\ snap = NoView /\ view = NoView
    /\ ops = 0 /\ pc = "idle" /\ cleared = FALSE /\ awaiting = None
    /\ authorized = FALSE /\ late = 0
    /\ todo = <<>> /\ rest = {} /\ then = "done" /\ failed = FALSE
    /\ target = Preferred /\ saved = Unsaved /\ mutated = FALSE /\ bound = <<1, 1>>
    /\ outcome = "none" /\ trouble = FALSE

(***************************************************************************)
(* Where a step leads, and where its error leads: a failed injection       *)
(* releases everything, a failed mode change is undone, a failed undo is   *)
(* reported, and any other error is the client's.                          *)
(***************************************************************************)
Goto(p) ==
    /\ pc' = p
    /\ cleared' = FALSE
    /\ UNCHANGED <<ops, rest, then, failed, outcome, todo, trouble>>

ReleaseAll(next) ==
    /\ pc' = "release"
    /\ cleared' = FALSE
    /\ rest' = held'
    /\ then' = next
    /\ failed' = FALSE
    /\ todo' = <<>>
    /\ UNCHANGED <<ops, outcome, trouble>>

Conclude(status, lost) ==
    /\ pc' = "actual"
    /\ cleared' = FALSE
    /\ outcome' = status
    /\ trouble' = (trouble \/ lost)
    /\ UNCHANGED <<ops, rest, then, failed, todo>>

Undo ==
    /\ pc' = "restore"
    /\ cleared' = FALSE
    /\ trouble' = FALSE
    /\ UNCHANGED <<ops, rest, then, failed, outcome, todo>>

Abort(lost) ==
    \/ pc \in Injecting /\ ReleaseAll("core")
    \/ pc \in Applying /\ Undo
    \/ pc \in Restoring /\ Conclude("rollback_failed", lost)
    \/ pc \notin Injecting \cup Applying \cup Restoring /\ Goto("done")

Proceed(ok, p) == IF ok THEN Goto(p) ELSE Abort(FALSE)

(***************************************************************************)
(* Requests.  A query waits for its answer, which follows everything       *)
(* written before it and brings the notifications queued so far.  A        *)
(* request that changes something is written, then its answer awaited.     *)
(***************************************************************************)
Answered ==
    /\ awaiting = None
    /\ wire = <<>>
    /\ noticed' = IF noticed = "queued" THEN "arrived" ELSE noticed
    /\ UNCHANGED <<mode, screen, down, stamp, wire, answer, meddles>>

Write(r) ==
    /\ awaiting = None
    /\ Len(wire) < MaxWire
    /\ wire' = Append(wire, r)
    /\ awaiting' = r
    /\ UNCHANGED <<mode, screen, down, stamp, noticed, answer, meddles>>

Returned(result) ==
    /\ awaiting # None
    /\ wire = <<>>
    /\ answer = result
    /\ answer' = "none"
    /\ awaiting' = None
    /\ noticed' = IF noticed = "queued" THEN "arrived" ELSE noticed
    /\ UNCHANGED <<mode, screen, down, stamp, wire, meddles>>

\* Mutation: the guard is asked before some requests only.
WriteUnguarded(r) ==
    /\ Write(r)
    /\ late' = IF authorized THEN late ELSE late + 1

\* A guarded request: counted when the authorization has ended since the check.
WriteGuarded(r) ==
    /\ cleared
    /\ Write(r)
    /\ late' = IF authorized THEN late ELSE late + 1

(***************************************************************************)
(* refresh_topology: take in the notifications, list the resources, read   *)
(* the CRTC.  Only the last step may move the revision.                    *)
(***************************************************************************)
Drain ==
    /\ pc \in Refreshing
    /\ look.step = "idle"
    /\ \E changed \in BOOLEAN :
        /\ (noticed = "arrived" => changed) /\ (noticed = "none" => ~changed)
        /\ look' = [step |-> "drained", changed |-> changed, stamp |-> 0]
        /\ noticed' = IF changed THEN "none" ELSE noticed
    /\ UNCHANGED <<mode, screen, down, stamp, wire, answer, meddles, trouble>>
    /\ UNCHANGED <<topology, held, faulted, sight, flow, awaiting, authorized, late,
                   change>>

ListResources ==
    /\ pc \in Refreshing
    /\ look.step = "drained"
    /\ Answered
    /\ look' = [look EXCEPT !.step = "listed", !.stamp = stamp]
    /\ UNCHANGED <<topology, held, faulted, sight, flow, trouble, awaiting,
                   authorized, late, change>>

\* Mutation: the notifications are taken in and not counted as a change.
RevisedUnnotified == stamp # knownStamp \/ mode # known

\* The revision moves if the layout may have changed since it was given.
Revised == look.changed \/ stamp # knownStamp \/ mode # known

Refreshed ==
    /\ look.step = "listed"
    /\ look.stamp = stamp
    /\ Answered
    /\ revision' = IF Revised THEN revision + 1 ELSE revision
    /\ known' = mode
    /\ knownStamp' = stamp
    /\ missed' = (missed /\ ~Revised /\ pc # "shot.core")
    /\ look' = NoLook
    /\ UNCHANGED <<faulted, awaiting>>

\* Mutation: any active display will do.
CheckedActive(rev) == known' # Off

\* checked_display: the topology is that of the revision, and the display is active.
Checked(rev) == revision' = rev /\ known' # Off

(***************************************************************************)
(* Errors: a check, a query, the notifications or the deadline fail; a     *)
(* request cannot be written; an answer is not waited for, or is a refusal *)
(***************************************************************************)
Fails ==
    /\ pc \in Refreshing \cup Querying \cup Guarded \cup {"restore"}
    /\ cleared => pc = "confirm"
    /\ awaiting = None
    /\ UNCHANGED held
    /\ Abort(TRUE)
    /\ look' = NoLook
    /\ missed' = (missed \/ (look.changed /\ snap # NoView))
    /\ UNCHANGED <<server, revision, known, knownStamp, faulted, sight, awaiting, authorized,
                   late, change>>

\* The deadline passes before the answer: the request stays on its way.
TimesOut ==
    /\ awaiting # None
    /\ awaiting' = None
    /\ answer' = "none"
    /\ UNCHANGED held
    /\ IF pc = "release"
       THEN failed' = TRUE /\ UNCHANGED <<ops, pc, cleared, rest, then, outcome, todo, trouble>>
       ELSE Abort(TRUE)
    /\ look' = NoLook
    /\ UNCHANGED <<mode, screen, down, stamp, noticed, wire, meddles>>
    /\ UNCHANGED <<topology, faulted, sight, authorized, late, change>>

Refused ==
    /\ Returned("refused")
    /\ UNCHANGED held
    /\ IF pc = "release"
       THEN failed' = TRUE /\ UNCHANGED <<ops, pc, cleared, rest, then, outcome, todo, trouble>>
       ELSE Abort(FALSE)
    /\ look' = NoLook
    /\ UNCHANGED <<topology, faulted, sight, authorized, late, change>>

\* The guard, immediately before each guarded request.
Guard ==
    /\ pc \in Guarded /\ ~cleared
    /\ UNCHANGED held
    /\ IF authorized
       THEN cleared' = TRUE /\ UNCHANGED <<ops, pc, rest, then, failed, outcome, todo, trouble>>
       ELSE Abort(FALSE)
    /\ UNCHANGED <<server, topology, look, faulted, sight, awaiting, authorized, late, 
                   change>>

\* The lease runs out, or the connection is cancelled: at any time, and told apart only in
\* the steps that ask.
Deauthorize ==
    /\ pc \in Guarded \cup {"input.core", "resize.first", "resize.again"}
    /\ awaiting = None /\ authorized
    /\ authorized' = FALSE
    /\ UNCHANGED <<server, topology, look, held, faulted, sight, flow, awaiting,
                   late, change, trouble>>

(***************************************************************************)
(* screenshot.request: the picture counts only if the topology before it,  *)
(* after it, and as the core lists it then, are one.                       *)
(***************************************************************************)
Start(p) ==
    /\ pc = "idle" /\ ~faulted
    /\ IF p = "shot.before" /\ snap = NoView /\ ops = 0 THEN UNCHANGED ops
       ELSE ops < MaxOps /\ ops' = ops + 1
    /\ pc' = p
    /\ UNCHANGED <<server, topology, look, held, faulted, sight, cleared, failed, outcome,
                   awaiting, late, saved, mutated, bound, trouble>>

\* The answer is sent: nothing of the operation is kept.
Reply ==
    /\ pc = "done"
    /\ pc' = "idle"
    /\ view' = NoView /\ todo' = <<>>
    /\ authorized' = FALSE /\ late' = 0
    /\ rest' = {} /\ then' = "done" /\ failed' = FALSE
    /\ target' = Preferred /\ saved' = Unsaved /\ mutated' = FALSE /\ bound' = Unsaved.size
    /\ outcome' = "none" /\ trouble' = FALSE
    /\ UNCHANGED <<server, topology, look, held, faulted, snap, ops, cleared, awaiting>>

Screenshot ==
    /\ Start("shot.before")
    /\ UNCHANGED <<authorized, todo, target, rest, then>>

Before ==
    /\ pc = "shot.before"
    /\ Refreshed
    /\ UNCHANGED held
    /\ view' = [NoView EXCEPT !.rev = revision', !.mode = known']
    /\ Proceed(known' # Off, "shot.image")
    /\ UNCHANGED <<snap, authorized, late, change>>

GetImage ==
    /\ pc = "shot.image"
    /\ Answered
    /\ view' = [view EXCEPT !.picture = mode]
    /\ Goto("shot.after")
    /\ UNCHANGED <<topology, look, held, faulted, snap, awaiting, authorized, late,
                   change>>

After ==
    /\ pc = "shot.after"
    /\ Refreshed
    /\ UNCHANGED held
    /\ Proceed(revision' = view.rev /\ known' = view.mode, "shot.core")
    /\ UNCHANGED <<sight, authorized, late, change>>

Keep ==
    /\ pc = "shot.core"
    /\ Refreshed
    /\ UNCHANGED held
    /\ Goto("done")
    /\ snap' = IF revision' = view.rev /\ known' = view.mode THEN view ELSE snap
    /\ UNCHANGED <<view, authorized, late, change>>

(***************************************************************************)
(* input.pointer, input.key and input.text: the core compares the snapshot *)
(* with the topology, the backend does so again before every event, and    *)
(* what may be down is remembered before it is sent.                       *)
(***************************************************************************)
Input ==
    /\ snap # NoView
    /\ Start("input.core")
    /\ authorized' = TRUE
    /\ todo' \in Plans
    /\ UNCHANGED <<target, rest, then>>

Admit ==
    /\ pc = "input.core"
    /\ Refreshed
    /\ UNCHANGED held
    /\ Proceed(revision' = snap.rev /\ known' = snap.mode /\ known' # Off /\ authorized,
               "inject")
    /\ UNCHANGED <<sight, authorized, late, change>>

Inject ==
    /\ pc = "inject"
    /\ Refreshed
    /\ UNCHANGED held
    /\ Proceed(Checked(snap.rev) /\ (todo \in TextPlans => held \cap Keys = {}), "look")
    /\ UNCHANGED <<sight, authorized, late, change>>

BeforeInput ==
    /\ pc = "look"
    /\ Refreshed
    /\ UNCHANGED held
    /\ Proceed(Checked(snap.rev), "event")
    /\ UNCHANGED <<sight, authorized, late, change>>

\* Mutation: a press is not remembered before it is sent.
RememberAnswered == UNCHANGED held

Remember == held' = IF Head(todo) \in Presses THEN held \cup {Head(todo).input} ELSE held

SendEvent ==
    /\ pc = "event"
    /\ WriteGuarded(Head(todo))
    /\ Remember
    /\ UNCHANGED <<topology, look, faulted, sight, flow, trouble, authorized, 
                   change>>

EventUnsent ==
    /\ pc = "event" /\ cleared /\ awaiting = None
    /\ Remember
    /\ Abort(TRUE)
    /\ UNCHANGED <<server, topology, look, faulted, sight, awaiting, authorized, late, 
                   change>>

EventDone ==
    /\ pc = "event"
    /\ Returned("ok")
    /\ held' = IF Head(todo) \in Releases THEN held \ {Head(todo).input} ELSE held
    /\ todo' = Tail(todo)
    /\ pc' = IF todo' = <<>> THEN "done" ELSE "look"
    /\ cleared' = FALSE
    /\ UNCHANGED <<ops, rest, then, failed, outcome, trouble>>
    /\ UNCHANGED <<topology, look, faulted, sight, authorized, late, change>>

(***************************************************************************)
(* release_all: every input held is released without asking the guard; an  *)
(* input stays held until its release is answered, and errors do not stop  *)
(* the loop.  Keys are released before buttons.                            *)
(***************************************************************************)
\* input.reset ("done"), and the end of the lease ("lease"), which a failed release shuts.
ReleaseHeld(next) ==
    /\ Start("release")
    /\ rest' = held /\ then' = next
    /\ UNCHANGED <<authorized, todo, target>>

Due(i) == pc = "release" /\ i \in rest /\ (rest \cap Keys # {} => i \in Keys)

SendRelease(i) ==
    /\ Due(i)
    /\ rest' = rest \ {i}
    /\ Write(Release(i))
    /\ UNCHANGED <<ops, pc, cleared, then, failed, outcome, todo, trouble>>
    /\ UNCHANGED <<topology, look, held, faulted, sight, authorized, late, 
                   change>>

ReleaseUnsent(i) ==
    /\ Due(i) /\ awaiting = None
    /\ rest' = rest \ {i}
    /\ failed' = TRUE
    /\ UNCHANGED <<server, ops, pc, cleared, then, outcome, todo, trouble>>
    /\ UNCHANGED <<topology, look, held, faulted, sight, awaiting, authorized, late,
                   change>>

ReleaseDone ==
    /\ pc = "release"
    /\ Returned("ok")
    /\ held' = held \ {awaiting.input}
    /\ UNCHANGED <<flow, trouble>>
    /\ UNCHANGED <<topology, look, faulted, sight, authorized, late, change>>

\* Mutation: the mode change goes on when a release failed.
AllReleasedAnyway ==
    /\ pc = "release" /\ rest = {} /\ awaiting = None
    /\ UNCHANGED held
    /\ IF then = "core" THEN ReleaseAll("lease") ELSE Goto(IF then = "lease" THEN "done" ELSE then)
    /\ UNCHANGED <<server, topology, look, faulted, sight, awaiting, authorized, late, 
                   change>>

\* An injection that failed is released by the backend and then by the core; the mode change
\* goes on only if nothing is held.
AllReleased ==
    /\ pc = "release" /\ rest = {} /\ awaiting = None
    /\ faulted' = (faulted \/ (then = "lease" /\ failed))
    /\ UNCHANGED held
    /\ \/ then = "core" /\ ReleaseAll("lease")
       \/ then \in {"done", "lease"} /\ Goto("done")
       \/ then \in {"resize.first", "apply.grow"} /\ Goto(IF failed THEN "done" ELSE then)
    /\ UNCHANGED <<server, topology, look, sight, awaiting, authorized, late, change>>

(***************************************************************************)
(* display.resize: the core's checks and release, the preflight that saves *)
(* the mode, the transaction (transact), and the core's look at the result *)
(***************************************************************************)
Resize(m) ==
    /\ Start("resize.core")
    /\ authorized' = TRUE
    /\ target' = m
    /\ UNCHANGED <<todo, rest, then>>

Listed ==
    /\ pc = "resize.core"
    /\ Refreshed
    /\ UNCHANGED held
    /\ view' = [NoView EXCEPT !.rev = revision']
    /\ IF known' # Off THEN ReleaseAll("resize.first") ELSE Goto("done")
    /\ UNCHANGED <<snap, authorized, late, change>>

Preflight ==
    /\ pc = "resize.first"
    /\ Refreshed
    /\ UNCHANGED held
    /\ Proceed(authorized /\ Checked(view.rev), "resize.crtc")
    /\ UNCHANGED <<sight, authorized, late, change>>

\* What the display, its CRTC or the other CRTCs do not support is rejected here.
Quiet == UNCHANGED <<topology, look, held, faulted, sight, awaiting, authorized,
                     late, target, mutated>>

SaveCrtc ==
    /\ pc = "resize.crtc"
    /\ Answered
    /\ saved' = [Unsaved EXCEPT !.mode = mode, !.meddles = meddles]
    /\ \/ mode # Off /\ Goto("resize.fresh")
       \/ Conclude("unsupported", FALSE)
    /\ Quiet /\ UNCHANGED bound

\* A fresh connection, which waits for nothing, tells the physical dimensions.
SaveFresh ==
    /\ pc = "resize.fresh"
    /\ saved' = [saved EXCEPT !.size = screen.size, !.mm = screen.mm]
    /\ Goto("resize.geometry")
    /\ Quiet /\ UNCHANGED bound
    /\ UNCHANGED server

SaveGeometry ==
    /\ pc = "resize.geometry"
    /\ Answered
    /\ Proceed(screen.size = saved.size, "resize.again")
    /\ Quiet /\ UNCHANGED <<saved, bound>>

Begin ==
    /\ pc = "resize.again"
    /\ Refreshed
    /\ UNCHANGED held
    /\ mutated' = FALSE
    /\ IF Checked(view.rev) /\ authorized THEN ReleaseAll("apply.grow") ELSE Abort(FALSE)
    /\ UNCHANGED <<sight, authorized, late, target, saved, bound>>

\* The root window first grows to hold both modes, so that either may be set in it.
Grown == Join(target, saved.size)
\* Mutation: the physical dimensions are those of the old mode.
OldMM == saved.mm

TargetMM == Scaled(saved.mm, saved.size, target)

Mutates ==
    /\ mutated' = TRUE
    /\ UNCHANGED <<flow, trouble>>
    /\ UNCHANGED <<topology, look, held, faulted, sight, authorized, target,
                   saved, bound>>

ApplyGrow ==
    /\ pc = "apply.grow" /\ Grown # saved.size
    /\ WriteGuarded(SetScreen(Grown, TargetMM))
    /\ Mutates

NoGrowth ==
    /\ pc = "apply.grow" /\ Grown = saved.size /\ cleared /\ awaiting = None
    /\ Goto("apply.list")
    /\ UNCHANGED <<server, saved, bound>> /\ Quiet

ApplyCrtc ==
    /\ pc = "apply.crtc"
    /\ WriteGuarded(SetCrtc(target, look.stamp))
    /\ Mutates

ApplyShrink ==
    /\ pc = "apply.shrink"
    /\ WriteGuarded(SetScreen(target, TargetMM))
    /\ Mutates

\* A change counts as made before it is written.
ApplyUnsent ==
    /\ pc \in {"apply.grow", "apply.crtc", "apply.shrink"} /\ cleared /\ awaiting = None
    /\ mutated' = TRUE
    /\ Undo
    /\ look' = NoLook
    /\ UNCHANGED <<server, topology, held, faulted, sight, awaiting, authorized, late, 
                   target, saved, bound>>

Confirm ==
    /\ pc = "confirm" /\ cleared
    /\ Answered
    /\ IF mode = target /\ screen.size = target THEN Conclude("applied", FALSE) ELSE Undo
    /\ Quiet /\ UNCHANGED <<saved, bound>>

\* Mutation: the root window is restored before the mode.
RestoreUnbounded ==
    /\ pc = "restore"
    /\ Answered
    /\ bound' = saved.size
    /\ Goto(IF mutated THEN "restore.grow" ELSE "restored")
    /\ Quiet /\ UNCHANGED saved

\* restore: cleanup, allowed whatever became of the authorization.
Restore ==
    /\ pc = "restore"
    /\ IF mutated THEN Answered /\ bound' = Join(screen.size, saved.size)
                  ELSE UNCHANGED <<mode, screen, down, stamp, noticed, wire, answer,
                                   meddles, bound>>
    /\ Goto(IF mutated THEN "restore.grow" ELSE "restored")
    /\ Quiet /\ UNCHANGED saved

RestoreGrow ==
    /\ pc = "restore.grow"
    /\ Write(SetScreen(bound, saved.mm))
    /\ Mutates /\ UNCHANGED late

RestoreCrtc ==
    /\ pc = "restore.crtc"
    /\ Write(SetCrtc(saved.mode, look.stamp))
    /\ Mutates /\ UNCHANGED late

RestoreShrink ==
    /\ pc = "restore.shrink"
    /\ Write(SetScreen(saved.size, saved.mm))
    /\ Mutates /\ UNCHANGED late

\* set_crtc_config is written with the timestamp of resources it has just listed.
ListAgain ==
    /\ pc \in {"apply.list", "restore.list"}
    /\ Answered
    /\ look' = [NoLook EXCEPT !.stamp = stamp]
    /\ Goto(IF pc = "apply.list" THEN "apply.crtc" ELSE "restore.crtc")
    /\ UNCHANGED <<topology, held, faulted, sight, awaiting, authorized, late, 
                   change>>

Follows == [p \in Changing |->
    CASE p = "apply.grow" -> "apply.list"     [] p = "restore.grow" -> "restore.list"
      [] p = "apply.crtc" -> "apply.shrink"   [] p = "restore.crtc" -> "restore.shrink"
      [] p = "apply.shrink" -> "confirm"      [] p = "restore.shrink" -> "restored"]

Mutated ==
    /\ pc \in Changing
    /\ Returned("ok")
    /\ Goto(Follows[pc])
    /\ look' = NoLook
    /\ UNCHANGED <<topology, held, faulted, sight, authorized, late, change>>

\* A change of the restoration that cannot be written.
RestoreUnsent ==
    /\ pc \in {"restore.grow", "restore.crtc", "restore.shrink"} /\ awaiting = None
    /\ Conclude("rollback_failed", TRUE)
    /\ look' = NoLook
    /\ UNCHANGED <<server, topology, held, faulted, sight, awaiting, authorized, late, 
                   change>>

Restored ==
    /\ pc = "restored"
    /\ Answered
    /\ Conclude(IF mode = saved.mode /\ screen.size = saved.size
                THEN "os_failed" ELSE "rollback_failed", FALSE)
    /\ Quiet /\ UNCHANGED <<saved, bound>>

Actual ==
    /\ pc = "actual"
    /\ Refreshed
    /\ UNCHANGED held
    /\ view' = [NoView EXCEPT !.rev = revision', !.mode = known']
    /\ Proceed(known' # Off, "report")
    /\ UNCHANGED <<snap, authorized, late, change>>

\* The core answers with the outcome only if it still sees what the backend reported, and the
\* mode it asked for if that is applied (the revision has then moved, which it also checks).
Report ==
    /\ pc = "report"
    /\ Refreshed
    /\ UNCHANGED held
    /\ pc' = "done"
    /\ outcome' = IF /\ revision' = view.rev /\ known' = view.mode
                     /\ outcome = "applied" => known' = target
                  THEN outcome ELSE "capture_failed"
    /\ UNCHANGED <<ops, cleared, rest, then, failed, todo, trouble>>
    /\ UNCHANGED <<sight, authorized, late, change>>

Request ==
    \/ Screenshot \/ Input
    \/ \E next \in {"done", "lease"} : ReleaseHeld(next)
    \/ \E m \in Sizes : Resize(m)

Continue ==
    \/ Drain \/ ListResources \/ Fails \/ TimesOut \/ Refused \/ Guard
    \/ Before \/ GetImage \/ After \/ Keep
    \/ Admit \/ Inject \/ BeforeInput \/ SendEvent \/ EventUnsent \/ EventDone
    \/ \E i \in Inputs : SendRelease(i) \/ ReleaseUnsent(i)
    \/ ReleaseDone \/ AllReleased
    \/ Reply
    \/ Listed \/ Preflight \/ SaveCrtc \/ SaveFresh \/ SaveGeometry \/ Begin
    \/ ApplyGrow \/ NoGrowth \/ ApplyCrtc \/ ApplyShrink \/ ApplyUnsent \/ Confirm
    \/ Restore \/ RestoreGrow \/ RestoreCrtc \/ RestoreShrink \/ RestoreUnsent
    \/ ListAgain \/ Mutated \/ Restored \/ Actual \/ Report

Undoing == pc \in Restoring

Server ==
    /\ \/ \E result \in {"ok", "refused"} :
            /\ Execute(result, awaiting # None)
            /\ trouble' = (trouble \/ (Undoing /\ result = "refused" /\ Admits(Head(wire))))
       \/ (Meddle \/ Hotplug) /\ trouble' = (trouble \/ Undoing)
    /\ UNCHANGED <<topology, look, held, faulted, sight, flow, awaiting, authorized, late,
                   change>>

Next == Request \/ Continue \/ Deauthorize \/ Server

Spec == Init /\ [][Next]_vars

----------------------------------------------------------------------------
\* Whatever is down at the X server, or may yet be pressed by a request on its way, is held
\* by the backend, so that release_all releases it: however presses and releases were cut
\* short, lost or answered too late (x11.rs, fake and release_all).
HeldCoversDown ==
    \A i \in Inputs :
        i \in down \/ (\E n \in DOMAIN wire : wire[n] = Press(i)) => i \in held

\* No key or button is down while the display changes its mode: everything is released, and
\* the releases answered, before the first request of a transaction is written.
NothingDownInTransaction == (\E n \in DOMAIN wire : wire[n] \in Changes) => down = {}

\* At most one guarded request follows the end of the authorization: each event of a click or
\* a text, and each change of a mode, asks the guard again (ActionGuard, lib.rs).
OneLateRequest == late <= 1

\* A snapshot shows the layout its revision names: the picture was not taken in the middle of
\* a change that was reverted before the topology was read again.
SnapshotShowsItsLayout == snap.picture = snap.mode

\* An event is injected into the geometry of the snapshot it was aimed at, as far as the
\* server has told when the event is checked, at each event of a sequence.
InputMatchesPicture == pc = "event" => known = snap.picture

\* What the mode change reports is so, with the root window and its physical dimensions:
\* applied, the target; os_failed, what was there before. Unless other clients interfered.
ReportIsTrue ==
    meddles = saved.meddles =>
        /\ outcome = "applied" =>
            mode = target /\ screen = [size |-> target, mm |-> Scaled(saved.mm, saved.size, target)]
        /\ outcome = "os_failed" =>
            mode = saved.mode /\ screen = [size |-> saved.size, mm |-> saved.mm]

\* From wherever the transaction stopped, the undo follows the server's rules: it only fails
\* if, after it began, something else went wrong or another client interfered (or if there was
\* nothing to undo, and another client had changed the mode).
UndoWorks ==
    outcome = "rollback_failed" /\ pc = "actual" =>
        trouble \/ (~mutated /\ meddles # saved.meddles)

\* "Drain notifications so a change away and back invalidates observations too" (x11.rs:106):
\* no event is written for a snapshot older than a change the backend has been told of. It is:
\* a refresh that fails after the drain has taken the notification in and forgets it.
ChangeInvalidates == pc = "event" /\ cleared => ~missed
=============================================================================
