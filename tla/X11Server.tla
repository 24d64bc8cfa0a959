----------------------------- MODULE X11Server -----------------------------
(***************************************************************************)
(* The X server the desktop backend drives, as device/capture/src uses it: *)
(* one CRTC with a mode, the root window's size, what XTEST holds down,    *)
(* and the change notifications of RandR.  Requests of the backend's       *)
(* connection are executed in the order they were written, at any time:    *)
(* the backend may have stopped waiting for the answer (transport.rs), and *)
(* a request then still takes effect.  Other clients change the layout.    *)
(***************************************************************************)
EXTENDS Integers, Sequences

CONSTANTS
    Sizes,      \* the modes, each the size <<width, height>> it shows
    Preferred,  \* the mode the server starts in
    Inputs,     \* keys and buttons
    MaxWire,    \* requests the connection holds unexecuted
    MaxMeddles  \* changes other clients make

Off == <<0, 0>>  \* no mode: the CRTC is disabled

Positive == Nat \ {0}

ASSUME SizesAssumption == Sizes \subseteq Positive \X Positive /\ Preferred \in Sizes
ASSUME BoundsAssumption == MaxWire \in Nat /\ MaxMeddles \in Nat

VARIABLES
    mode,     \* what the CRTC shows
    screen,   \* the root window: its size, and the millimetres it claims
    down,     \* inputs held down by XTEST
    stamp,    \* RandR's config timestamp: it moves when the hardware changes
    noticed,  \* a change notification: none, queued at the server, or arrived
    wire,     \* requests written and not executed
    answer,   \* the answer to the request the backend waits for
    meddles   \* changes other clients have made

server == <<mode, screen, down, stamp, noticed, wire, answer, meddles>>

Fits(inner, outer) == inner[1] <= outer[1] /\ inner[2] <= outer[2]
Larger(a, b) == IF a >= b THEN a ELSE b
Join(a, b) == <<Larger(a[1], b[1]), Larger(a[2], b[2])>>

Screens == [size : Positive \X Positive, mm : Positive \X Positive]

Press(i) == [do |-> "press", input |-> i]
Release(i) == [do |-> "release", input |-> i]
Motion == [do |-> "motion"]
SetScreen(size, mm) == [do |-> "screen", screen |-> [size |-> size, mm |-> mm]]
SetCrtc(m, s) == [do |-> "crtc", mode |-> m, stamp |-> s]

Presses == {Press(i) : i \in Inputs}
Releases == {Release(i) : i \in Inputs}
Changes == [do : {"screen"}, screen : Screens] \cup
           [do : {"crtc"}, mode : Sizes \cup {Off}, stamp : Nat]
Requests == Presses \cup Releases \cup {Motion} \cup Changes

\* A changed layout is notified to the backend, which selected these events.
Notify == noticed' = IF noticed = "arrived" THEN "arrived" ELSE "queued"

\* The protocol's own rules: a CRTC lies within the root window, and a mode is set against
\* the current configuration.
Admits(r) ==
    /\ r.do = "screen" => Fits(mode, r.screen.size)
    /\ r.do = "crtc" => r.stamp = stamp /\ Fits(r.mode, screen.size)

Obey(r) ==
    /\ Admits(r)
    /\ down' = IF r \in Presses THEN down \cup {r.input}
               ELSE IF r \in Releases THEN down \ {r.input} ELSE down
    /\ screen' = IF r.do = "screen" THEN r.screen ELSE screen
    /\ mode' = IF r.do = "crtc" THEN r.mode ELSE mode
    /\ IF <<mode, screen>>' = <<mode, screen>> THEN UNCHANGED noticed ELSE Notify

\* What the rules admit may still be refused, by a driver or an access check.
Refuse == UNCHANGED <<mode, screen, down, noticed>>

\* The answer to a request nobody waits for any more is dropped.
Execute(result, awaited) ==
    /\ wire # <<>>
    /\ wire' = Tail(wire)
    /\ IF result = "ok" THEN Obey(Head(wire)) ELSE Refuse
    /\ answer' = IF awaited THEN result ELSE "none"
    /\ UNCHANGED <<stamp, meddles>>

Meddles ==
    /\ meddles < MaxMeddles
    /\ meddles' = meddles + 1
    /\ Notify
    /\ UNCHANGED <<down, wire, answer>>

\* Another client changes the mode, or turns the output off.
Meddle ==
    /\ Meddles
    /\ \E m \in (Sizes \cup {Off}) \ {mode} :
        /\ mode' = m
        /\ screen' = [screen EXCEPT !.size = IF m = Off THEN @ ELSE m]
    /\ UNCHANGED stamp

\* The hardware's configuration changes and the layout stays.
Hotplug ==
    /\ Meddles
    /\ stamp' = stamp + 1
    /\ UNCHANGED <<mode, screen>>

ServerInit ==
    /\ mode = Preferred
    /\ screen = [size |-> mode, mm |-> mode]
    /\ down = {}
    /\ stamp = 1
    /\ noticed = "none"
    /\ wire = <<>>
    /\ answer = "none"
    /\ meddles = 0

ServerTypeOK ==
    /\ mode \in Sizes \cup {Off}
    /\ screen \in Screens
    /\ down \subseteq Inputs
    /\ stamp \in Positive
    /\ noticed \in {"none", "queued", "arrived"}
    /\ wire \in Seq(Requests)
    /\ answer \in {"none", "ok", "refused"}
    /\ meddles \in Nat
=============================================================================
