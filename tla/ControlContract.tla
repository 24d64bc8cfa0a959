--------------------------- MODULE ControlContract ---------------------------
(***************************************************************************)
(* What each owner of desktop input promises about control (the device     *)
(* worker, the console daemon), with nothing of how: one owner at a time,  *)
(* and an owner that never starts with somebody else's keys down.         *)
(***************************************************************************)
CONSTANTS Client,   \* those who may own control
          Nobody    \* the owner when control is free

VARIABLES owner,    \* who owns control
          dirty,    \* some key or button is down on the desktop
          locked    \* control is shut for good

vars == <<owner, dirty, locked>>

Init == owner = Nobody /\ dirty = FALSE /\ locked = FALSE

\* Control is granted only when it is free and the desktop is clean.
Grant(c) ==
    /\ owner = Nobody /\ ~dirty /\ ~locked
    /\ owner' = c
    /\ UNCHANGED <<dirty, locked>>

\* Only while somebody owns control do keys and buttons go down or up.
Use ==
    /\ owner # Nobody /\ ~locked
    /\ dirty' \in BOOLEAN
    /\ UNCHANGED <<owner, locked>>

\* Losing control puts every key and button up, or shuts control for good.
Lose ==
    /\ owner # Nobody
    /\ owner' = Nobody
    /\ \/ dirty' = FALSE /\ UNCHANGED locked
       \/ dirty' \in BOOLEAN /\ locked' = TRUE

Next == (\E c \in Client : Grant(c)) \/ Use \/ Lose

Spec == Init /\ [][Next]_vars
==============================================================================
