----------------------------- MODULE ReplayLog -----------------------------
(***************************************************************************)
(* What the replay history of a terminal promises its readers, with        *)
(* nothing of how: every output reaches each of them once, or they are     *)
(* told that it is gone; what nobody was given goes only when nobody is    *)
(* there; and the end is the end.  No cursor, no age and no limit.         *)
(***************************************************************************)
EXTENDS Integers

CONSTANT Readers   \* those who read the log

VARIABLES
    last,     \* outputs 1 to last were made
    dropped,  \* outputs 1 to dropped are gone
    ended,    \* the end was announced
    watched,  \* somebody is there
    given,    \* the outputs each reader was given
    missed    \* the outputs each reader was told it cannot have

log == <<last, dropped, ended, watched, given, missed>>

Known(r) == given[r] \cup missed[r]

Init ==
    /\ last = 0 /\ dropped = 0 /\ ended = FALSE /\ watched = TRUE
    /\ given = [r \in Readers |-> {}] /\ missed = [r \in Readers |-> {}]

\* The oldest outputs go first, and under somebody's eyes only what some reader knows of.
Drop ==
    /\ dropped' \in dropped..last'
    /\ watched' => \A n \in 1..dropped' : \E r \in Readers : n \in Known(r)'

\* Outputs are made until the end; readers go away.
Record ==
    /\ last <= last' /\ (ended => ended' /\ last' = last)
    /\ watched' => watched
    /\ Drop
    /\ UNCHANGED <<given, missed>>

\* A reader, who is there now, gets all it does not know of, or is told that it is gone.
Serve(r) ==
    /\ watched' /\ Drop
    /\ LET news == 1..last \ Known(r) IN
       /\ given' = [given EXCEPT ![r] = @ \cup (news \ 1..dropped')]
       /\ missed' = [missed EXCEPT ![r] = @ \cup (news \cap 1..dropped')]
    /\ UNCHANGED <<last, ended>>

Next == Record \/ \E r \in Readers : Serve(r)

Spec == Init /\ [][Next]_log
=============================================================================
