---------------------------- MODULE TradingGate -----------------------------
(***************************************************************************)
(* What an unattended desk promises of its exposure and its lockouts, and  *)
(* nothing of how: it takes on a position only while no lockout is up and  *)
(* there is room, a lockout that is up stays up for as long as the process *)
(* runs, and a process starts with every lockout that was stored and never *)
(* with more positions than were stored; with fewer it starts locked.      *)
(* Module Supervisor shows that the runtime implements this.               *)
(***************************************************************************)
EXTENDS Naturals

CONSTANTS
    Reason,     \* what a lockout may be for
    Capacity    \* positions that may be open at once

VARIABLES
    running,    \* whether there is a process
    active,     \* the lockouts that are up in it
    exposure,   \* the positions it holds
    saved       \* what it has stored of the two

gateVars == <<running, active, exposure, saved>>

Init ==
    /\ running = FALSE
    /\ active = {} /\ exposure = 0
    /\ saved = [active |-> {}, exposure |-> 0]

Start ==
    /\ ~running /\ running' = TRUE
    /\ saved.active \subseteq active' /\ active' \subseteq Reason
    /\ exposure' \in 0..saved.exposure
    /\ exposure' < saved.exposure => active' # {}
    /\ UNCHANGED saved

(* Storing is one step, and always of what is true after it.               *)
Store == saved' = [active |-> active', exposure |-> exposure']

Trip ==
    /\ running
    /\ active \subseteq active' /\ active' \subseteq Reason
    /\ UNCHANGED <<running, exposure>>
    /\ Store \/ UNCHANGED saved

Enter ==
    /\ running /\ active = {} /\ exposure < Capacity
    /\ exposure' = exposure + 1
    /\ UNCHANGED <<running, active, saved>>

Leave ==
    /\ running /\ exposure > 0
    /\ exposure' = exposure - 1
    /\ UNCHANGED <<running, active, saved>>

(* The process ends; on the way out it may store what it had.              *)
Stop ==
    /\ running /\ running' = FALSE
    /\ active' = {} /\ exposure' = 0
    /\ saved' \in {saved, [active |-> active, exposure |-> exposure]}

Next == Start \/ Trip \/ Enter \/ Leave \/ Stop

Spec == Init /\ [][Next]_gateVars

=============================================================================
