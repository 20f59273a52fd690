------------------------------ MODULE MCVpsDesk ------------------------------
(***************************************************************************)
(* The two views of the desk, the status and the journal.  They share no   *)
(* file, so a behaviour moves one of them and the other rests.             *)
(***************************************************************************)
EXTENDS VpsDesk, Journal, TLC

ASSUME TimelyAssumption == Timely(MaxBackoff)

\* The trades are interchangeable.
Trades == Permutations(Trade)

VARIABLE view

Init == DeskInit /\ BookInit /\ view \in {"status", "journal"}

Next ==
    \/ view = "status"  /\ DeskNext /\ UNCHANGED <<bookVars, view>>
    \/ view = "journal" /\ BookNext /\ UNCHANGED <<deskVars, view>>

Spec == Init /\ [][Next]_<<deskVars, bookVars, view>>
=============================================================================
