------------------------------- MODULE CarveAbs ------------------------------
(***************************************************************************)
(* What carving promises: every $MFT record that the reads deliver is      *)
(* found, each of them once, and only then does carving finish.            *)
(***************************************************************************)
EXTENDS Naturals

VARIABLES targets, found, count, finished

vars == <<targets, found, count, finished>>

Init == found = {} /\ count = 0 /\ finished = FALSE

Find == \E p \in targets \ found :
          found' = found \cup {p} /\ count' = count + 1 /\ UNCHANGED <<targets, finished>>

Finish == found = targets /\ ~finished /\ finished' = TRUE /\ UNCHANGED <<targets, found, count>>

Next == Find \/ Finish

Spec == Init /\ [][Next]_vars
=============================================================================
