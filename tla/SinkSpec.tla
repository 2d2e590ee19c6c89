------------------------------ MODULE SinkSpec ------------------------------
(***************************************************************************)
(* What writing a relation promises of a destination that is replaced as a *)
(* whole: batches are accepted, then the body they make replaces what was  *)
(* there, and only then can the statement end well.  If it fails, the      *)
(* destination holds what it held or that body, never anything else.       *)
(***************************************************************************)
CONSTANT Old   \* what the destination holds before

VARIABLES
    body,      \* what the batches accepted so far make
    file,      \* what the destination holds
    outcome    \* "open", "stored", "done" or "failed"

vars == <<body, file, outcome>>

Init ==
    /\ file = Old
    /\ outcome = "open"

Accept ==
    /\ outcome = "open"
    /\ UNCHANGED <<file, outcome>>

Store ==
    /\ outcome = "open"
    /\ file' = body
    /\ outcome' = "stored"
    /\ UNCHANGED body

Succeed ==
    /\ outcome = "stored"
    /\ outcome' = "done"
    /\ UNCHANGED <<body, file>>

Fail ==
    /\ outcome \in {"open", "stored"}
    /\ file' \in {file, body}
    /\ outcome' = "failed"
    /\ UNCHANGED body

Next == Accept \/ Store \/ Succeed \/ Fail

Spec == Init /\ [][Next]_vars
=============================================================================
