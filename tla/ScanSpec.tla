------------------------------ MODULE ScanSpec ------------------------------
(***************************************************************************)
(* What a scan promises to its client: of the rows it could return it      *)
(* delivers longer and longer initial segments, it reports success only    *)
(* with all of them delivered and no defect in the input, and after        *)
(* success or failure it delivers nothing more.                            *)
(***************************************************************************)
EXTENDS Naturals, Sequences

VARIABLES
    goal,     \* the rows before the first defect of the input, in order
    defect,   \* whether there is a defect
    got,      \* the rows delivered
    status    \* "running", "done" or "failed"

vars == <<goal, defect, got, status>>

Init ==
    /\ got = <<>>
    /\ status = "running"
    /\ defect \in BOOLEAN

Prefixes == {SubSeq(goal, 1, n) : n \in Len(got) .. Len(goal)}

Deliver ==
    /\ status = "running"
    /\ got' \in Prefixes
    /\ UNCHANGED <<goal, defect, status>>

Finish ==
    /\ status = "running"
    /\ ~defect
    /\ got' = goal
    /\ status' = "done"
    /\ UNCHANGED <<goal, defect>>

Fail ==
    /\ status = "running"
    /\ got' \in Prefixes
    /\ status' = "failed"
    /\ UNCHANGED <<goal, defect>>

Next == Deliver \/ Finish \/ Fail

Spec == Init /\ [][Next]_vars
=============================================================================
