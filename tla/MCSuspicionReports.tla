-------------------------- MODULE MCSuspicionReports --------------------------
(* SuspicionHistory for TLC: two approvers and an analyst; the requests    *)
(* are interchangeable, and so are the approvers and the texts.            *)
EXTENDS SuspicionHistory, TLC

CONSTANTS r1, r2, mlro, admin, analyst, t1, t2

MCRequest  == {r1, r2}
MCUser     == {mlro, admin, analyst}
MCApprover == {mlro, admin}
MCText     == {t1, t2}

MCSymmetry == Permutations(MCRequest) \cup Permutations(MCApprover) \cup Permutations(MCText)
=============================================================================
