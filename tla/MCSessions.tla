----------------------------- MODULE MCSessions ------------------------------
(***************************************************************************)
(* Small instances of Sessions for TLC.                                    *)
(***************************************************************************)
EXTENDS SessionsInv, TLC

CONSTANTS p1, p2, d1, d2, e1, e2, w1, w2

\* Which page or device it is makes no difference.
SessionSymmetry == Permutations(Pages) \cup Permutations(Devices) \cup Permutations(Emails)
=============================================================================
