---------------------------- MODULE MCMatrixMerge ----------------------------
(***************************************************************************)
(* An instance of MatrixMerge for TLC: the history of two cases that claim  *)
(* two requirements on one configuration.                                   *)
(***************************************************************************)
EXTENDS MatrixMerge, TLC

CONSTANTS r1, r2, c1, c2, x1

MCConfigOf == [m \in Manifest |-> x1]

E(a, c, rs, o, v, t, k) ==
    [attempt |-> a, case |-> c, reqs |-> rs, outcome |-> o, ev |-> v, at |-> t, kind |-> k]

\* Paths do not follow time: manifest 2 ran after 3.  Manifest 3 also carries attempt 1 over
\* again, now declared BLOCKED; manifest 4 carries the attempt that validates a checker.
\* Manifest 5 has no row in common with 1.
MCEntries ==
    1 :> <<E(1, c1, {r1, r2}, "FAIL", "missing", 1, "original"),
           E(2, c2, {r1}, "PASS", "proven", 1, "original")>> @@
    2 :> <<E(3, c1, {r1, r2}, "PASS", "proven", 3, "original"),
           E(4, c2, {r1}, "null", "missing", 3, "original"),
           E(7, c2, {r2}, "PASS", "missing", 3, "original")>> @@
    3 :> <<E(1, c1, {r1, r2}, "BLOCKED", "missing", 1, "original"),
           E(5, c1, {r1}, "SKIP", "missing", 2, "original"),
           E(9, c1, {r2}, "UNSUPPORTED", "missing", 2, "original"),
           E(6, c2, {r1, r2}, "FAIL", "missing", 4, "original")>> @@
    4 :> <<E(8, c1, {r1}, "FAIL", "missing", 4, "checker-validation")>> @@
    5 :> <<E(10, c2, {r2}, "FAIL", "missing", 2, "original")>>
=============================================================================
