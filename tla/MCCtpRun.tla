------------------------------ MODULE MCCtpRun ------------------------------
(***************************************************************************)
(* Instances of CtpRun for TLC: invocations that share cases, attempt ids,  *)
(* a manifest id and the storage.                                           *)
(***************************************************************************)
EXTENDS CtpRun, TLC

CONSTANTS v1, v2, v3, c1, c2

\* v1 runs the SQL case with its activation checker, v2 and v3 one shell case.
MCCaseOf == v1 :> c1 @@ v2 :> c2 @@ v3 :> c2
MCManifestOf == v1 :> "inv-1" @@ v2 :> "inv-2" @@ v3 :> "inv-3"
\* The two shell invocations are given one attempt id.
MCAttemptOf == v1 :> "att-1" @@ v2 :> "att-2" @@ v3 :> "att-2"
MCTakes == v1 :> 1 @@ v2 :> 2 @@ v3 :> 1

\* Two SQL invocations of one case, under manifest ids of their own and one attempt id.
PairCaseOf == v1 :> c1 @@ v2 :> c1
PairManifestOf == v1 :> "inv-1" @@ v2 :> "inv-2"
PairAttemptOf == v1 :> "att-1" @@ v2 :> "att-1"
PairTakes == v1 :> 2 @@ v2 :> 2
=============================================================================
