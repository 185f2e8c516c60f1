----------------------------- MODULE MCRetention -----------------------------
(***************************************************************************)
(* Instances of Retention for TLC: three indexes over two directories, the  *)
(* first directory shared.                                                  *)
(***************************************************************************)
EXTENDS RetentionStore, TLC

CONSTANTS i1, i2, i3, d1, d2, a, b, bulk

\* i1 and i2 share d1; i3 has d2 for itself.
MCRoot == i1 :> d1 @@ i2 :> d1 @@ i3 :> d2
\* Every item a file of its own, and one file only the bulk holds.
MCItems == i1 :> {a} @@ i2 :> {b} @@ i3 :> {a}

\* d1 is shared by a passing and a failing attempt, or by two passing ones.
Mixed == i1 :> "success-bulky" @@ i2 :> "failure" @@ i3 :> "success-bulky"
Passing == i1 :> "success-bulky" @@ i2 :> "success-bulky" @@ i3 :> "success-bulky"

\* Two indexes on one directory, for the runs where the second directory adds nothing.
PairRoot == i1 :> d1 @@ i2 :> d1
PairItems == i1 :> {a} @@ i2 :> {b}
PairMixed == i1 :> "success-bulky" @@ i2 :> "failure"
PairPassing == i1 :> "success-bulky" @@ i2 :> "success-bulky"

WholeTree == {Index}
\* --evidence names a part of the tree: the default tree adds i1 and i3, never i2.
Parts == {{i2}, {i1, i3}}
=============================================================================
