---------------------------- MODULE RetentionStore ----------------------------
(***************************************************************************)
(* Retention implements BundleStore: what the expirers, the triage, the     *)
(* builders, the kills and the faults do to the directories and the indexes *)
(* is one step of the policy at a time, or none.                            *)
(***************************************************************************)
EXTENDS Retention

\* An index has let go when a passing bundle's day is past.
Store == INSTANCE BundleStore WITH
    held     <- disk,
    shed     <- removed,
    cited    <- {i \in Index : file[i] # "absent"},
    claim    <- [i \in Index |-> index[i].items],
    released <- {i \in Index : file[i] # "absent" /\ Expired(i)},
    core     <- {i \in Index : CoreOnly(index[i])},
    unseen   <- overlooked,
    Passing  <- {i \in Index : Class[i] = "success-bulky"},
    Kept     <- Protected \cup Outside

(***************************************************************************)
(* Whatever runs, dies or breaks, the bundles change as the policy allows:  *)
(* a file is given up only when every index that could be read had let go   *)
(* of its directory and none names it, and an index says core-only only     *)
(* after that happened (retention.py expire, 'shrink, not delete').         *)
(***************************************************************************)
PolicyKept == Store!StoreSpec
=============================================================================
