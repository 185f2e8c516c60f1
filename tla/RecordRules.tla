----------------------------- MODULE RecordRules -----------------------------
(***************************************************************************)
(* validate_records.py: two of the rules beyond the schemas that a          *)
(* ticket's records are judged by, that for a row of the matrix and the     *)
(* cross-check of the records against the bundles they cite.  A record      *)
(* passes when its operator is true; the printed messages are left out.     *)
(* The modules of the tools that write these records say what they wrote    *)
(* in these terms and have it judged.                                       *)
(***************************************************************************)
EXTENDS Naturals, Sequences, FiniteSets

\* The place of the last attempt in time: the sort is stable, a tie goes to the later entry.
LatestAt(hist) ==
    CHOOSE i \in DOMAIN hist : \A j \in DOMAIN hist :
        hist[j].at < hist[i].at \/ (hist[j].at = hist[i].at /\ j <= i)

(***************************************************************************)
(* A row of the matrix: gap kind none only for a latest PASS with proven or *)
(* reused evidence; ever_failed and the failure count are the history's;    *)
(* latest_outcome is that of the history's latest entry; a row without a    *)
(* case has neither.                                                        *)
(***************************************************************************)
RowSound(row, known) ==
    LET fails == {i \in DOMAIN row.hist : row.hist[i].outcome = "FAIL"} IN
    /\ row.gap = "none" => row.latest = "PASS" /\ row.ev \in {"proven", "reused"}
    /\ row.ever <=> fails # {}
    /\ row.failures = Cardinality(fails)
    /\ row.caseless => row.hist = <<>> /\ row.latest = "null"
    /\ row.hist # <<>> => row.latest = row.hist[LatestAt(row.hist)].outcome
    /\ row.req \in known

\* The digest of a bundle root: its SHA256SUMS, or what the convention would write there.
TrueDigest(sums, computed, absent) == IF sums = absent THEN computed ELSE sums

\* Every record that cites the root carries that digest; every full index has the bundle's size.
CrossChecked(attempts, digest, indexes, size) ==
    /\ \A a \in attempts : a.digest = digest
    /\ \A b \in indexes : b.state = "core-only" \/ b.total = size
=============================================================================
