---------------------------- MODULE MatrixScoping ----------------------------
(***************************************************************************)
(* The scripts that changed coverage matrices between the merges: they put  *)
(* into code what no merge can decide.  seed_matrix.py starts a matrix from *)
(* two recorded ones; ticket 19's apply_matrix_scoping.py scopes the rows   *)
(* of its cases and adds caseless ones; apply_ticket44_findings.py names    *)
(* the cause of one failure and writes the exclusions the user accepted;    *)
(* ticket 17's scope_matrix.py adopts the gap kinds of other matrices.      *)
(***************************************************************************)
EXTENDS MatrixMerge

CONSTANTS
    ScopedCase,     \* the cases ticket 19 delivered
    ScopedReq,      \* requirements with a clause those cases do not execute
    Authority,      \* Authority[k]: gap kind and attribution of k in other matrices, or NoRow
    FailedKey,      \* the row of the failure that was explained
    FailedAttempt   \* and its attempt

ASSUME ScopingAssumption ==
    /\ ScopedCase \subseteq Case /\ ScopedReq \subseteq Req
    /\ Authority \in [Key -> [gap : Gaps, target : {"unknown", "engine", "harness"}] \cup {NoRow}]
    /\ FailedKey \in Key

VARIABLES
    companions,   \* the caseless rows of ticket 19 are there
    excluded      \* accepted_exclusions: "none", the "script"'s or the "user"'s own

scopingVars == <<vars, companions, excluded>>

ScopingInit == Init /\ companions = FALSE /\ excluded = "none"

\* What every script leaves alone.
Untouched == UNCHANGED <<withdrawn, claimRows, merged, edits, slow, reported>>

NoRows == [k \in Key |-> NoRow]

\* The union of the matrices two sets of manifests were merged into, refused over a common row.
Seed(left, right) ==
    LET a == MergeAll(NoRows, {}, left)  b == MergeAll(NoRows, {}, right) IN
    /\ rows = NoRows /\ merged = {} /\ withdrawn = {} /\ claimRows = {}
    /\ left # {} /\ right # {} /\ left \cap right = {} /\ ~Refused(left \cup right)
    /\ \A k \in Key : a[k] = NoRow \/ b[k] = NoRow
    /\ rows' = [k \in Key |-> IF a[k] = NoRow THEN b[k] ELSE a[k]]
    /\ merged' = left \cup right /\ reported' = reported \cup left \cup right
    /\ UNCHANGED <<withdrawn, claimRows, edits, slow, gapHistory, companions, excluded>>

\* No flag that a human maintains the row: it would keep every later run of the case out.
ScopeRow(row) == [row EXCEPT !.gap = "Delivery gap"]

Scoped(k) == rows[k] # NoRow /\ k.case \in ScopedCase /\ k.req \in ScopedReq

\* Every clause no case reaches has its caseless row, added or written over.
AddCompanions == companions' = TRUE

ScopeCaseRows ==
    /\ rows' = [k \in Key |-> IF Scoped(k) THEN ScopeRow(rows[k]) ELSE rows[k]]
    /\ handGap' = [k \in Key |-> IF Scoped(k) THEN "Delivery gap" ELSE handGap[k]]
    /\ AddCompanions
    /\ Untouched /\ UNCHANGED <<adopted, excluded>>

\* The attempts of the three bootstrap invocations, by requirement, as the user accepted it.
AddExclusions == excluded # "user" /\ excluded' = "script"

\* Refused before the merge that brings the attempt in, and over exclusions of the user's own.
ApplyFindings ==
    /\ rows[FailedKey] # NoRow /\ FailedAttempt \in Attempts(rows[FailedKey].hist)
    /\ AddExclusions
    /\ rows' = [rows EXCEPT ![FailedKey].target = "harness"]
    /\ Untouched /\ UNCHANGED <<gapHistory, companions>>

UserExcludes ==
    /\ excluded = "none" /\ excluded' = "user"
    /\ Untouched /\ UNCHANGED <<rows, gapHistory, companions>>

Adopted(k) == rows[k] # NoRow /\ Authority[k] # NoRow /\ Authority[k].gap # rows[k].gap

AdoptRow(row, auth) ==
    [row EXCEPT !.gap = auth.gap,
                !.target = IF auth.target = "unknown" THEN @ ELSE auth.target]

\* Rows no authoritative matrix has are left alone, and reported.
AdoptScope ==
    /\ \E k \in Key : Adopted(k)
    /\ rows' = [k \in Key |-> IF Adopted(k) THEN AdoptRow(rows[k], Authority[k]) ELSE rows[k]]
    /\ handGap' = [k \in Key |-> IF Adopted(k) THEN Authority[k].gap ELSE handGap[k]]
    /\ adopted' = adopted \cup {k \in Key : Adopted(k) /\ Authority[k].gap = "none"}
    /\ Untouched /\ UNCHANGED <<companions, excluded>>

ScopingNext ==
    \/ \E left, right \in SUBSET Manifest : Seed(left, right)
    \/ ScopeCaseRows \/ ApplyFindings \/ UserExcludes \/ AdoptScope
    \/ (\E m \in Manifest : Merge({m})) /\ UNCHANGED <<companions, excluded>>

ScopingSpec == ScopingInit /\ [][ScopingNext]_scopingVars

=============================================================================
