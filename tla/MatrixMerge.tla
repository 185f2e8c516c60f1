----------------------------- MODULE MatrixMerge -----------------------------
(***************************************************************************)
(* The coverage matrix: matrix_merge.py merges the manifests of campaign    *)
(* invocations, in any number of runs and in any order, into rows keyed by  *)
(* requirement, case and configuration, between edits its human owners make.*)
(*                                                                          *)
(* A merge loads the matrix, applies every attempt of its manifests to the  *)
(* rows, and writes the whole matrix once, or refuses and writes nothing.   *)
(* Nothing locks the file: a merge may be overtaken between its load and    *)
(* its write by other merges and by the owners, whose work it overwrites.   *)
(***************************************************************************)
EXTENDS Naturals, Sequences, FiniteSets, SequencesExt

CONSTANTS
    Manifest,   \* manifests, numbered from 1 in the order of their paths
    Req,        \* requirements of the catalogue
    Case,       \* test cases
    Config,     \* (page size, build mode, run mode, instrumentation)
    ConfigOf,   \* ConfigOf[m]: the configuration manifest m ran
    Entries,    \* Entries[m]: the attempts of manifest m, in the order of the file
    BlockedReq, \* requirements whose catalogue status is BLOCKED
    NoRow,      \* no row for this key yet
    MaxEdits    \* bound: edits by hand

Outcomes == {"PASS", "FAIL", "SKIP", "UNSUPPORTED", "BLOCKED"}
Evidence == {"proven", "reused", "missing"}
Gaps == {"none", "Delivery gap", "Capability gap", "Specification gap", "Engine defect",
         "Under triage"}
Kinds == {"original", "checker-validation", "coexistence"}

\* "null" is the outcome of a case that was not executed.
Entry == [attempt : Nat, case : Case, reqs : SUBSET Req, outcome : Outcomes \cup {"null"},
          ev : Evidence, at : Nat, kind : Kinds]

ASSUME MatrixAssumption ==
    /\ IsFiniteSet(Manifest) /\ Manifest = 1 .. Cardinality(Manifest)
    /\ ConfigOf \in [Manifest -> Config]
    /\ \A m \in Manifest : Entries[m] \in Seq(Entry)
    /\ BlockedReq \subseteq Req
    /\ MaxEdits \in Nat

VARIABLES
    rows,        \* rows[k]: the row of key k, or NoRow
    withdrawn,   \* withdrawn_claims: the (requirement, case) pairs a human withdrew
    claimRows,   \* requirements with a caseless row whose id ends /claim-withdrawn
    edits,       \* edits made by hand so far
    slow,        \* a merge between its load and its write, and the matrix as it loaded it
    merged,      \* history: the manifests behind the matrix as it is in the file
    handGap,     \* history: handGap[k], the gap kind last set in row k by no merge, or "unset"
    adopted,     \* history: keys of which another matrix's scope was adopted as "none"
    reported     \* history: the manifests of every merge that reported success

file == <<rows, withdrawn, claimRows, merged>>
gapHistory == <<handGap, adopted>>
vars == <<file, gapHistory, edits, slow, reported>>

Key == [req : Req, case : Case, cfg : Config]

Attempt == [attempt : Nat, manifest : Manifest, outcome : Outcomes, at : Nat]
Row == [hist : Seq(Attempt), run : Manifest, ev : Evidence, latest : Outcomes, ever : BOOLEAN,
        failures : Nat, intermittent : BOOLEAN, gap : Gaps,
        target : {"unknown", "engine", "harness"}, hand : BOOLEAN]

ASSUME NoRowAssumption == NoRow \notin Row

-----------------------------------------------------------------------------
ProvisionalGapKind(outcome, ev, req, target) ==
    CASE outcome = "PASS" -> IF ev \in {"proven", "reused"} THEN "none" ELSE "Delivery gap"
      [] outcome = "SKIP" -> "Delivery gap"
      [] outcome = "UNSUPPORTED" -> "Capability gap"
      [] outcome = "BLOCKED" -> IF req \in BlockedReq THEN "Specification gap" ELSE "Capability gap"
      [] outcome = "FAIL" -> IF target = "engine" THEN "Engine defect" ELSE "Under triage"

\* What apply_attempt fills in at once: a new row is never seen without its first attempt.
NewRow(m, e, req) ==
    [hist |-> <<>>, run |-> m, ev |-> e.ev, latest |-> e.outcome, ever |-> FALSE,
     failures |-> 0, intermittent |-> FALSE,
     gap |-> ProvisionalGapKind(e.outcome, e.ev, req, "unknown"),
     target |-> "unknown", hand |-> FALSE]

\* MUTANT: append without sorting.
InsertLast(hist, x) == Append(hist, x)

\* MUTANT: the history is begun again with each attempt.
InsertAlone(hist, x) == <<x>>

\* Append and sort by time: into a sorted history, before the first entry that is later.  The
\* sort is stable, so a tie goes after what was there.
InsertByTime(hist, x) ==
    InsertAt(hist, Min({i \in DOMAIN hist : hist[i].at > x.at} \cup {Len(hist) + 1}), x)

Failures(hist) == Cardinality({i \in DOMAIN hist : hist[i].outcome = "FAIL"})
HasPass(hist) == \E i \in DOMAIN hist : hist[i].outcome = "PASS"
\* MUTANT: only the last attempt is recognised as already merged.
LastAttempt(hist) == IF hist = <<>> THEN {} ELSE {Last(hist).attempt}

Attempts(hist) == {hist[i].attempt : i \in DOMAIN hist}

\* MUTANT: "none" once earned is kept.
GapNeverLeaves(gap, computed) == gap

\* MUTANT: the gap kind is computed afresh at every merge.
GapRecomputed(gap, computed) == computed

\* The gap kind leaves "none" when the latest outcome no longer earns it; it is never set otherwise.
MergedGap(gap, computed) == IF gap = "none" THEN computed ELSE gap

ApplyAttempt(row, m, e, req) ==
    LET hist == InsertByTime(row.hist, [attempt |-> e.attempt, manifest |-> m,
                                        outcome |-> e.outcome, at |-> e.at])
        isLatest == Last(hist).attempt = e.attempt
        latest == IF isLatest THEN e.outcome ELSE row.latest
        ev == IF isLatest THEN e.ev ELSE row.ev
    IN  IF e.attempt \in Attempts(row.hist)
        THEN row
        ELSE [row EXCEPT
                !.hist = hist,
                !.run = IF isLatest THEN m ELSE @,
                !.ev = ev,
                !.latest = latest,
                !.ever = @ \/ e.outcome = "FAIL",
                !.failures = Failures(hist),
                !.intermittent = Failures(hist) > 0 /\ HasPass(hist),
                !.gap = MergedGap(@, ProvisionalGapKind(latest, ev, req, row.target))]

\* The rows an attempt belongs to.
KeysOf(m, e) == {k \in Key : k.req \in e.reqs /\ k.case = e.case /\ k.cfg = ConfigOf[m]}

HandOwned(k, rs) == rs[k] # NoRow /\ rs[k].hand

\* MUTANT: a withdrawal suppresses the requirement for every case.
SuppressedByRequirement(k, rs, taken) ==
    (\E c \in Case : <<k.req, c>> \in taken) \/ HandOwned(k, rs)

\* No row for a withdrawn (requirement, case) pair, no attempt into a hand-maintained row.
Suppressed(k, rs, taken) == <<k.req, k.case>> \in taken \/ HandOwned(k, rs)

MergeEntry(rs, taken, m, e) ==
    [k \in Key |->
        IF e.outcome = "null" \/ k \notin KeysOf(m, e) \/ Suppressed(k, rs, taken)
        THEN rs[k]
        ELSE ApplyAttempt(IF rs[k] = NoRow THEN NewRow(m, e, k.req) ELSE rs[k], m, e, k.req)]

\* The rows after the first n attempts of manifest m.
AfterEntries(rs, taken, m) ==
    LET after[n \in 0 .. Len(Entries[m])] ==
            IF n = 0 THEN rs ELSE MergeEntry(after[n - 1], taken, m, Entries[m][n])
    IN  after
MergeManifest(rs, taken, m) == AfterEntries(rs, taken, m)[Len(Entries[m])]

\* The rows after those of the manifests ms whose path is among the first n.
AfterManifests(rs, taken, ms) ==
    LET after[n \in 0 .. Cardinality(Manifest)] ==
            IF n = 0 THEN rs
            ELSE IF n \in ms THEN MergeManifest(after[n - 1], taken, n) ELSE after[n - 1]
    IN  after

\* The manifests of one invocation, in the order of their paths; taken are the withdrawn pairs.
MergeAll(rs, taken, ms) == AfterManifests(rs, taken, ms)[Cardinality(Manifest)]

NoMerge == [ms |-> {}]

\* A claim-withdrawn row with no entry behind it, or an attempt that may not reach the matrix.
Refused(ms) ==
    \/ \E r \in claimRows : \A c \in Case : <<r, c>> \notin withdrawn
    \/ \E m \in ms : \E i \in DOMAIN Entries[m] :
         Entries[m][i].outcome # "null" /\ Entries[m][i].kind # "original"

-----------------------------------------------------------------------------
Init ==
    /\ rows = [k \in Key |-> NoRow]
    /\ withdrawn = {}
    /\ claimRows = {}
    /\ edits = 0
    /\ slow = NoMerge
    /\ merged = {}
    /\ handGap = [k \in Key |-> "unset"]
    /\ adopted = {}
    /\ reported = {}

\* A merge that nothing comes between.
Merge(ms) ==
    /\ ms # {} /\ ~Refused(ms)
    /\ rows' = MergeAll(rows, withdrawn, ms)
    /\ merged' = merged \cup ms /\ reported' = reported \cup ms
    /\ UNCHANGED <<withdrawn, claimRows, edits, gapHistory, slow>>

\* Another one, up to where it has the matrix in memory and every check behind it ...
LoadMatrix(ms) ==
    /\ slow = NoMerge /\ ms # {} /\ ~Refused(ms)
    /\ slow' = [ms |-> ms, rows |-> rows, withdrawn |-> withdrawn, claimRows |-> claimRows,
                merged |-> merged]
    /\ UNCHANGED <<file, gapHistory, edits, reported>>

\* ... and its write of all of it, whatever the file holds by then.
WriteMatrix ==
    /\ slow # NoMerge /\ slow' = NoMerge
    /\ rows' = MergeAll(slow.rows, slow.withdrawn, slow.ms)
    /\ withdrawn' = slow.withdrawn /\ claimRows' = slow.claimRows
    /\ merged' = slow.merged \cup slow.ms /\ reported' = reported \cup slow.ms
    /\ UNCHANGED <<edits, gapHistory>>

-----------------------------------------------------------------------------
\* What the human owners of the matrix write, between merges.
HandSetGap(k, gap) ==
    /\ rows[k] # NoRow /\ gap # "none"
    /\ rows' = [rows EXCEPT ![k].gap = gap]
    /\ handGap' = [handGap EXCEPT ![k] = gap]
    /\ UNCHANGED <<withdrawn, claimRows, merged>>

\* Triage establishes that the engine is at fault.
Attribute(k) ==
    /\ rows[k] # NoRow
    /\ rows' = [rows EXCEPT ![k].target = "engine"]
    /\ UNCHANGED <<withdrawn, claimRows, merged, handGap>>

TakeOver(k) ==
    /\ rows[k] # NoRow
    /\ rows' = [rows EXCEPT ![k].hand = TRUE]
    /\ UNCHANGED <<withdrawn, claimRows, merged, handGap>>

Withdraw(r, c) ==
    /\ withdrawn' = withdrawn \cup {<<r, c>>}
    /\ UNCHANGED <<rows, claimRows, merged, handGap>>

AddClaimRow(r) ==
    /\ claimRows' = claimRows \cup {r}
    /\ UNCHANGED <<rows, withdrawn, merged, handGap>>

HandEdit ==
    /\ edits < MaxEdits /\ edits' = edits + 1
    /\ UNCHANGED <<slow, reported, adopted>>
    /\ \/ \E k \in Key : Attribute(k) \/ TakeOver(k)
       \/ \E k \in Key, gap \in {"Delivery gap", "Capability gap"} : HandSetGap(k, gap)
       \/ \E r \in Req, c \in Case : Withdraw(r, c)
       \/ \E r \in Req : AddClaimRow(r)

Next ==
    \/ HandEdit \/ WriteMatrix
    \/ \E ms \in SUBSET Manifest : Merge(ms) \/ LoadMatrix(ms)

Spec == Init /\ [][Next]_vars

-----------------------------------------------------------------------------
\* The matrix in the file, and what is there to be loaded of it.
InFile == [rows |-> rows, withdrawn |-> withdrawn, claimRows |-> claimRows, merged |-> merged]

FileType(f) ==
    /\ f.rows \in [Key -> Row \cup {NoRow}]
    /\ f.withdrawn \subseteq Req \X Case
    /\ f.claimRows \subseteq Req
    /\ f.merged \subseteq reported

\* Every variable holds a value of its kind.
TypeOK ==
    /\ FileType(InFile)
    /\ slow # NoMerge => FileType(slow)
    /\ slow.ms \subseteq Manifest
    /\ edits \in 0..MaxEdits
    /\ reported \subseteq Manifest
    /\ handGap \in [Key -> Gaps \cup {"unset"}]
    /\ adopted \subseteq Key

HasRow(k) == rows[k] # NoRow

\* What a row says is what its history says.
FollowsHistory(row) ==
    LET hist == row.hist IN
    /\ \A i, j \in DOMAIN hist : i < j =>
         hist[i].at <= hist[j].at /\ hist[i].attempt # hist[j].attempt
    /\ hist # <<>>
    /\ row.latest = Last(hist).outcome /\ row.run = Last(hist).manifest
    /\ \E i \in DOMAIN Entries[row.run] :
         /\ Entries[row.run][i].attempt = Last(hist).attempt
         /\ Entries[row.run][i].ev = row.ev
    /\ row.ever <=> \E i \in DOMAIN hist : hist[i].outcome = "FAIL"
    /\ row.failures = Failures(hist)
    /\ row.intermittent <=> row.failures > 0 /\ HasPass(hist)

(***************************************************************************)
(* Whatever the order of merging, a row says of its attempts what their     *)
(* order in time says: the history is sorted, latest_outcome, run and       *)
(* evidence are those of the last attempt in time, and ever_failed and the  *)
(* flakiness counts are those of the whole history.                         *)
(***************************************************************************)
RowFollowsHistory == \A k \in Key : HasRow(k) => FollowsHistory(rows[k])

\* Of a write: the merge that writes had loaded row k with the gap kind it was given by hand.
LoadedAsGiven(k) == slow.rows[k] # NoRow /\ slow.rows[k].gap = handGap[k]

(***************************************************************************)
(* A gap kind that a human or a scoping script set stands, whatever         *)
(* attempts are merged and however merges overlap; only "none" has to be    *)
(* earned again.  It is taken back by one thing alone: the write of a merge *)
(* that had loaded the matrix before it was set, which puts back what it    *)
(* had loaded.                                                              *)
(***************************************************************************)
HandGapStands ==
    [][\A k \in Key :
         /\ handGap[k] \notin {"unset", "none"} /\ HasRow(k) /\ rows[k].gap = handGap[k]
         /\ WriteMatrix => LoadedAsGiven(k)
         => rows'[k] # NoRow /\ rows'[k].gap = handGap'[k]]_vars

\* Attempt e of manifest m is in the history of each row it belongs to, or has a human's word.
EntryIn(rs, taken, m, e) ==
    e.outcome # "null" =>
        \A k \in KeysOf(m, e) :
            \/ <<k.req, k.case>> \in taken
            \/ rs[k] # NoRow /\ e.attempt \in Attempts(rs[k].hist)
            \/ HandOwned(k, rs) /\ edits > 0

\* Of the rows rs: no attempt of the manifests ms is missing.
AccountedIn(rs, taken, ms) ==
    \A m \in ms : \A i \in DOMAIN Entries[m] : EntryIn(rs, taken, m, Entries[m][i])

(***************************************************************************)
(* Every attempt of a merged manifest is in the history of each row it      *)
(* belongs to, unless a human took the row over or withdrew that            *)
(* requirement from that very case; no scoping script freezes a history.    *)
(***************************************************************************)
Accounted == AccountedIn(rows, withdrawn, merged)

(***************************************************************************)
(* What two merges at once lose, merging again brings back: whichever write *)
(* came last, and whatever the owners did in between, one merge of all the  *)
(* manifests that any merge ever reported accounts for every attempt again. *)
(***************************************************************************)
LostIsMended ==
    merged # reported => AccountedIn(MergeAll(rows, withdrawn, reported), withdrawn, reported)

\* The file is no longer what the merge in hand loaded.
Overtaken == slow # NoMerge /\ <<slow.rows, slow.withdrawn>> # <<rows, withdrawn>>

(***************************************************************************)
(* A later pass erases nothing: no row is dropped, no attempt leaves a      *)
(* history, an outcome once recorded stays, ever_failed never turns back,   *)
(* and a hand-maintained row is not touched by a merge.  Only the write of  *)
(* a merge that was overtaken is no such step.                              *)
(***************************************************************************)
NothingErased ==
    [][\A k \in Key : HasRow(k) /\ ~(WriteMatrix /\ Overtaken) =>
        /\ rows'[k] # NoRow
        /\ \A i \in DOMAIN rows[k].hist : \E j \in DOMAIN rows'[k].hist :
             rows'[k].hist[j] = rows[k].hist[i]
        /\ rows[k].ever => rows'[k].ever
        /\ rows[k].hand /\ merged' # merged => rows'[k] = rows[k]]_vars

(***************************************************************************)
(* Merging again a manifest that was merged before changes nothing, however *)
(* much was merged, edited, taken over or withdrawn since.  It speaks of    *)
(* the manifests still behind the file: what the write of an overtaken      *)
(* merge drops from it has to be merged again (LostIsMended).               *)
(***************************************************************************)
Idempotent ==
    \A m \in merged : MergeManifest(rows, withdrawn, m) = rows

Rules == INSTANCE RecordRules

(***************************************************************************)
(* validate_records.py accepts every row the merge writes, in whatever      *)
(* order the attempts came and whatever was edited: the tool that writes    *)
(* the matrix and the tool that judges it agree on what the latest attempt  *)
(* is and on what its history implies.  It would refuse a "none" that the   *)
(* adoption of another matrix's scope put on a row without asking for it.   *)
(***************************************************************************)
ValidatorAccepts ==
    \A k \in Key : HasRow(k) /\ ~(rows[k].gap = "none" /\ k \in adopted) =>
        Rules!RowSound([hist |-> rows[k].hist, gap |-> rows[k].gap, latest |-> rows[k].latest,
                        ev |-> rows[k].ev, ever |-> rows[k].ever, failures |-> rows[k].failures,
                        caseless |-> FALSE, req |-> k.req], Req)

(***************************************************************************)
(* The self-test of the merge: "the tool never writes none over a FAIL      *)
(* history without a hand-set classification".                              *)
(***************************************************************************)
NoneNotOverFailure ==
    \A k \in Key : HasRow(k) /\ rows[k].gap = "none" => ~rows[k].ever

-----------------------------------------------------------------------------
(***************************************************************************)
(* Why the properties hold: they are true of the matrix in the file and of  *)
(* the one that a merge in hand loaded, which becomes that of the file when *)
(* the merge writes, whatever came in between.                              *)
(***************************************************************************)
Earned(row) == row.latest = "PASS" /\ row.ev \in {"proven", "reused"}

\* What is kept of the row of key k.
RowKept(f, k) ==
    f.rows[k] # NoRow =>
        /\ FollowsHistory(f.rows[k])
        /\ f.rows[k].gap = "none" => Earned(f.rows[k]) \/ k \in adopted
        /\ f.rows[k].hand => edits > 0

Kept(f) == AccountedIn(f.rows, f.withdrawn, f.merged) /\ \A k \in Key : RowKept(f, k)

\* The inductive invariant of the merge.
IndInv == TypeOK /\ Kept(InFile) /\ (slow # NoMerge => Kept(slow))
=============================================================================
