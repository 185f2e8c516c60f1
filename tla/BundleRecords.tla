---------------------------- MODULE BundleRecords ----------------------------
(***************************************************************************)
(* The record builders ctp_sql_records.py and ctp_shell_records.py: what    *)
(* one invocation of CTP left becomes an outcome per declared case, a       *)
(* sealed bundle, and records in the evidence directory - one manifest      *)
(* (attempts of kind original only), one attempt record and one bundle      *)
(* index per executed case, written one after another.                      *)
(*                                                                          *)
(* A builder may be killed at any point, which leaves the file it was       *)
(* writing torn, and may refuse at any point (RecordError); it is then run  *)
(* again, or later once more read-only over the sealed bundle.              *)
(***************************************************************************)
EXTENDS Naturals, Sequences, FiniteSets

CONSTANTS
    N,           \* the number of declared cases; a case is its place in sorted order
    Id,          \* attempt ids
    IdLists,     \* what --attempt-ids can be given: sequences of ids
    Invocation,  \* what an invocation can leave for the builder to read
    Absent,      \* no such file
    Torn,        \* a file cut off while it was written
    MaxBuilds,   \* bound: builder runs
    MaxKills     \* bound: builders killed

Case == 1..N
Runners == {"sql", "shell"}
Kinds == {"original", "checker-validation", "coexistence"}
Outcomes == {"PASS", "FAIL", "SKIP", "UNSUPPORTED", "BLOCKED"}
Statuses == {"proven", "reused", "missing", "not-applicable"}

ASSUME ConstantsAssumption ==
    /\ N \in Nat /\ MaxBuilds \in Nat /\ MaxKills \in Nat
    /\ IdLists \subseteq Seq(Id)
    /\ \A ids \in IdLists : \A j, k \in DOMAIN ids : ids[j] = ids[k] => j = k
    /\ Absent \notin Id /\ Torn \notin Id /\ Absent # Torn

Claims == {"-", "UNSUPPORTED", "BLOCKED"}
Matches == {"MATCH", "MISMATCH", "INCOMPLETE", "NO-ORACLE"}

\* What the SQL and the shell runner, the declaration and the case can say of one case.
SqlInput ==
    [list : {"ok", "nok", "notRun", "absent"}, match : Matches, declares : Claims,
     backed : BOOLEAN, late : BOOLEAN, checker : {"none", "unproven", "own", "other"},
     reusable : BOOLEAN, excused : BOOLEAN]
ShellInput ==
    [found : {"no", "dispatched", "result"}, lines : SUBSET {"OK", "NOK", "SKIP"},
     word : Claims \cup {"PASS", "FAIL", "SKIP", "other"}, skipAsOk : BOOLEAN,
     declares : Claims, backed : BOOLEAN, match : Matches, late : BOOLEAN,
     markers : {"none", "matched", "unmatched"}]

InvocationOK(v) ==
    /\ v.runner \in Runners /\ v.kind \in Kinds /\ v.clean \in BOOLEAN
    /\ v.case \in [Case -> IF v.runner = "sql" THEN SqlInput ELSE ShellInput]

ASSUME InvocationAssumption == \A v \in Invocation : InvocationOK(v)

VARIABLES
    inv,        \* what the invocation left: runner, kind, and per case what CTP and the case say
    compared,   \* compared[c]: the comparison file of case c in the bundle
    sums,       \* SHA256SUMS: the comparison files it lists, or Absent or Torn
    manifest,   \* the manifest in the evidence directory
    attempt,    \* attempt[i]: the attempt record att-i.json
    index,      \* index[i]: the bundle index bundle-i.json
    build,      \* the builder: where it is and what it holds
    builds,     \* builders started so far
    kills       \* builders killed so far

vars == <<inv, compared, sums, manifest, attempt, index, build, builds, kills>>
evidence == <<manifest, attempt, index>>

NoBuild ==
    [phase |-> "idle", last |-> "none", wrote |-> FALSE, readOnly |-> FALSE,
     ids |-> <<>>, next |-> 1, drafts |-> <<>>, digest |-> Absent, queue |-> <<>>]

\* Of a run that ended: how, whether it was read-only, and whether it had written a record.
Ended(last) ==
    [NoBuild EXCEPT !.last = last, !.wrote = build.wrote, !.readOnly = build.readOnly]

-----------------------------------------------------------------------------
(***************************************************************************)
(* The SQL runner.  A case x is listed ok, nok or notRun, or is absent;     *)
(* the retained answer and result match or not; the declaration may claim   *)
(* UNSUPPORTED or BLOCKED, backed by the catalogue or not; the activation   *)
(* checker may have run and proven, in the case's own run mode or another.  *)
(***************************************************************************)
SqlOutcome(x) ==
    IF x.declares # "-" THEN x.declares
    ELSE IF x.list = "ok" /\ x.match # "MISMATCH" /\ ~x.late THEN "PASS" ELSE "FAIL"

\* read_activation: only a literal proof in the case's own run mode is proven.
SqlEvidence(x) ==
    CASE x.checker = "own" -> "proven"
      [] x.checker = "other" /\ x.reusable -> "reused"
      [] x.checker = "none" /\ x.excused -> "not-applicable"
      [] OTHER -> "missing"

(***************************************************************************)
(* The shell runner.  A case wrote OK, NOK and SKIP lines and perhaps a     *)
(* word in its case_outcome file; an oracle may contradict the lines; its   *)
(* activation markers are none, matched or unmatched.                       *)
(***************************************************************************)
\* MUTANT: any line at all, a SKIP too, counts as executed.
BlankIfNoLine(x) == x.lines = {}

\* No assertion was executed, and the case did not skip as a whole with a reason.
Blank(x) ==
    x.lines \cap {"OK", "NOK"} = {} /\ ~(x.word = "SKIP" /\ "SKIP" \in x.lines)

\* What the lines, the case's own word and the declaration make of it, in this order.
Stated(x) ==
    IF "NOK" \in x.lines \/ Blank(x) \/ x.word \in {"FAIL", "other"} THEN "FAIL"
    ELSE IF x.declares # "-" THEN x.declares
    ELSE IF x.word \in {"SKIP", "UNSUPPORTED", "BLOCKED"} THEN x.word ELSE "PASS"

\* A skip recorded as OK and a contradicting oracle take a PASS back.
Compared(x) ==
    IF Stated(x) = "PASS" /\ (x.skipAsOk \/ x.match = "MISMATCH") THEN "FAIL" ELSE Stated(x)

\* The deadline is looked at last, after the evidence has been settled.
ShellOutcome(x) == IF Compared(x) = "PASS" /\ x.late THEN "FAIL" ELSE Compared(x)

ShellEvidence(x, kind) ==
    IF Compared(x) = "PASS" /\ x.markers = "matched" THEN "proven"
    ELSE IF kind # "original" THEN "not-applicable" ELSE "missing"

-----------------------------------------------------------------------------
Sql == inv.runner = "sql"
Input(c) == inv.case[c]
Executed(c) ==
    IF Sql THEN Input(c).list \in {"ok", "nok"} ELSE Input(c).found = "result"
Outcome(c) == IF Sql THEN SqlOutcome(Input(c)) ELSE ShellOutcome(Input(c))
Evidence(c) == IF Sql THEN SqlEvidence(Input(c)) ELSE ShellEvidence(Input(c), inv.kind)

\* The declaration claims a status that no cited requirement has in the catalogue.
Unbacked(c) ==
    /\ Input(c).declares # "-" /\ ~Input(c).backed
    /\ ~Sql => Stated(Input(c)) # "FAIL"

\* MUTANT: a case CTP did not list or run is outstanding, and no mismatch.
MismatchIfRun(c) == Executed(c) /\ ~Sql /\ (Input(c).skipAsOk \/ Blank(Input(c)))

\* What makes proof.verdict a failure-of-proof on account of case c.
Mismatch(c) == ~Executed(c) \/ (~Sql /\ (Input(c).skipAsOk \/ Blank(Input(c))))

Verdict ==
    IF inv.clean /\ \A c \in Case : ~Mismatch(c) THEN "proven" ELSE "failure-of-proof"

\* MUTANT: only a FAIL is held through triage.
RetentionClassOfFail(kind, outcome) ==
    IF (outcome = "FAIL") = (kind # "checker-validation") THEN "failure" ELSE "success-bulky"

\* The retention class of an attempt; a control is expected to FAIL.
RetentionClass(kind, outcome) ==
    IF outcome = (IF kind = "checker-validation" THEN "FAIL" ELSE "PASS")
    THEN "success-bulky" ELSE "failure"

\* MUTANT: each record is sealed as it is built, over the files of the cases so far.
DigestWhenBuilt(c, listing) == [d \in Case |-> IF d <= c THEN listing[d] ELSE Absent]

\* One seal, after the last file: every record carries the finished bundle's digest.
DigestFor(c, listing) == listing

AttemptOf(d) ==
    [case |-> d.case, outcome |-> Outcome(d.case), status |-> Evidence(d.case),
     late |-> Input(d.case).late, digest |-> DigestFor(d.case, build.digest)]

IndexOf(d) ==
    [case |-> d.case, class |-> RetentionClass(inv.kind, Outcome(d.case)),
     total |-> DigestFor(d.case, build.digest)]

ManifestOf(drafts) ==
    [verdict |-> Verdict,
     cases |-> [c \in Case |->
         {drafts[k].id : k \in {j \in DOMAIN drafts : drafts[j].case = c}}]]

\* The schema of attempt records: a reached deadline goes with FAIL or BLOCKED only.
Valid(d) == Input(d.case).late => Outcome(d.case) \in {"FAIL", "BLOCKED"}

File(type, drafts) == [k \in DOMAIN drafts |-> [type |-> type, draft |-> drafts[k]]]
ManifestFile == IF inv.kind = "original" THEN <<[type |-> "manifest"]>> ELSE <<>>

\* MUTANT: the indexes are written before the attempt records.
WriteIndexesFirst(drafts) ==
    ManifestFile \o File("index", drafts) \o File("attempt", drafts)

\* MUTANT: a record that is there already, torn or not, is not written again.
WriteMissingOnly(drafts) ==
    SelectSeq(ManifestFile \o File("attempt", drafts) \o File("index", drafts),
              LAMBDA f : CASE f.type = "manifest" -> manifest = Absent
                           [] f.type = "attempt" -> attempt[f.draft.id] = Absent
                           [] OTHER -> index[f.draft.id] = Absent)

\* The order of the writes: manifest, attempt records, indexes.
WriteQueue(drafts) ==
    ManifestFile \o File("attempt", drafts) \o File("index", drafts)

-----------------------------------------------------------------------------
Init ==
    /\ inv \in Invocation
    /\ compared = [c \in Case |-> Absent]
    /\ sums = Absent
    /\ manifest = Absent
    /\ attempt = [i \in Id |-> Absent]
    /\ index = [i \in Id |-> Absent]
    /\ build = NoBuild
    /\ builds = 0
    /\ kills = 0

\* build: --read-only is the operator's choice; nothing checks the bundle against its seal.
Start(ids, readOnly) ==
    /\ build.phase = "idle" /\ builds < MaxBuilds
    /\ build' = [NoBuild EXCEPT !.phase = "cases", !.readOnly = readOnly,
                                            !.ids = ids]
    /\ builds' = builds + 1
    /\ UNCHANGED <<inv, compared, sums, evidence, kills>>

AtCase(c) == build.phase = "cases" /\ build.next = c

\* A case CTP did not run: outstanding, and no attempt id is used up.
PassOverCase(c) ==
    /\ AtCase(c) /\ ~Executed(c)
    /\ build' = [build EXCEPT !.next = c + 1]
    /\ UNCHANGED <<inv, compared, sums, evidence, builds, kills>>

\* RecordError: no attempt id is left, or the declared status is not the catalogue's.
RefuseCase(c) ==
    /\ AtCase(c) /\ Executed(c)
    /\ build.ids = <<>> \/ Unbacked(c)
    /\ build' = Ended("refused")
    /\ UNCHANGED <<inv, compared, sums, evidence, builds, kills>>

\* The comparison file goes into the bundle; the shell runner's names the attempt.
BuildCase(c) ==
    /\ AtCase(c) /\ Executed(c)
    /\ build.ids # <<>> /\ ~Unbacked(c)
    /\ compared' = IF build.readOnly THEN compared
                   ELSE [compared EXCEPT ![c] = IF Sql THEN "diff" ELSE Head(build.ids)]
    /\ build' = [build EXCEPT !.next = c + 1, !.ids = Tail(@),
                              !.drafts = Append(@, [case |-> c, id |-> Head(build.ids)])]
    /\ UNCHANGED <<inv, sums, evidence, builds, kills>>

\* seal_bundle_records, once, after the last case.
Seal ==
    /\ build.phase = "cases" /\ build.next > N
    /\ sums' = IF build.readOnly THEN sums ELSE compared
    /\ build' = [build EXCEPT !.phase = "write", !.digest = compared,
                              !.queue = WriteQueue(build.drafts)]
    /\ UNCHANGED <<inv, compared, evidence, builds, kills>>

\* write_record: validate, then overwrite.  An invalid record ends the run here.
WriteRecord ==
    /\ build.phase = "write" /\ build.queue # <<>>
    /\ LET f == Head(build.queue)
           next == [build EXCEPT !.queue = Tail(@), !.wrote = TRUE]
       IN \/ /\ f.type = "manifest"
             /\ manifest' = ManifestOf(build.drafts) /\ build' = next
             /\ UNCHANGED <<attempt, index>>
          \/ /\ f.type = "attempt" /\ Valid(f.draft)
             /\ attempt' = [attempt EXCEPT ![f.draft.id] = AttemptOf(f.draft)]
             /\ build' = next
             /\ UNCHANGED <<manifest, index>>
          \/ /\ f.type = "attempt" /\ ~Valid(f.draft)
             /\ build' = Ended("refused")
             /\ UNCHANGED evidence
          \/ /\ f.type = "index"
             /\ index' = [index EXCEPT ![f.draft.id] = IndexOf(f.draft)]
             /\ build' = next
             /\ UNCHANGED <<manifest, attempt>>
    /\ UNCHANGED <<inv, compared, sums, builds, kills>>

Finish ==
    /\ build.phase = "write" /\ build.queue = <<>>
    /\ build' = Ended("done")
    /\ UNCHANGED <<inv, compared, sums, evidence, builds, kills>>

\* Killed between two steps, or in the middle of writing the file that comes next.
Kill ==
    /\ build.phase # "idle" /\ kills < MaxKills
    /\ build' = Ended("killed") /\ kills' = kills + 1
    /\ \/ UNCHANGED <<compared, sums, evidence>>
       \/ /\ build.phase = "cases" /\ build.next \in Case /\ ~build.readOnly
          /\ Executed(build.next) /\ build.ids # <<>> /\ ~Unbacked(build.next)
          /\ compared' = [compared EXCEPT ![build.next] = Torn]
          /\ UNCHANGED <<sums, evidence>>
       \/ /\ build.phase = "cases" /\ build.next > N /\ ~build.readOnly
          /\ sums' = Torn
          /\ UNCHANGED <<compared, evidence>>
       \/ /\ build.phase = "write" /\ build.queue # <<>>
          /\ LET f == Head(build.queue)
             IN \/ f.type = "manifest" /\ manifest' = Torn /\ UNCHANGED <<attempt, index>>
                \/ /\ f.type = "attempt" /\ Valid(f.draft)
                   /\ attempt' = [attempt EXCEPT ![f.draft.id] = Torn]
                   /\ UNCHANGED <<manifest, index>>
                \/ /\ f.type = "index" /\ index' = [index EXCEPT ![f.draft.id] = Torn]
                   /\ UNCHANGED <<manifest, attempt>>
          /\ UNCHANGED <<compared, sums>>
    /\ UNCHANGED <<inv, builds>>

Next ==
    \/ \E ids \in IdLists, readOnly \in BOOLEAN : Start(ids, readOnly)
    \/ \E c \in Case : PassOverCase(c) \/ RefuseCase(c) \/ BuildCase(c)
    \/ Seal \/ WriteRecord \/ Finish \/ Kill

Spec == Init /\ [][Next]_vars

-----------------------------------------------------------------------------
Content == {"diff"} \cup Id \cup {Absent, Torn}
Listing == [Case -> Content]
AttemptRecord == [case : Case, outcome : Outcomes, status : Statuses, late : BOOLEAN,
                  digest : Listing]
IndexRecord == [case : Case, class : {"success-bulky", "failure"}, total : Listing]
ManifestRecord == [verdict : {"proven", "failure-of-proof"}, cases : [Case -> SUBSET Id]]

\* A file that is missing or torn is no record.
ASSUME MarksAssumption ==
    \A m \in {Absent, Torn} :
        m \notin AttemptRecord /\ m \notin IndexRecord /\ m \notin ManifestRecord

Draft == [case : Case, id : Id]
QueuedFile == [type : {"manifest"}] \cup [type : {"attempt", "index"}, draft : Draft]
BuildState ==
    [phase : {"idle", "cases", "write"}, last : {"none", "done", "refused", "killed"},
     wrote : BOOLEAN, readOnly : BOOLEAN, ids : Seq(Id), next : 1..(N + 1),
     drafts : Seq(Draft), digest : Listing \cup {Absent}, queue : Seq(QueuedFile)]

\* Every variable holds a value of its kind.
TypeOK ==
    /\ InvocationOK(inv)
    /\ compared \in Listing
    /\ sums \in Listing \cup {Absent, Torn}
    /\ manifest \in ManifestRecord \cup {Absent, Torn}
    /\ attempt \in [Id -> AttemptRecord \cup {Absent, Torn}]
    /\ index \in [Id -> IndexRecord \cup {Absent, Torn}]
    /\ build \in BuildState
    /\ builds \in 0..MaxBuilds /\ kills \in 0..MaxKills

Whole(f) == f \notin {Absent, Torn}
Done == build.phase = "idle" /\ build.last = "done"

Rules == INSTANCE RecordRules

(***************************************************************************)
(* After a build that ended by itself, validate_records.py accepts every    *)
(* record of the invocation when it compares it with the bundle as it now   *)
(* is; and by SHA256SUMS too, unless the build was not to write that:       *)
(* whatever was killed, refused or rebuilt before.                          *)
(***************************************************************************)
CitesTheSeal ==
    LET attempts == {attempt[i] : i \in {j \in Id : Whole(attempt[j])}}
        indexes == {[state |-> "full", total |-> index[i].total] : i \in {j \in Id : Whole(index[j])}}
    IN Done =>
         /\ Torn \notin {attempt[i] : i \in Id} \cup {index[i] : i \in Id}
         /\ Rules!CrossChecked(attempts, compared, indexes, compared)
         /\ ~build.readOnly =>
              Rules!CrossChecked(attempts, Rules!TrueDigest(sums, compared, Absent), indexes, compared)

(***************************************************************************)
(* The retention tool never meets an index whose attempt record was not     *)
(* there first, nor, for an original attempt, one without a manifest: kills *)
(* and refusals leave a prefix of the writes.                               *)
(***************************************************************************)
IndexComesLast ==
    \A i \in Id : index[i] # Absent =>
        attempt[i] # Absent /\ (inv.kind = "original" => manifest # Absent)

(***************************************************************************)
(* After a build that ended by itself every executed case has an attempt    *)
(* record and an index that parse, the manifest names that attempt and no   *)
(* other, and a case that was not executed has none: running again repairs  *)
(* whatever a kill left torn or missing.                                    *)
(***************************************************************************)
RerunRepairs ==
    Done => \A c \in Case :
        LET own == {i \in Id : Whole(attempt[i]) /\ attempt[i].case = c}
        IN /\ Cardinality(own) = IF Executed(c) THEN 1 ELSE 0
           /\ \A i \in own : Whole(index[i]) /\ index[i].case = c
           /\ inv.kind = "original" => Whole(manifest) /\ manifest.cases[c] = own

(***************************************************************************)
(* A manifest says proven only when every declared case was executed and    *)
(* left an assertion or a reasoned skip, and no skip was recorded as OK.    *)
(***************************************************************************)
ProvenIsComplete ==
    Whole(manifest) /\ manifest.verdict = "proven" =>
        \A c \in Case :
            /\ manifest.cases[c] # {}
            /\ ~Sql => Input(c).lines # {} /\ ~Input(c).skipAsOk

(***************************************************************************)
(* A PASS is on record only for a case that ran in time, with no failed     *)
(* assertion, contradicting comparison or declared obstacle, and at least   *)
(* one success; and OOS evidence is proven only by a check that ran with    *)
(* the case itself.                                                         *)
(***************************************************************************)
PassIsEarned ==
    \A i \in Id : Whole(attempt[i]) =>
        LET x == Input(attempt[i].case)
        IN /\ attempt[i].outcome = "PASS" =>
                /\ ~x.late /\ x.match # "MISMATCH" /\ x.declares = "-"
                /\ IF Sql THEN x.list = "ok"
                   ELSE x.lines \cap {"OK", "NOK"} = {"OK"} /\ x.word \in {"-", "PASS"}
           /\ attempt[i].status = "proven" =>
                IF Sql THEN x.checker = "own" ELSE x.markers = "matched" /\ "OK" \in x.lines

(***************************************************************************)
(* After a build that ended by itself the bundle is held through triage     *)
(* exactly when some attempt did not end as its kind expects: some index    *)
(* then is of class failure, which blocks the whole directory from expire.  *)
(***************************************************************************)
FailureIsHeld ==
    Done => \A i \in Id : Whole(attempt[i]) =>
        (index[i].class = "failure") =
            ~(\/ inv.kind = "checker-validation" /\ attempt[i].outcome = "FAIL"
              \/ inv.kind # "checker-validation" /\ attempt[i].outcome = "PASS")

(***************************************************************************)
(* What campaign_records.py says of RecordError: "A record could not be     *)
(* produced or would be invalid; nothing was written."                      *)
(***************************************************************************)
RefusedWroteNothing == build.last = "refused" => ~build.wrote

-----------------------------------------------------------------------------
(***************************************************************************)
(* Why the properties hold.  The k-th id belongs to the k-th case that was  *)
(* executed, so that the drafts of a build, the files still to be written,  *)
(* and the files any build ever wrote are about one case per id.            *)
(***************************************************************************)
\* The place of case c among the executed ones.
Rank(c) == Cardinality({d \in 1..c : Executed(d)})

\* A list of ids gives executed case c the id i.
Gives(ids, c, i) == Executed(c) /\ Rank(c) \in DOMAIN ids /\ ids[Rank(c)] = i

\* The ids given out, with those left, are the list the builder was started with.
GivenOut(ids) ==
    /\ Len(ids) = Len(build.drafts) + Len(build.ids)
    /\ \A k \in DOMAIN build.drafts : build.drafts[k].id = ids[k]
    /\ \A k \in DOMAIN build.ids : build.ids[k] = ids[Len(build.drafts) + k]

\* A build has drafted the executed cases before the next one, in order.
Drafted ==
    build.phase # "idle" =>
        /\ \E ids \in IdLists : GivenOut(ids)
        /\ Len(build.drafts) = Rank(build.next - 1)
        /\ \A k \in DOMAIN build.drafts :
             LET c == build.drafts[k].case
             IN c < build.next /\ Executed(c) /\ Rank(c) = k
        /\ \A c \in 1..(build.next - 1) : Executed(c) =>
             Rank(c) \in DOMAIN build.drafts /\ build.drafts[Rank(c)].case = c

Queued(file, upto) == \E k \in 1..upto : build.queue[k] = file
ToWrite(type, d) == [type |-> type, draft |-> d]

\* What a build writes is sealed, drafted, in order, and on disk unless it is still queued.
Writing ==
    build.phase = "write" =>
        LET queue == build.queue
            drafts == build.drafts
        IN /\ build.next = N + 1 /\ build.digest = compared
           /\ ~build.readOnly => sums = compared
           /\ \A k \in DOMAIN queue :
                /\ queue[k].type # "manifest" =>
                     \E j \in DOMAIN drafts : queue[k].draft = drafts[j]
                /\ queue[k].type = "index" =>
                     /\ \/ attempt[queue[k].draft.id] # Absent
                        \/ Queued(ToWrite("attempt", queue[k].draft), k - 1)
                     /\ inv.kind = "original" =>
                          manifest # Absent \/ Queued([type |-> "manifest"], k - 1)
           /\ inv.kind = "original" =>
                manifest = ManifestOf(drafts) \/ Queued([type |-> "manifest"], Len(queue))
           /\ \A j \in DOMAIN drafts :
                /\ \/ attempt[drafts[j].id] = AttemptOf(drafts[j])
                   \/ Queued(ToWrite("attempt", drafts[j]), Len(queue))
                /\ \/ index[drafts[j].id] = IndexOf(drafts[j])
                   \/ Queued(ToWrite("index", drafts[j]), Len(queue))

\* Whatever is on disk was written for the case its id belongs to, and says of it what CTP left.
OnDisk ==
    /\ \A i \in Id : attempt[i] # Absent =>
         \E c \in Case :
             /\ \E ids \in IdLists : Gives(ids, c, i)
             /\ Whole(attempt[i]) =>
                  /\ attempt[i].case = c /\ attempt[i].outcome = Outcome(c)
                  /\ attempt[i].status = Evidence(c) /\ attempt[i].late = Input(c).late
    /\ \A i \in Id : index[i] # Absent =>
         \E c \in Case : \E ids \in IdLists : Gives(ids, c, i)
    /\ Whole(manifest) =>
         /\ manifest.verdict = Verdict
         /\ \A c \in Case : Executed(c) => manifest.cases[c] # {}

\* What a build that ended by itself leaves, for the ids it was given.
LeftBy(ids) ==
    \A c \in Case :
        /\ inv.kind = "original" => manifest.cases[c] = {i \in Id : Gives(ids, c, i)}
        /\ Executed(c) =>
             LET i == ids[Rank(c)]
             IN /\ Rank(c) \in DOMAIN ids
                /\ Whole(attempt[i]) /\ attempt[i].case = c /\ attempt[i].digest = compared
                /\ Whole(index[i]) /\ index[i].case = c /\ index[i].total = compared
                /\ index[i].class = RetentionClass(inv.kind, Outcome(c))

Finished ==
    Done =>
        /\ ~build.readOnly => sums = compared
        /\ inv.kind = "original" => Whole(manifest)
        /\ \E ids \in IdLists : LeftBy(ids)

\* The inductive invariant of the builders.
IndInv == TypeOK /\ Drafted /\ Writing /\ OnDisk /\ IndexComesLast /\ Finished

(***************************************************************************)
(* A builder that is run again is given the ids it had before: one list may *)
(* only go on where the other ends.                                         *)
(***************************************************************************)
SameIds == \A s, t \in IdLists : \A k \in DOMAIN s \cap DOMAIN t : s[k] = t[k]
=============================================================================
