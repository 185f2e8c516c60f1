------------------------- MODULE BundleRecordsProofs -------------------------
(***************************************************************************)
(* The safety of BundleRecords for any number of cases, any ids, any        *)
(* invocation, and any number of builds and kills.                          *)
(***************************************************************************)
EXTENDS BundleRecords, FiniteSetTheorems, SequenceTheorems, TLAPS

USE ConstantsAssumption DEF Case, Kinds, Runners

\* What an executed case left the builder, by the runner.
LEMMA InputType ==
    ASSUME InvocationOK(inv), NEW c \in Case
    PROVE  /\ Sql => Input(c) \in SqlInput
           /\ ~Sql => Input(c) \in ShellInput
    BY DEF InvocationOK, Sql, Input

LEMMA SqlSays ==
    ASSUME NEW x \in SqlInput
    PROVE  /\ SqlOutcome(x) \in Outcomes /\ SqlEvidence(x) \in Statuses
           /\ SqlOutcome(x) = "PASS" =>
                /\ ~x.late /\ x.match # "MISMATCH" /\ x.declares = "-" /\ x.list = "ok"
           /\ SqlEvidence(x) = "proven" => x.checker = "own"
<1> USE DEF SqlInput, Claims
<1>1. x.declares \in {"-", "UNSUPPORTED", "BLOCKED"}
    OBVIOUS
<1>2. SqlOutcome(x) \in Outcomes
    BY <1>1 DEF SqlOutcome, Outcomes
<1>3. SqlOutcome(x) = "PASS" =>
        ~x.late /\ x.match # "MISMATCH" /\ x.declares = "-" /\ x.list = "ok"
    BY <1>1 DEF SqlOutcome
<1>4. x.checker \in {"none", "unproven", "own", "other"}
    OBVIOUS
<1>5. SqlEvidence(x) \in Statuses /\ (SqlEvidence(x) = "proven" => x.checker = "own")
    BY <1>4 DEF SqlEvidence, Statuses
<1> QED
    BY <1>2, <1>3, <1>5

LEMMA ShellSays ==
    ASSUME NEW x \in ShellInput, NEW kind \in Kinds
    PROVE  /\ ShellOutcome(x) \in Outcomes /\ ShellEvidence(x, kind) \in Statuses
           /\ Compared(x) = "PASS" =>
                /\ x.match # "MISMATCH" /\ x.declares = "-"
                /\ x.lines \cap {"OK", "NOK"} = {"OK"} /\ x.word \in {"-", "PASS"}
           /\ ShellOutcome(x) = "PASS" => Compared(x) = "PASS" /\ ~x.late
           /\ ShellEvidence(x, kind) = "proven" => Compared(x) = "PASS" /\ x.markers = "matched"
<1>1. /\ x.declares \in {"-", "UNSUPPORTED", "BLOCKED"} /\ x.lines \subseteq {"OK", "NOK", "SKIP"}
      /\ x.word \in {"-", "UNSUPPORTED", "BLOCKED", "PASS", "FAIL", "SKIP", "other"}
    BY DEF ShellInput, Claims
<1>2. Stated(x) \in Outcomes
    BY <1>1 DEF Stated, Outcomes
<1>3. Stated(x) = "PASS" =>
        /\ "NOK" \notin x.lines /\ ~Blank(x) /\ x.declares = "-" /\ x.word \in {"-", "PASS"}
    BY <1>1 DEF Stated
<1>4. Stated(x) = "PASS" => x.lines \cap {"OK", "NOK"} = {"OK"}
    BY <1>1, <1>3 DEF Blank
<1>5. Compared(x) \in Outcomes
    BY <1>2 DEF Compared, Outcomes
<1>6. Compared(x) = "PASS" => Stated(x) = "PASS" /\ x.match # "MISMATCH"
    BY DEF Compared
<1>7. /\ ShellOutcome(x) \in Outcomes
      /\ ShellOutcome(x) = "PASS" => Compared(x) = "PASS" /\ ~x.late
    BY <1>5 DEF ShellOutcome, Outcomes
<1>8. /\ ShellEvidence(x, kind) \in Statuses
      /\ ShellEvidence(x, kind) = "proven" => Compared(x) = "PASS" /\ x.markers = "matched"
    BY DEF ShellEvidence, Statuses
<1> QED
    BY <1>3, <1>4, <1>6, <1>7, <1>8

LEMMA InputLate == ASSUME InvocationOK(inv), NEW c \in Case PROVE Input(c).late \in BOOLEAN
<1>1. CASE Sql
    BY <1>1, InputType DEF SqlInput
<1>2. CASE ~Sql
    BY <1>2, InputType DEF ShellInput
<1> QED
    BY <1>1, <1>2

\* Every case gets an outcome and a status that the schema of attempt records knows.
LEMMA CaseSays ==
    ASSUME InvocationOK(inv), NEW c \in Case
    PROVE  /\ Outcome(c) \in Outcomes /\ Evidence(c) \in Statuses
           /\ RetentionClass(inv.kind, Outcome(c)) \in {"success-bulky", "failure"}
<1>1. CASE Sql
    BY <1>1, InputType, SqlSays DEF Outcome, Evidence, RetentionClass
<1>2. CASE ~Sql
  <2>1. inv.kind \in Kinds
    BY DEF InvocationOK
  <2>2. Input(c) \in ShellInput
    BY <1>2, InputType
  <2> QED
    BY <1>2, <2>1, <2>2, ShellSays DEF Outcome, Evidence, RetentionClass
<1> QED
    BY <1>1, <1>2

-----------------------------------------------------------------------------
\* The rank of a case among the executed ones.
LEMMA RankStep ==
    /\ Rank(0) = 0
    /\ \A c \in Nat : Rank(c) \in Nat
    /\ \A c \in Nat \ {0} : Rank(c) = IF Executed(c) THEN Rank(c - 1) + 1 ELSE Rank(c - 1)
<1> DEFINE upto(c) == {d \in 1..c : Executed(d)}
<1>1. \A c \in Nat : IsFiniteSet(upto(c))
  <2> SUFFICES ASSUME NEW c \in Nat PROVE IsFiniteSet(upto(c))
    OBVIOUS
  <2>1. IsFiniteSet(1..c)
    BY FS_Interval
  <2> QED
    BY <2>1, FS_Subset
<1>2. Rank(0) = 0
  <2>1. upto(0) = {}
    OBVIOUS
  <2> QED
    BY <2>1, FS_EmptySet DEF Rank
<1>3. \A c \in Nat : Rank(c) \in Nat
    BY <1>1, FS_CardinalityType DEF Rank
<1>4. ASSUME NEW c \in Nat \ {0}
      PROVE  Rank(c) = IF Executed(c) THEN Rank(c - 1) + 1 ELSE Rank(c - 1)
  <2>1. IsFiniteSet(upto(c - 1)) /\ c \notin upto(c - 1)
    BY <1>1
  <2>2. CASE Executed(c)
    <3>1. upto(c) = upto(c - 1) \cup {c}
      BY <2>2
    <3>2. Cardinality(upto(c - 1) \cup {c}) = Cardinality(upto(c - 1)) + 1
      BY <2>1, FS_AddElement
    <3> QED
      BY <2>2, <3>1, <3>2 DEF Rank
  <2>3. CASE ~Executed(c)
    <3>1. upto(c) = upto(c - 1)
      BY <2>3
    <3> QED
      BY <2>3, <3>1 DEF Rank
  <2> QED
    BY <2>2, <2>3
<1> QED
    BY <1>2, <1>3, <1>4

LEMMA RankGrows ==
    ASSUME NEW c \in Nat, NEW d \in Nat, c <= d
    PROVE  Rank(c) <= Rank(d)
<1> DEFINE upto(e) == {f \in 1..e : Executed(f)}
<1>1. IsFiniteSet(upto(d))
  <2>1. IsFiniteSet(1..d)
    BY FS_Interval
  <2> QED
    BY <2>1, FS_Subset
<1>2. upto(c) \in SUBSET upto(d)
    OBVIOUS
<1> QED
    BY <1>1, <1>2, FS_Subset DEF Rank

\* An executed case has its rank for itself.
LEMMA RankIsOwn ==
    ASSUME NEW c \in Case, NEW d \in Case, Executed(c), Executed(d)
    PROVE  /\ Rank(c) \in Nat \ {0}
           /\ c < d => Rank(c) < Rank(d)
           /\ Rank(c) = Rank(d) => c = d
<1>1. \A e \in Case : Executed(e) => Rank(e) = Rank(e - 1) + 1 /\ Rank(e - 1) \in Nat
    BY RankStep
<1>2. \A e, f \in Case : Executed(f) /\ e < f => Rank(e) < Rank(f)
  <2> SUFFICES ASSUME NEW e \in Case, NEW f \in Case, Executed(f), e < f PROVE Rank(e) < Rank(f)
    OBVIOUS
  <2>1. e <= f - 1 /\ f - 1 \in Nat /\ e \in Nat
    OBVIOUS
  <2>2. Rank(e) <= Rank(f - 1)
    BY <2>1, RankGrows
  <2>3. Rank(e) \in Nat
    BY <2>1, RankStep
  <2> QED
    BY <1>1, <2>2, <2>3
<1>3. Rank(c) \in Nat \ {0} /\ Rank(d) \in Nat
  <2>1. Rank(c) = Rank(c - 1) + 1 /\ Rank(c - 1) \in Nat
    BY <1>1
  <2>2. Rank(d) \in Nat
    BY RankStep
  <2> QED
    BY <2>1, <2>2
<1>4. c < d \/ c = d \/ d < c
    OBVIOUS
<1> QED
    BY <1>2, <1>3, <1>4

-----------------------------------------------------------------------------
(***************************************************************************)
(* The builder's state: what each step makes of it.                         *)
(***************************************************************************)
LEMMA NoBuildType ==
    NoBuild \in BuildState /\ NoBuild.phase = "idle" /\ NoBuild.last = "none"
<1>1. 1 \in 1..(N + 1) /\ <<>> \in Seq(Id) /\ <<>> \in Seq(Draft) /\ <<>> \in Seq(QueuedFile)
    BY EmptySeq
<1> QED
    BY <1>1 DEF NoBuild, BuildState

LEMMA EndedType ==
    ASSUME build \in BuildState, NEW last \in {"none", "done", "refused", "killed"}
    PROVE  /\ Ended(last) \in BuildState
           /\ Ended(last).phase = "idle" /\ Ended(last).last = last
           /\ Ended(last).readOnly = build.readOnly
<1>1. build.wrote \in BOOLEAN /\ build.readOnly \in BOOLEAN
    BY DEF BuildState
<1>2. NoBuild \in BuildState /\ NoBuild.phase = "idle"
    BY NoBuildType
<1>3. [NoBuild EXCEPT !.last = last, !.wrote = build.wrote, !.readOnly = build.readOnly]
        \in BuildState
    BY <1>1, <1>2 DEF BuildState
<1> QED
    BY <1>2, <1>3 DEF Ended, BuildState

LEMMA StartedType ==
    ASSUME NEW ids \in IdLists, NEW readOnly \in BOOLEAN
    PROVE  LET b == [NoBuild EXCEPT !.phase = "cases", !.readOnly = readOnly, !.ids = ids]
           IN /\ b \in BuildState
              /\ b.phase = "cases" /\ b.readOnly = readOnly /\ b.ids = ids
              /\ b.next = 1 /\ b.drafts = <<>>
<1>1. NoBuild \in BuildState /\ ids \in Seq(Id)
    BY NoBuildType
<1>2. NoBuild.next = 1 /\ NoBuild.drafts = <<>>
    BY DEF NoBuild
<1>3. [NoBuild EXCEPT !.phase = "cases", !.readOnly = readOnly, !.ids = ids] \in BuildState
    BY <1>1 DEF BuildState
<1> QED
    BY <1>1, <1>2, <1>3 DEF BuildState

LEMMA AdvancedType ==
    ASSUME build \in BuildState, NEW c \in Case
    PROVE  LET b == [build EXCEPT !.next = c + 1]
           IN /\ b \in BuildState
              /\ b.phase = build.phase /\ b.readOnly = build.readOnly /\ b.ids = build.ids
              /\ b.next = c + 1 /\ b.drafts = build.drafts
<1>1. c + 1 \in 1..(N + 1)
    OBVIOUS
<1> QED
    BY <1>1 DEF BuildState

LEMMA DraftedType ==
    ASSUME build \in BuildState, NEW c \in Case, build.ids # <<>>
    PROVE  LET d == [case |-> c, id |-> Head(build.ids)]
               b == [build EXCEPT !.next = c + 1, !.ids = Tail(@), !.drafts = Append(@, d)]
           IN /\ d \in Draft /\ b \in BuildState
              /\ b.phase = build.phase /\ b.readOnly = build.readOnly /\ b.ids = Tail(build.ids)
              /\ b.next = c + 1 /\ b.drafts = Append(build.drafts, d)
<1> DEFINE d == [case |-> c, id |-> Head(build.ids)]
<1>1. c + 1 \in 1..(N + 1) /\ build.ids \in Seq(Id) /\ build.drafts \in Seq(Draft)
    BY DEF BuildState
<1>2. Tail(build.ids) \in Seq(Id) /\ d \in Draft
    BY <1>1, HeadTailProperties DEF Draft
<1>3. PICK ids \in Seq(Id) : ids = Tail(build.ids)
    BY <1>2
<1>4. PICK drafts \in Seq(Draft) : drafts = Append(build.drafts, d)
    BY <1>1, <1>2, AppendProperties
<1>5. [build EXCEPT !.next = c + 1, !.ids = ids, !.drafts = drafts] \in BuildState
    BY <1>1 DEF BuildState
<1> QED
    BY <1>2, <1>3, <1>4, <1>5 DEF BuildState

(***************************************************************************)
(* The order of the writes: a manifest for an original attempt, then the    *)
(* attempt records, then the indexes, each in the order of the drafts.      *)
(***************************************************************************)
LEMMA FileType ==
    ASSUME NEW drafts \in Seq(Draft), NEW type \in {"attempt", "index"}
    PROVE  /\ File(type, drafts) \in Seq(QueuedFile)
           /\ Len(File(type, drafts)) = Len(drafts)
           /\ \A k \in 1..Len(drafts) : File(type, drafts)[k] = ToWrite(type, drafts[k])
<1>1. /\ Len(drafts) \in Nat /\ DOMAIN drafts = 1..Len(drafts)
      /\ \A k \in 1..Len(drafts) : drafts[k] \in Draft
    BY LenProperties, ElementOfSeq
<1>2. \A k \in 1..Len(drafts) : ToWrite(type, drafts[k]) \in QueuedFile
    BY <1>1 DEF ToWrite, QueuedFile
<1>3. File(type, drafts) = [k \in 1..Len(drafts) |-> ToWrite(type, drafts[k])]
    BY <1>1 DEF File, ToWrite
<1>4. File(type, drafts) \in [1..Len(drafts) -> QueuedFile]
    BY <1>2, <1>3
<1>5. File(type, drafts) \in Seq(QueuedFile)
    BY <1>1, <1>4, SeqDef
<1> QED
    BY <1>1, <1>3, <1>5, LenProperties

LEMMA ConcatAt ==
    ASSUME NEW S, NEW s \in Seq(S), NEW t \in Seq(S)
    PROVE  /\ s \o t \in Seq(S) /\ Len(s \o t) = Len(s) + Len(t)
           /\ \A k \in 1..Len(s) : (s \o t)[k] = s[k]
           /\ \A k \in 1..Len(t) : (s \o t)[Len(s) + k] = t[k]
<1>1. Len(s) \in Nat /\ Len(t) \in Nat
    BY LenProperties
<1>2. \A k \in 1..Len(s) : k \in 1..(Len(s) + Len(t)) /\ k <= Len(s)
    BY <1>1
<1>3. \A k \in 1..Len(t) :
        /\ Len(s) + k \in 1..(Len(s) + Len(t)) /\ ~(Len(s) + k <= Len(s))
        /\ Len(s) + k - Len(s) = k
    BY <1>1
<1>4. /\ s \o t \in Seq(S) /\ Len(s \o t) = Len(s) + Len(t)
      /\ \A i \in 1..(Len(s) + Len(t)) :
           (s \o t)[i] = IF i <= Len(s) THEN s[i] ELSE t[i - Len(s)]
    BY ConcatProperties
<1> QED
    BY <1>2, <1>3, <1>4

LEMMA QueueIs ==
    ASSUME NEW drafts \in Seq(Draft)
    PROVE  LET queue == WriteQueue(drafts)
               n == Len(drafts)
               m == IF inv.kind = "original" THEN 1 ELSE 0
           IN /\ n \in Nat /\ queue \in Seq(QueuedFile) /\ Len(queue) = m + n + n
              /\ inv.kind = "original" => queue[1] = [type |-> "manifest"]
              /\ \A k \in 1..n : queue[m + k] = ToWrite("attempt", drafts[k])
              /\ \A k \in 1..n : queue[m + n + k] = ToWrite("index", drafts[k])
<1> DEFINE n == Len(drafts)
           m == IF inv.kind = "original" THEN 1 ELSE 0
<1>1. n \in Nat
    BY LenProperties
<1>2. PICK first \in Seq(QueuedFile) :
        /\ first = ManifestFile /\ Len(first) = m
        /\ inv.kind = "original" => first[1] = [type |-> "manifest"]
  <2>1. CASE inv.kind = "original"
    <3>1. PICK file \in QueuedFile : file = [type |-> "manifest"]
      BY DEF QueuedFile
    <3>2. <<file>> \in Seq(QueuedFile) /\ Len(<<file>>) = 1 /\ <<file>>[1] = file
      OBVIOUS
    <3>3. ManifestFile = <<file>> /\ m = 1
      BY <2>1, <3>1 DEF ManifestFile
    <3> QED
      BY <3>1, <3>2, <3>3
  <2>2. CASE inv.kind # "original"
    <3>1. <<>> \in Seq(QueuedFile) /\ Len(<<>>) = 0 /\ ManifestFile = <<>> /\ m = 0
      BY <2>2, EmptySeq DEF ManifestFile
    <3> QED
      BY <2>2, <3>1
  <2> QED
    BY <2>1, <2>2
<1>3. PICK second \in Seq(QueuedFile) :
        /\ second = File("attempt", drafts) /\ Len(second) = n
        /\ \A k \in 1..n : second[k] = ToWrite("attempt", drafts[k])
    BY FileType
<1>4. PICK third \in Seq(QueuedFile) :
        /\ third = File("index", drafts) /\ Len(third) = n
        /\ \A k \in 1..n : third[k] = ToWrite("index", drafts[k])
    BY FileType
<1> HIDE DEF n, m
<1>5. m \in {0, 1} /\ (inv.kind = "original" => m = 1)
    BY DEF m
<1>6. PICK both \in Seq(QueuedFile) :
        /\ both = first \o second /\ Len(both) = m + n
        /\ \A k \in 1..m : both[k] = first[k]
        /\ \A k \in 1..n : both[m + k] = second[k]
  <2>1. /\ first \o second \in Seq(QueuedFile)
        /\ Len(first \o second) = Len(first) + Len(second)
        /\ \A k \in 1..Len(first) : (first \o second)[k] = first[k]
        /\ \A k \in 1..Len(second) : (first \o second)[Len(first) + k] = second[k]
    BY ConcatAt
  <2> QED
    BY ZenonT(60), <1>2, <1>3, <2>1
<1>7. /\ both \o third \in Seq(QueuedFile) /\ Len(both \o third) = m + n + n
      /\ \A k \in 1..(m + n) : (both \o third)[k] = both[k]
      /\ \A k \in 1..n : (both \o third)[m + n + k] = third[k]
  <2>1. /\ both \o third \in Seq(QueuedFile)
        /\ Len(both \o third) = Len(both) + Len(third)
        /\ \A k \in 1..Len(both) : (both \o third)[k] = both[k]
        /\ \A k \in 1..Len(third) : (both \o third)[Len(both) + k] = third[k]
    BY ConcatAt
  <2> QED
    BY ZenonT(60), <1>1, <1>4, <1>5, <1>6, <2>1
<1>8. /\ inv.kind = "original" => (both \o third)[1] = [type |-> "manifest"]
      /\ \A k \in 1..n : (both \o third)[m + k] = ToWrite("attempt", drafts[k])
  <2>1. inv.kind = "original" => 1 \in 1..m /\ 1 \in 1..(m + n)
    BY <1>1, <1>5
  <2>2. \A k \in 1..n : m + k \in 1..(m + n)
    BY <1>1, <1>5
  <2>3. inv.kind = "original" => (both \o third)[1] = both[1] /\ both[1] = first[1]
    BY <1>6, <1>7, <2>1
  <2>4. ASSUME NEW k \in 1..n PROVE (both \o third)[m + k] = ToWrite("attempt", drafts[k])
    <3>1. (both \o third)[m + k] = both[m + k]
      BY <1>7, <2>2
    <3>2. both[m + k] = second[k]
      BY <1>6
    <3> QED
      BY <1>3, <3>1, <3>2
  <2> QED
    BY <1>2, <2>3, <2>4
<1>9. WriteQueue(drafts) = both \o third
    BY <1>2, <1>3, <1>4, <1>6 DEF WriteQueue
<1>10. PICK queue \in Seq(QueuedFile) : queue = both \o third
    BY <1>7
<1>11. \A k \in 1..n : queue[m + n + k] = ToWrite("index", drafts[k])
    BY ZenonT(60), <1>4, <1>7, <1>10
<1>12. Len(queue) = m + n + n /\ queue = WriteQueue(drafts)
    BY <1>7, <1>9, <1>10
<1>13. /\ inv.kind = "original" => queue[1] = [type |-> "manifest"]
       /\ \A k \in 1..n : queue[m + k] = ToWrite("attempt", drafts[k])
    BY <1>8, <1>10
<1> QED
    BY <1>1, <1>11, <1>12, <1>13 DEF n, m

-----------------------------------------------------------------------------
\* No step changes what the invocation left, nor what follows from it.
LEMMA InvKept ==
    ASSUME [Next]_vars
    PROVE  inv' = inv
    BY DEF Next, vars, Start, PassOverCase, RefuseCase, BuildCase, Seal, WriteRecord, Finish, Kill

LEMMA FactsKept ==
    ASSUME inv' = inv
    PROVE  /\ Verdict' = Verdict
           /\ \A c : /\ Executed(c)' = Executed(c) /\ Outcome(c)' = Outcome(c)
                     /\ Evidence(c)' = Evidence(c) /\ Input(c)' = Input(c)
                     /\ Rank(c)' = Rank(c)
           /\ \A ids, c, i : Gives(ids, c, i)' = Gives(ids, c, i)
<1>1. Sql' = Sql /\ \A c : Input(c)' = Input(c)
    BY DEF Sql, Input
<1>2. \A c : Executed(c)' = Executed(c)
    BY <1>1 DEF Executed
<1>3. \A c : Outcome(c)' = Outcome(c) /\ Evidence(c)' = Evidence(c)
    BY <1>1 DEF Outcome, Evidence
<1>4. \A c : Rank(c)' = Rank(c)
    BY <1>2 DEF Rank
<1>5. \A ids, c, i : Gives(ids, c, i)' = Gives(ids, c, i)
    BY <1>2, <1>4 DEF Gives
<1>6. Verdict' = Verdict
    BY <1>1, <1>2 DEF Verdict, Mismatch
<1> QED
    BY <1>1, <1>2, <1>3, <1>4, <1>5, <1>6

\* What is written is of the schema's kind, so that it is neither missing nor torn.
LEMMA WrittenIsWhole ==
    ASSUME TypeOK, build.digest \in Listing, NEW d \in Draft
    PROVE  /\ AttemptOf(d) \in AttemptRecord /\ Whole(AttemptOf(d))
           /\ IndexOf(d) \in IndexRecord /\ Whole(IndexOf(d))
<1>1. InvocationOK(inv) /\ d.case \in Case
    BY DEF TypeOK, Draft
<1>2. /\ Outcome(d.case) \in Outcomes /\ Evidence(d.case) \in Statuses
      /\ RetentionClass(inv.kind, Outcome(d.case)) \in {"success-bulky", "failure"}
      /\ Input(d.case).late \in BOOLEAN
    BY <1>1, CaseSays, InputLate
<1>3. AttemptOf(d) \in AttemptRecord
    BY <1>1, <1>2 DEF AttemptOf, AttemptRecord, DigestFor
<1>4. IndexOf(d) \in IndexRecord
    BY <1>1, <1>2 DEF IndexOf, IndexRecord, DigestFor
<1> QED
    BY <1>3, <1>4, MarksAssumption DEF Whole

LEMMA ManifestIsWhole ==
    ASSUME NEW drafts \in Seq(Draft)
    PROVE  ManifestOf(drafts) \in ManifestRecord /\ Whole(ManifestOf(drafts))
<1>1. \A k \in DOMAIN drafts : drafts[k].id \in Id
  <2>1. \A k \in DOMAIN drafts : drafts[k] \in Draft
    BY LenProperties, ElementOfSeq
  <2> QED
    BY <2>1 DEF Draft
<1>2. Verdict \in {"proven", "failure-of-proof"}
    BY DEF Verdict
<1>3. ManifestOf(drafts) \in ManifestRecord
    BY <1>1, <1>2 DEF ManifestOf, ManifestRecord
<1> QED
    BY <1>3, MarksAssumption DEF Whole

-----------------------------------------------------------------------------
(***************************************************************************)
(* The initial states.                                                      *)
(***************************************************************************)
LEMMA InitSafe == Init => IndInv
<1> SUFFICES ASSUME Init PROVE IndInv
    OBVIOUS
<1>1. NoBuild \in BuildState /\ build = NoBuild /\ build.phase = "idle" /\ build.last = "none"
    BY NoBuildType DEF Init
<1>2. TypeOK
  <2>1. InvocationOK(inv)
    BY InvocationAssumption DEF Init
  <2>2. compared \in Listing
    BY DEF Init, Listing, Content
  <2> QED
    BY <1>1, <2>1, <2>2 DEF Init, TypeOK
<1>3. Drafted /\ Writing /\ Finished
    BY <1>1 DEF Drafted, Writing, Finished, Done
<1>4. OnDisk /\ IndexComesLast
    BY DEF Init, OnDisk, IndexComesLast, Whole
<1> QED
    BY <1>2, <1>3, <1>4 DEF IndInv

(***************************************************************************)
(* The steps.  A queue moves up by one; what stays queued was not at its    *)
(* head.                                                                    *)
(***************************************************************************)
LEMMA BuildFields ==
    ASSUME build \in BuildState
    PROVE  /\ build.ids \in Seq(Id) /\ build.drafts \in Seq(Draft)
           /\ build.queue \in Seq(QueuedFile) /\ build.next \in 1..(N + 1)
           /\ build.readOnly \in BOOLEAN
           /\ Len(build.drafts) \in Nat /\ DOMAIN build.drafts = 1..Len(build.drafts)
           /\ \A k \in DOMAIN build.drafts : build.drafts[k] \in Draft
           /\ Len(build.queue) \in Nat /\ DOMAIN build.queue = 1..Len(build.queue)
           /\ \A k \in DOMAIN build.queue : build.queue[k] \in QueuedFile
           /\ Len(build.ids) \in Nat /\ DOMAIN build.ids = 1..Len(build.ids)
<1>1. /\ build.ids \in Seq(Id) /\ build.drafts \in Seq(Draft)
      /\ build.queue \in Seq(QueuedFile) /\ build.next \in 1..(N + 1)
      /\ build.readOnly \in BOOLEAN
    BY DEF BuildState
<1> QED
    BY <1>1, LenProperties, ElementOfSeq

LEMMA FileIs ==
    ASSUME NEW f \in QueuedFile
    PROVE  \/ f.type = "manifest" /\ f = [type |-> "manifest"]
           \/ f.type = "attempt" /\ f.draft \in Draft /\ f = ToWrite("attempt", f.draft)
           \/ f.type = "index" /\ f.draft \in Draft /\ f = ToWrite("index", f.draft)
    BY DEF QueuedFile, ToWrite

LEMMA ToWriteIs ==
    ASSUME NEW type, NEW d, NEW kind, NEW e
    PROVE  /\ ToWrite(type, d).type = type /\ ToWrite(type, d).draft = d
           /\ ToWrite(type, d) = ToWrite(kind, e) => type = kind /\ d = e
    BY DEF ToWrite

\* The state of a builder that has written, or refused, the file at the head of its queue.
LEMMA WroteType ==
    ASSUME build \in BuildState, build.queue # <<>>
    PROVE  LET b == [build EXCEPT !.queue = Tail(@), !.wrote = TRUE]
           IN /\ b \in BuildState
              /\ b.phase = build.phase /\ b.readOnly = build.readOnly /\ b.ids = build.ids
              /\ b.next = build.next /\ b.drafts = build.drafts /\ b.digest = build.digest
              /\ b.queue = Tail(build.queue)
<1>1. PICK queue \in Seq(QueuedFile) : queue = Tail(build.queue)
    BY HeadTailProperties DEF BuildState
<1>2. [build EXCEPT !.queue = queue, !.wrote = TRUE] \in BuildState
    BY DEF BuildState
<1> QED
    BY <1>1, <1>2 DEF BuildState

LEMMA SealedType ==
    ASSUME TypeOK
    PROVE  LET b == [build EXCEPT !.phase = "write", !.digest = compared,
                                  !.queue = WriteQueue(build.drafts)]
           IN /\ b \in BuildState
              /\ b.phase = "write" /\ b.readOnly = build.readOnly /\ b.ids = build.ids
              /\ b.next = build.next /\ b.drafts = build.drafts /\ b.digest = compared
              /\ b.queue = WriteQueue(build.drafts)
<1>1. build \in BuildState /\ compared \in Listing
    BY DEF TypeOK
<1>2. build.drafts \in Seq(Draft)
    BY <1>1, BuildFields
<1>3. PICK queue \in Seq(QueuedFile) : queue = WriteQueue(build.drafts)
    BY <1>2, QueueIs
<1>4. [build EXCEPT !.phase = "write", !.digest = compared, !.queue = queue] \in BuildState
    BY <1>1 DEF BuildState
<1> QED
    BY <1>1, <1>3, <1>4 DEF BuildState

LEMMA StepType == IndInv /\ [Next]_vars => TypeOK'
<1> SUFFICES ASSUME IndInv, [Next]_vars PROVE TypeOK'
    OBVIOUS
<1> USE DEF evidence
<1>1. TypeOK /\ build \in BuildState
    BY DEF IndInv, TypeOK
<1>2. InvocationOK(inv')
    BY <1>1, InvKept DEF TypeOK
<1>3. CASE UNCHANGED vars
    BY <1>1, <1>3 DEF TypeOK, vars
<1>4. ASSUME NEW ids \in IdLists, NEW readOnly \in BOOLEAN, Start(ids, readOnly) PROVE TypeOK'
  <2>1. build' \in BuildState
    BY <1>4, StartedType DEF Start
  <2>2. builds' \in 0..MaxBuilds
    BY <1>1, <1>4 DEF Start, TypeOK
  <2> QED
    BY <1>1, <1>2, <1>4, <2>1, <2>2 DEF Start, TypeOK
<1>5. ASSUME NEW c \in Case, PassOverCase(c) PROVE TypeOK'
    BY <1>1, <1>2, <1>5, AdvancedType DEF PassOverCase, TypeOK
<1>6. ASSUME NEW c \in Case, RefuseCase(c) PROVE TypeOK'
    BY <1>1, <1>2, <1>6, EndedType DEF RefuseCase, TypeOK
<1>7. ASSUME NEW c \in Case, BuildCase(c) PROVE TypeOK'
  <2>1. build' \in BuildState
    BY <1>1, <1>7, DraftedType DEF BuildCase
  <2>2. Head(build.ids) \in Id
    BY <1>1, <1>7, BuildFields, HeadTailProperties DEF BuildCase
  <2>3. compared' \in Listing
    BY <1>1, <1>7, <2>2 DEF BuildCase, TypeOK, Listing, Content
  <2> QED
    BY <1>1, <1>2, <1>7, <2>1, <2>3 DEF BuildCase, TypeOK
<1>8. CASE Seal
    BY <1>1, <1>2, <1>8, SealedType DEF Seal, TypeOK
<1>9. CASE WriteRecord
  <2> DEFINE f == Head(build.queue)
  <2>1. f \in QueuedFile /\ build.queue # <<>>
    BY <1>1, <1>9, BuildFields, HeadTailProperties DEF WriteRecord
  <2>2. build.digest \in Listing
    BY <1>1, <1>9 DEF WriteRecord, IndInv, Writing, TypeOK
  <2>3. build' \in BuildState
    BY <1>1, <1>9, <2>1, WroteType, EndedType DEF WriteRecord
  <2>4. manifest' \in ManifestRecord \cup {Absent, Torn}
    BY <1>1, <1>9, BuildFields, ManifestIsWhole DEF WriteRecord, TypeOK
  <2>5. attempt' \in [Id -> AttemptRecord \cup {Absent, Torn}]
    BY <1>1, <1>9, <2>1, <2>2, FileIs, WrittenIsWhole DEF WriteRecord, TypeOK
  <2>6. index' \in [Id -> IndexRecord \cup {Absent, Torn}]
    BY <1>1, <1>9, <2>1, <2>2, FileIs, WrittenIsWhole DEF WriteRecord, TypeOK
  <2>7. UNCHANGED <<compared, sums, builds, kills>>
    BY <1>9 DEF WriteRecord
  <2> QED
    BY <1>1, <1>2, <2>3, <2>4, <2>5, <2>6, <2>7 DEF TypeOK
<1>10. CASE Finish
    BY <1>1, <1>2, <1>10, EndedType DEF Finish, TypeOK
<1>11. CASE Kill
  <2>1. build' \in BuildState
    BY <1>1, <1>11, EndedType DEF Kill
  <2>2. kills' \in 0..MaxKills /\ builds' = builds
    BY <1>1, <1>11 DEF Kill, TypeOK
  <2>3. compared' \in Listing
    BY <1>1, <1>11 DEF Kill, TypeOK, Listing, Content
  <2>4. sums' \in Listing \cup {Absent, Torn}
    BY <1>1, <1>11 DEF Kill, TypeOK
  <2>5. manifest' \in ManifestRecord \cup {Absent, Torn}
    BY <1>1, <1>11 DEF Kill, TypeOK
  <2>6. attempt' \in [Id -> AttemptRecord \cup {Absent, Torn}]
    BY <1>1, <1>11 DEF Kill, TypeOK
  <2>7. index' \in [Id -> IndexRecord \cup {Absent, Torn}]
    BY <1>1, <1>11 DEF Kill, TypeOK
  <2> QED
    BY <1>1, <1>2, <2>1, <2>2, <2>3, <2>4, <2>5, <2>6, <2>7 DEF TypeOK
<1> QED
    BY <1>3, <1>4, <1>5, <1>6, <1>7, <1>8, <1>9, <1>10, <1>11 DEF Next

\* What is drafted stays drafted when the builder keeps its ids, its drafts and its place.
LEMMA DraftedKept ==
    ASSUME Drafted, build.phase # "idle", inv' = inv, UNCHANGED <<build.ids, build.drafts, build.next>>
    PROVE  Drafted'
<1>1. \A ids : GivenOut(ids)' = GivenOut(ids)
    BY DEF GivenOut
<1> QED
    BY <1>1, FactsKept DEF Drafted

LEMMA StepDrafted == IndInv /\ [Next]_vars => Drafted'
<1> SUFFICES ASSUME IndInv, [Next]_vars PROVE Drafted'
    OBVIOUS
<1>1. TypeOK /\ build \in BuildState /\ Drafted
    BY DEF IndInv, TypeOK
<1>2. inv' = inv
    BY InvKept
<1>3. CASE UNCHANGED vars
  <2>1. build' = build
    BY <1>3 DEF vars
  <2> QED
    BY <1>1, <1>2, <2>1, DraftedKept DEF Drafted
<1>4. ASSUME NEW ids \in IdLists, NEW readOnly \in BOOLEAN, Start(ids, readOnly) PROVE Drafted'
  <2>1. build'.phase = "cases" /\ build'.ids = ids /\ build'.next = 1 /\ build'.drafts = <<>>
    BY ZenonT(60), <1>4, StartedType DEF Start
  <2>2. ids \in Seq(Id) /\ Len(ids) \in Nat /\ DOMAIN ids = 1..Len(ids)
    BY LenProperties
  <2>3. GivenOut(ids)'
    <3>1. Len(build'.drafts) = 0 /\ DOMAIN build'.drafts = {}
      BY <2>1
    <3>2. Len(ids) = 0 + Len(ids) /\ \A k \in DOMAIN ids : 0 + k = k
      BY <2>2
    <3> QED
      BY <2>1, <3>1, <3>2 DEF GivenOut
  <2>4. (Len(build.drafts) = Rank(build.next - 1))'
    <3>1. Rank(0)' = 0 /\ Len(<<>>) = 0 /\ 1 - 1 = 0
      BY <1>2, RankStep, FactsKept
    <3> QED
      BY <2>1, <3>1
  <2>5. DOMAIN build'.drafts = {} /\ 1..(build'.next - 1) = {}
    BY <2>1
  <2> QED
    BY <2>3, <2>4, <2>5 DEF Drafted
<1>5. ASSUME NEW c \in Case, PassOverCase(c) PROVE Drafted'
  <2>1. /\ build.phase = "cases" /\ build.next = c /\ ~Executed(c)
        /\ build'.phase = "cases" /\ build'.ids = build.ids
        /\ build'.next = c + 1 /\ build'.drafts = build.drafts
    BY <1>1, <1>5, AdvancedType DEF PassOverCase, AtCase
  <2>2. \A ids : GivenOut(ids)' = GivenOut(ids)
    BY <2>1 DEF GivenOut
  <2>3. Rank(c) = Rank(c - 1) /\ c + 1 - 1 = c /\ c \in Nat
    BY <2>1, RankStep
  <2>4. \A d \in 1..c : Executed(d) => d \in 1..(c - 1)
    BY <2>1
  <2>5. \A d \in Case : d < c => d < c + 1
    OBVIOUS
  <2>6. \A k \in DOMAIN build.drafts : build.drafts[k].case \in Case
    BY <1>1, BuildFields DEF Draft
  <2>7. \E ids \in IdLists : GivenOut(ids)'
    BY <1>1, <2>1, <2>2 DEF Drafted
  <2>8. Len(build.drafts) = Rank(c)
    BY <1>1, <2>1, <2>3 DEF Drafted
  <2>9. \A k \in DOMAIN build.drafts :
          LET d == build.drafts[k].case
          IN d < c + 1 /\ Executed(d) /\ Rank(d) = k
    BY <1>1, <2>1, <2>5, <2>6 DEF Drafted
  <2>10. \A d \in 1..c : Executed(d) =>
          Rank(d) \in DOMAIN build.drafts /\ build.drafts[Rank(d)].case = d
    BY <1>1, <2>1, <2>4 DEF Drafted
  <2> QED
    BY <1>2, <2>1, <2>3, <2>7, <2>8, <2>9, <2>10, FactsKept DEF Drafted
<1>6. ASSUME NEW c \in Case, RefuseCase(c) PROVE Drafted'
    BY <1>1, <1>6, EndedType DEF RefuseCase, Drafted
<1>7. ASSUME NEW c \in Case, BuildCase(c) PROVE Drafted'
  <2> DEFINE n == Len(build.drafts)
             d == [case |-> c, id |-> Head(build.ids)]
  <2>1. /\ build.phase = "cases" /\ build.next = c /\ Executed(c) /\ build.ids # <<>>
        /\ d \in Draft /\ build'.phase = "cases" /\ build'.ids = Tail(build.ids)
        /\ build'.next = c + 1 /\ build'.drafts = Append(build.drafts, d)
    BY <1>1, <1>7, DraftedType DEF BuildCase, AtCase
  <2>2. /\ build.ids \in Seq(Id) /\ build.drafts \in Seq(Draft)
        /\ n \in Nat /\ DOMAIN build.drafts = 1..n
        /\ Len(build.ids) \in Nat /\ DOMAIN build.ids = 1..Len(build.ids)
    BY <1>1, BuildFields
  <2>3. /\ build'.drafts \in Seq(Draft) /\ Len(build'.drafts) = n + 1
        /\ DOMAIN build'.drafts = 1..(n + 1)
        /\ \A k \in 1..n : build'.drafts[k] = build.drafts[k]
        /\ build'.drafts[n + 1] = d
    BY <2>1, <2>2, AppendProperties, LenProperties
  <2>4. /\ Len(build'.ids) = Len(build.ids) - 1 /\ Len(build.ids) \in Nat \ {0}
        /\ DOMAIN build'.ids = 1..(Len(build.ids) - 1)
        /\ \A k \in 1..(Len(build.ids) - 1) : build'.ids[k] = build.ids[k + 1]
        /\ Head(build.ids) = build.ids[1]
    <3>1. Tail(build.ids) \in Seq(Id) /\ Len(Tail(build.ids)) = Len(build.ids) - 1
          /\ \A k \in 1..Len(Tail(build.ids)) : Tail(build.ids)[k] = build.ids[k + 1]
      BY <2>1, <2>2, HeadTailProperties
    <3>2. Head(build.ids) = build.ids[1] /\ Len(build.ids) \in Nat \ {0}
      BY <2>1, <2>2, EmptySeq
    <3>3. DOMAIN Tail(build.ids) = 1..Len(Tail(build.ids))
      BY <3>1, LenProperties
    <3> QED
      BY <2>1, <3>1, <3>2, <3>3
  <2>5. c \in Nat \ {0} /\ c + 1 - 1 = c /\ Rank(c) = n + 1
    <3>1. n = Rank(c - 1)
      BY <1>1, <2>1 DEF Drafted
    <3>2. c \in Nat \ {0}
      OBVIOUS
    <3>3. Rank(c) = Rank(c - 1) + 1
      BY <2>1, <3>2, RankStep
    <3> HIDE DEF n
    <3> QED
      BY <3>1, <3>2, <3>3
  <2>10. \A k \in 1..n :
           LET e == build.drafts[k].case
           IN e \in Case /\ e < c /\ Executed(e) /\ Rank(e) = k
    <3>1. \A k \in 1..n : build.drafts[k].case \in Case
      BY <1>1, <2>2, BuildFields DEF Draft
    <3> QED
      BY <1>1, <2>1, <2>2, <3>1 DEF Drafted
  <2> HIDE DEF n
  <2>6. ASSUME NEW ids \in IdLists, GivenOut(ids) PROVE GivenOut(ids)'
    <3>1. /\ Len(ids) = n + Len(build.ids)
          /\ \A k \in 1..n : build.drafts[k].id = ids[k]
          /\ \A k \in 1..Len(build.ids) : build.ids[k] = ids[n + k]
      <4>1. /\ Len(ids) = n + Len(build.ids)
            /\ \A k \in DOMAIN build.drafts : build.drafts[k].id = ids[k]
            /\ \A k \in DOMAIN build.ids : build.ids[k] = ids[n + k]
        BY <2>6 DEF GivenOut, n
      <4>2. DOMAIN build.drafts = 1..n /\ DOMAIN build.ids = 1..Len(build.ids)
        BY <2>2
      <4> QED
        BY <4>1, <4>2
    <3>2. Len(ids) = Len(build'.drafts) + Len(build'.ids)
      <4>1. n \in Nat /\ Len(build.ids) \in Nat /\ Len(ids) = n + Len(build.ids)
        BY <2>2, <3>1
      <4>2. Len(build'.drafts) = n + 1 /\ Len(build'.ids) = Len(build.ids) - 1
        BY <2>3, <2>4
      <4>3. \A l, m \in Nat : m + l = (m + 1) + (l - 1)
        OBVIOUS
      <4>4. n + Len(build.ids) = (n + 1) + (Len(build.ids) - 1)
        BY <4>1, <4>3
      <4> QED
        BY <4>1, <4>2, <4>4
    <3>3. \A k \in 1..(n + 1) : build'.drafts[k].id = ids[k]
      <4>1. build'.drafts[n + 1].id = ids[n + 1]
        BY <2>3, <2>4, <3>1
      <4>2. \A k \in 1..(n + 1) : k \in 1..n \/ k = n + 1
        BY <2>2
      <4> QED
        BY <2>3, <3>1, <4>1, <4>2
    <3>4. \A k \in 1..(Len(build.ids) - 1) : build'.ids[k] = ids[n + 1 + k]
      <4>1. \A k \in 1..(Len(build.ids) - 1) :
              k + 1 \in 1..Len(build.ids) /\ n + (k + 1) = n + 1 + k
        BY <2>2
      <4> QED
        BY <2>4, <3>1, <4>1
    <3> QED
      BY <2>3, <2>4, <3>2, <3>3, <3>4 DEF GivenOut
  <2>7. \E ids \in IdLists : GivenOut(ids)'
    BY <1>1, <2>1, <2>6 DEF Drafted
  <2>8. ASSUME NEW k \in 1..(n + 1)
        PROVE  LET e == build'.drafts[k].case
               IN e < c + 1 /\ Executed(e) /\ Rank(e) = k
    <3>1. CASE k \in 1..n
      <4>1. \A e \in Case : e < c => e < c + 1
        OBVIOUS
      <4> QED
        BY <2>3, <2>10, <3>1, <4>1
    <3>2. CASE k = n + 1
      BY <2>1, <2>3, <2>5, <3>2
    <3> QED
      BY <2>2, <3>1, <3>2
  <2>9. ASSUME NEW e \in 1..c, Executed(e)
        PROVE  Rank(e) \in 1..(n + 1) /\ build'.drafts[Rank(e)].case = e
    <3>1. CASE e = c
      BY <2>2, <2>3, <2>5, <3>1
    <3>2. CASE e # c
      <4>1. e \in 1..(build.next - 1)
        BY <2>1, <3>2
      <4>2. Rank(e) \in 1..n /\ build.drafts[Rank(e)].case = e
        BY <1>1, <2>1, <2>2, <2>9, <4>1 DEF Drafted
      <4> QED
        BY <2>2, <2>3, <4>2
    <3> QED
      BY <3>1, <3>2
  <2> QED
    BY <1>2, <2>1, <2>3, <2>5, <2>7, <2>8, <2>9, FactsKept DEF Drafted
<1>8. CASE Seal
  <2>1. /\ build.phase # "idle" /\ build'.ids = build.ids /\ build'.next = build.next
        /\ build'.drafts = build.drafts
    BY <1>1, <1>8, SealedType DEF Seal
  <2> QED
    BY <1>1, <1>2, <2>1, DraftedKept
<1>9. CASE WriteRecord
  <2>1. CASE build'.phase = "idle"
    BY <2>1 DEF Drafted
  <2>2. CASE build'.phase # "idle"
    <3>1. build.phase # "idle" /\ build.queue # <<>>
      BY <1>9 DEF WriteRecord
    <3>2. build' = [build EXCEPT !.queue = Tail(@), !.wrote = TRUE]
      BY <1>1, <1>9, <2>2, EndedType DEF WriteRecord
    <3> QED
      BY <1>1, <1>2, <3>1, <3>2, WroteType, DraftedKept
  <2> QED
    BY <2>1, <2>2
<1>10. CASE Finish
    BY <1>1, <1>10, EndedType DEF Finish, Drafted
<1>11. CASE Kill
    BY <1>1, <1>11, EndedType DEF Kill, Drafted
<1> QED
    BY <1>3, <1>4, <1>5, <1>6, <1>7, <1>8, <1>9, <1>10, <1>11 DEF Next

-----------------------------------------------------------------------------
(***************************************************************************)
(* What a write that is not refused does: the head of the queue is on disk, *)
(* the rest moves up by one, and everything else stays.                     *)
(***************************************************************************)
\* The file at the head of the queue is on disk.
WrittenFile(f) ==
    \/ /\ f = [type |-> "manifest"]
       /\ manifest' = ManifestOf(build.drafts) /\ UNCHANGED <<attempt, index>>
    \/ /\ f = ToWrite("attempt", f.draft) /\ f.draft \in Draft
       /\ attempt' = [attempt EXCEPT ![f.draft.id] = AttemptOf(f.draft)]
       /\ UNCHANGED <<manifest, index>>
    \/ /\ f = ToWrite("index", f.draft) /\ f.draft \in Draft
       /\ index' = [index EXCEPT ![f.draft.id] = IndexOf(f.draft)]
       /\ UNCHANGED <<manifest, attempt>>

LEMMA Wrote ==
    ASSUME IndInv, WriteRecord, build'.phase # "idle"
    PROVE  /\ build.phase = "write" /\ Len(build.queue) \in Nat \ {0}
           /\ DOMAIN build.queue = 1..Len(build.queue)
           /\ build.queue[1] \in QueuedFile /\ WrittenFile(build.queue[1])
           /\ build'.phase = "write" /\ build'.readOnly = build.readOnly
           /\ build'.ids = build.ids /\ build'.next = build.next
           /\ build'.drafts = build.drafts /\ build'.digest = build.digest
           /\ Len(build'.queue) = Len(build.queue) - 1
           /\ DOMAIN build'.queue = 1..(Len(build.queue) - 1)
           /\ \A k \in 1..(Len(build.queue) - 1) : build'.queue[k] = build.queue[k + 1]
           /\ UNCHANGED <<inv, compared, sums>>
<1>1. build \in BuildState /\ build.phase = "write" /\ build.queue # <<>>
    BY DEF IndInv, TypeOK, WriteRecord
<1>2. /\ build.queue \in Seq(QueuedFile) /\ Len(build.queue) \in Nat
      /\ DOMAIN build.queue = 1..Len(build.queue)
    BY <1>1, BuildFields
<1>3. /\ Len(build.queue) \in Nat \ {0} /\ Head(build.queue) = build.queue[1]
      /\ Head(build.queue) \in QueuedFile
    BY <1>1, <1>2, EmptySeq, HeadTailProperties
<1>4. build' = [build EXCEPT !.queue = Tail(@), !.wrote = TRUE]
    BY <1>1, EndedType DEF WriteRecord
<1>5. /\ build'.phase = "write" /\ build'.readOnly = build.readOnly
      /\ build'.ids = build.ids /\ build'.next = build.next
      /\ build'.drafts = build.drafts /\ build'.digest = build.digest
      /\ build'.queue = Tail(build.queue)
    BY <1>1, <1>4, WroteType
<1>6. /\ Tail(build.queue) \in Seq(QueuedFile)
      /\ Len(Tail(build.queue)) = Len(build.queue) - 1
      /\ \A k \in 1..Len(Tail(build.queue)) : Tail(build.queue)[k] = build.queue[k + 1]
    BY <1>1, <1>2, HeadTailProperties
<1>7. DOMAIN Tail(build.queue) = 1..(Len(build.queue) - 1)
    BY <1>6, LenProperties
<1>8. UNCHANGED <<inv, compared, sums>>
    BY DEF WriteRecord
<1> DEFINE f == build.queue[1]
<1>9. build' # Ended("refused")
    BY <1>1, EndedType
<1>10. \/ f.type = "manifest" /\ manifest' = ManifestOf(build.drafts) /\ UNCHANGED <<attempt, index>>
       \/ /\ f.type = "attempt"
          /\ attempt' = [attempt EXCEPT ![f.draft.id] = AttemptOf(f.draft)]
          /\ UNCHANGED <<manifest, index>>
       \/ /\ f.type = "index"
          /\ index' = [index EXCEPT ![f.draft.id] = IndexOf(f.draft)]
          /\ UNCHANGED <<manifest, attempt>>
    BY <1>3, <1>9 DEF WriteRecord
<1>11. WrittenFile(f)
    BY <1>3, <1>10, FileIs DEF WrittenFile
<1>12. /\ Len(build'.queue) = Len(build.queue) - 1
       /\ DOMAIN build'.queue = 1..(Len(build.queue) - 1)
       /\ \A k \in 1..(Len(build.queue) - 1) : build'.queue[k] = build.queue[k + 1]
    BY <1>5, <1>6, <1>7
<1>13. f \in QueuedFile /\ Len(build.queue) \in Nat \ {0} /\ DOMAIN build.queue = 1..Len(build.queue)
    BY <1>2, <1>3
<1> QED
    BY <1>1, <1>5, <1>8, <1>11, <1>12, <1>13

\* A file that is queued and not the one being written is queued one place earlier.
LEMMA QueueMoves ==
    ASSUME NEW l \in Nat, NEW file, NEW upto \in 0..l, Queued(file, upto), build.queue[1] # file,
           \A k \in 1..(l - 1) : build'.queue[k] = build.queue[k + 1]
    PROVE  Queued(file, upto - 1)'
<1>1. PICK k \in 1..upto : build.queue[k] = file
    BY DEF Queued
<1>2. k - 1 \in 1..(upto - 1) /\ k - 1 \in 1..(l - 1) /\ k - 1 + 1 = k
    BY <1>1
<1>3. build'.queue[k - 1] = file
    BY <1>1, <1>2
<1>4. \E j \in 1..(upto - 1) : build'.queue[j] = file
    BY <1>2, <1>3
<1> QED
    BY <1>4 DEF Queued

\* No id stands in two drafts.
LEMMA DraftsApart ==
    ASSUME IndInv, build.phase # "idle",
           NEW j \in DOMAIN build.drafts, NEW k \in DOMAIN build.drafts,
           build.drafts[j].id = build.drafts[k].id
    PROVE  j = k
<1>1. PICK ids \in IdLists : GivenOut(ids)
    BY DEF IndInv, Drafted
<1>2. /\ DOMAIN build.drafts = 1..Len(build.drafts) /\ Len(build.drafts) \in Nat
      /\ Len(build.ids) \in Nat
    BY BuildFields DEF IndInv, TypeOK
<1>3. DOMAIN ids = 1..Len(ids) /\ Len(ids) = Len(build.drafts) + Len(build.ids)
    BY <1>1, LenProperties DEF GivenOut
<1>4. j \in DOMAIN ids /\ k \in DOMAIN ids
  <2>1. \A m, l \in Nat : 1..m \subseteq 1..(m + l)
    OBVIOUS
  <2>2. 1..Len(build.drafts) \subseteq 1..(Len(build.drafts) + Len(build.ids))
    BY <1>2, <2>1
  <2>3. DOMAIN build.drafts \subseteq DOMAIN ids
    BY <1>2, <1>3, <2>2
  <2> QED
    BY <2>3
<1>5. ids[j] = ids[k]
    BY <1>1 DEF GivenOut
<1> QED
    BY <1>4, <1>5

LEMMA RecordsKept ==
    ASSUME inv' = inv
    PROVE  /\ \A drafts : ManifestOf(drafts)' = ManifestOf(drafts)
           /\ build'.digest = build.digest =>
                \A d : AttemptOf(d)' = AttemptOf(d) /\ IndexOf(d)' = IndexOf(d)
<1>1. \A drafts : ManifestOf(drafts)' = ManifestOf(drafts)
    BY FactsKept DEF ManifestOf
<1>2. ASSUME build'.digest = build.digest
      PROVE  \A d : AttemptOf(d)' = AttemptOf(d) /\ IndexOf(d)' = IndexOf(d)
    BY <1>2, FactsKept DEF AttemptOf, IndexOf, DigestFor
<1> QED
    BY <1>1, <1>2

-----------------------------------------------------------------------------
(***************************************************************************)
(* Sealing queues every record of every draft, indexes after attempts.      *)
(***************************************************************************)
LEMMA SealWrites == IndInv /\ Seal => Writing'
<1> SUFFICES ASSUME IndInv, Seal PROVE Writing'
    OBVIOUS
<1> DEFINE drafts == build.drafts
           n == Len(drafts)
           m == IF inv.kind = "original" THEN 1 ELSE 0
           queue == WriteQueue(drafts)
<1>1. TypeOK /\ build \in BuildState
    BY DEF IndInv, TypeOK
<1>2. /\ build'.phase = "write" /\ build'.readOnly = build.readOnly
      /\ build'.next = build.next /\ build'.drafts = drafts /\ build'.digest = compared
      /\ build'.queue = queue
    BY <1>1, SealedType DEF Seal
<1>3. /\ UNCHANGED <<inv, compared, evidence>> /\ (~build.readOnly => sums' = compared)
      /\ build.next = N + 1
  <2>1. build.next \in 1..(N + 1) /\ build.next > N
    BY <1>1, BuildFields DEF Seal
  <2>2. build.next = N + 1
    BY <2>1
  <2> QED
    BY <2>2 DEF Seal
<1>4. /\ drafts \in Seq(Draft) /\ DOMAIN drafts = 1..n
      /\ n \in Nat /\ queue \in Seq(QueuedFile) /\ Len(queue) = m + n + n
      /\ inv.kind = "original" => queue[1] = [type |-> "manifest"]
      /\ \A k \in 1..n : queue[m + k] = ToWrite("attempt", drafts[k])
      /\ \A k \in 1..n : queue[m + n + k] = ToWrite("index", drafts[k])
    BY <1>1, BuildFields, QueueIs
<1>5. m \in {0, 1} /\ (inv.kind = "original" <=> m = 1)
    OBVIOUS
<1>6. DOMAIN queue = 1..(m + n + n)
    BY <1>4, LenProperties
<1> HIDE DEF n, m, queue, drafts
<1>7. ASSUME NEW k \in 1..(m + n + n)
      PROVE  \/ m = 1 /\ k = 1
             \/ \E j \in 1..n : k = m + j
             \/ \E j \in 1..n : k = m + n + j
  <2>1. CASE k <= m
    BY <1>5, <2>1
  <2>2. CASE k > m /\ k <= m + n
    <3>1. k - m \in 1..n /\ k = m + (k - m)
      BY <1>4, <1>5, <2>2
    <3> QED
      BY <3>1
  <2>3. CASE k > m + n
    <3>1. k - (m + n) \in 1..n /\ k = m + n + (k - (m + n))
      BY <1>4, <1>5, <2>3
    <3> QED
      BY <3>1
  <2> QED
    BY <1>4, <1>5, <2>1, <2>2, <2>3
<1>8. ASSUME NEW k \in 1..(m + n + n), queue[k].type = "index"
      PROVE  \E j \in 1..n : k = m + n + j
  <2>1. ~(m = 1 /\ k = 1)
    BY <1>4, <1>5, <1>8
  <2>2. \A j \in 1..n : k # m + j
    BY <1>4, <1>8, ToWriteIs
  <2> QED
    BY <1>7, <2>1, <2>2
<1>9. ASSUME NEW k \in 1..(m + n + n), queue[k].type # "manifest"
      PROVE  \E j \in DOMAIN drafts : queue[k].draft = drafts[j]
  <2>1. ~(m = 1 /\ k = 1)
    BY <1>4, <1>5, <1>9
  <2>2. PICK j \in 1..n : k = m + j \/ k = m + n + j
    BY <1>7, <2>1
  <2>3. queue[k].draft = drafts[j]
    BY SMTT(60), <1>4, <2>2, ToWriteIs
  <2> QED
    BY <1>4, <2>3
<1>10. ASSUME NEW k \in 1..(m + n + n), queue[k].type = "index"
       PROVE  /\ \E i \in 1..(k - 1) : queue[i] = ToWrite("attempt", queue[k].draft)
              /\ inv.kind = "original" => \E i \in 1..(k - 1) : queue[i] = [type |-> "manifest"]
  <2>1. PICK j \in 1..n : k = m + n + j
    BY <1>8, <1>10
  <2>2. queue[k].draft = drafts[j]
    BY <1>4, <2>1, ToWriteIs
  <2>3. m + j \in 1..(k - 1) /\ (m = 1 => 1 \in 1..(k - 1))
    BY <1>4, <1>5, <2>1
  <2> QED
    BY <1>4, <1>5, <2>2, <2>3
<1>11. \A j \in 1..n :
         /\ \E i \in 1..(m + n + n) : queue[i] = ToWrite("attempt", drafts[j])
         /\ \E i \in 1..(m + n + n) : queue[i] = ToWrite("index", drafts[j])
  <2>1. \A j \in 1..n : m + j \in 1..(m + n + n) /\ m + n + j \in 1..(m + n + n)
    BY <1>4, <1>5
  <2> QED
    BY <1>4, <2>1
<1>12. inv.kind = "original" => \E i \in 1..(m + n + n) : queue[i] = [type |-> "manifest"]
  <2>1. m = 1 => 1 \in 1..(m + n + n)
    BY <1>4
  <2> QED
    BY <1>4, <1>5, <2>1
<1>13. /\ inv' = inv /\ Len(build'.queue) = m + n + n /\ DOMAIN build'.queue = 1..(m + n + n)
       /\ build'.queue = queue /\ build'.drafts = drafts /\ DOMAIN drafts = 1..n
    BY <1>2, <1>3, <1>4, <1>6 DEF drafts
<1>14. /\ build'.next = N + 1 /\ build'.digest = compared'
       /\ ~build'.readOnly => sums' = compared'
    BY <1>2, <1>3
<1> QED
    BY <1>9, <1>10, <1>11, <1>12, <1>13, <1>14 DEF Writing, Queued

\* A record that is on disk stays there: it is overwritten by another one, never removed.
LEMMA WriteAdds ==
    ASSUME IndInv, WriteRecord
    PROVE  /\ manifest # Absent => manifest' # Absent
           /\ \A i \in Id : attempt[i] # Absent => attempt'[i] # Absent
<1>1. CASE build'.phase = "idle"
  <2>1. UNCHANGED evidence
    <3>1. build.phase = "write" /\ build \in BuildState /\ build.queue # <<>>
      BY DEF IndInv, TypeOK, WriteRecord
    <3>2. build' # [build EXCEPT !.queue = Tail(@), !.wrote = TRUE]
      BY <1>1, <3>1, WroteType
    <3> QED
      BY <3>2 DEF WriteRecord
  <2> QED
    BY <2>1 DEF evidence
<1>2. CASE build'.phase # "idle"
  <2> DEFINE f == build.queue[1]
  <2>1. WrittenFile(f) /\ build.phase = "write"
    BY <1>2, Wrote
  <2>2. TypeOK /\ build.digest \in Listing
    BY <2>1 DEF IndInv, TypeOK, Writing
  <2>3. build.drafts \in Seq(Draft)
    BY <2>2, BuildFields DEF TypeOK
  <2>4. ManifestOf(build.drafts) # Absent
    BY <2>3, ManifestIsWhole DEF Whole
  <2>5. \A d \in Draft : AttemptOf(d) # Absent
    BY <2>2, WrittenIsWhole DEF Whole
  <2>6. attempt \in [Id -> AttemptRecord \cup {Absent, Torn}]
    BY <2>2 DEF TypeOK
  <2> QED
    BY <2>1, <2>4, <2>5, <2>6 DEF WrittenFile
<1> QED
    BY <1>1, <1>2

LEMMA WriteWrites == IndInv /\ WriteRecord => Writing'
<1> SUFFICES ASSUME IndInv, WriteRecord, build'.phase # "idle" PROVE Writing'
    BY DEF Writing
<1>0. PICK f, l, drafts : f = build.queue[1] /\ l = Len(build.queue) /\ drafts = build.drafts
    OBVIOUS
<1>1. TypeOK /\ build \in BuildState /\ build.phase = "write"
    BY Wrote DEF IndInv, TypeOK
<1>2. /\ l \in Nat \ {0} /\ DOMAIN build.queue = 1..l /\ f \in QueuedFile /\ WrittenFile(f)
      /\ build'.phase = "write" /\ build'.readOnly = build.readOnly
      /\ build'.next = build.next /\ build'.drafts = drafts /\ build'.digest = build.digest
      /\ Len(build'.queue) = l - 1 /\ DOMAIN build'.queue = 1..(l - 1)
      /\ \A k \in 1..(l - 1) : build'.queue[k] = build.queue[k + 1]
      /\ UNCHANGED <<inv, compared, sums>>
    BY <1>0, Wrote
<1>3. /\ build.next = N + 1 /\ build.digest = compared
      /\ ~build.readOnly => sums = compared
      /\ \A k \in 1..l :
           /\ build.queue[k].type # "manifest" =>
                \E j \in DOMAIN drafts : build.queue[k].draft = drafts[j]
           /\ build.queue[k].type = "index" =>
                /\ \/ attempt[build.queue[k].draft.id] # Absent
                   \/ Queued(ToWrite("attempt", build.queue[k].draft), k - 1)
                /\ inv.kind = "original" =>
                     manifest # Absent \/ Queued([type |-> "manifest"], k - 1)
  <2>1. /\ build.next = N + 1 /\ build.digest = compared
        /\ ~build.readOnly => sums = compared
        /\ \A k \in DOMAIN build.queue :
             /\ build.queue[k].type # "manifest" =>
                  \E j \in DOMAIN build.drafts : build.queue[k].draft = build.drafts[j]
             /\ build.queue[k].type = "index" =>
                  /\ \/ attempt[build.queue[k].draft.id] # Absent
                     \/ Queued(ToWrite("attempt", build.queue[k].draft), k - 1)
                  /\ inv.kind = "original" =>
                       manifest # Absent \/ Queued([type |-> "manifest"], k - 1)
    BY <1>1 DEF IndInv, Writing
  <2>2. DOMAIN build.queue = 1..l /\ build.drafts = drafts
    BY <1>0, <1>2
  <2> QED
    BY <2>1, <2>2
<1>4. inv.kind = "original" => manifest = ManifestOf(drafts) \/ Queued([type |-> "manifest"], l)
    BY <1>0, <1>1 DEF IndInv, Writing
<1>5. \A j \in DOMAIN drafts :
        /\ attempt[drafts[j].id] = AttemptOf(drafts[j]) \/ Queued(ToWrite("attempt", drafts[j]), l)
        /\ index[drafts[j].id] = IndexOf(drafts[j]) \/ Queued(ToWrite("index", drafts[j]), l)
    BY <1>0, <1>1 DEF IndInv, Writing
<1>6. /\ build.digest \in Listing /\ drafts \in Seq(Draft)
      /\ \A j \in DOMAIN drafts : drafts[j] \in Draft /\ drafts[j].id \in Id
  <2>1. drafts \in Seq(Draft) /\ \A j \in DOMAIN drafts : drafts[j] \in Draft
    BY <1>0, <1>1, BuildFields
  <2>2. \A d \in Draft : d.id \in Id
    BY DEF Draft
  <2> QED
    BY <1>1, <1>3, <2>1, <2>2 DEF TypeOK
<1>7. ManifestOf(drafts) # Absent /\ \A d \in Draft : AttemptOf(d) # Absent
    BY <1>1, <1>6, ManifestIsWhole, WrittenIsWhole DEF Whole
<1>8. attempt \in [Id -> AttemptRecord \cup {Absent, Torn}]
      /\ index \in [Id -> IndexRecord \cup {Absent, Torn}]
    BY <1>1 DEF TypeOK
\* What a later file relies on: its attempt record and the manifest.
<1>9. ASSUME NEW k \in 1..l, NEW j \in DOMAIN drafts, build.queue[k].draft = drafts[j],
             \/ attempt[drafts[j].id] # Absent
             \/ Queued(ToWrite("attempt", drafts[j]), k - 1)
      PROVE  attempt'[drafts[j].id] # Absent \/ Queued(ToWrite("attempt", drafts[j]), k - 2)'
  <2>1. CASE attempt[drafts[j].id] # Absent
    BY <1>6, <2>1, WriteAdds
  <2>2. CASE f = ToWrite("attempt", drafts[j])
    <3>1. attempt' = [attempt EXCEPT ![drafts[j].id] = AttemptOf(drafts[j])]
      BY <1>2, <2>2, ToWriteIs DEF WrittenFile, ToWrite
    <3> QED
      BY <1>6, <1>7, <1>8, <3>1
  <2>3. CASE f # ToWrite("attempt", drafts[j]) /\ Queued(ToWrite("attempt", drafts[j]), k - 1)
    <3>1. k - 1 \in 0..l /\ l \in Nat /\ k - 1 - 1 = k - 2
      BY <1>2
    <3>2. Queued(ToWrite("attempt", drafts[j]), k - 1 - 1)'
      BY <1>2, <2>3, <3>1, <1>0, QueueMoves
    <3> QED
      BY <3>1, <3>2
  <2> QED
    BY <1>9, <2>1, <2>2, <2>3
<1>10. ASSUME NEW k \in 1..l, inv.kind = "original",
              manifest # Absent \/ Queued([type |-> "manifest"], k - 1)
       PROVE  manifest' # Absent \/ Queued([type |-> "manifest"], k - 2)'
  <2>1. CASE manifest # Absent
    BY <2>1, WriteAdds
  <2>2. CASE f = [type |-> "manifest"]
    <3>1. manifest' = ManifestOf(drafts)
      BY <1>0, <1>2, <2>2, ToWriteIs DEF WrittenFile, ToWrite
    <3> QED
      BY <1>7, <3>1
  <2>3. CASE f # [type |-> "manifest"] /\ Queued([type |-> "manifest"], k - 1)
    <3>1. k - 1 \in 0..l /\ l \in Nat /\ k - 1 - 1 = k - 2
      BY <1>2
    <3>2. Queued([type |-> "manifest"], k - 1 - 1)'
      BY <1>2, <2>3, <3>1, <1>0, QueueMoves
    <3> QED
      BY <3>1, <3>2
  <2> QED
    BY <1>10, <2>1, <2>2, <2>3
<1>11. ASSUME NEW k \in 1..(l - 1)
       PROVE  (/\ build.queue[k].type # "manifest" =>
                    \E j \in DOMAIN build.drafts : build.queue[k].draft = build.drafts[j]
               /\ build.queue[k].type = "index" =>
                    /\ \/ attempt[build.queue[k].draft.id] # Absent
                       \/ Queued(ToWrite("attempt", build.queue[k].draft), k - 1)
                    /\ inv.kind = "original" =>
                         manifest # Absent \/ Queued([type |-> "manifest"], k - 1))'
  <2>1. PICK i \in 1..l : i = k + 1 /\ i - 1 = k /\ i - 2 = k - 1
    <3>1. l \in Nat
      BY <1>2
    <3>2. k + 1 \in 1..l /\ k + 1 - 1 = k /\ k + 1 - 2 = k - 1
      BY <3>1
    <3> QED
      BY <3>2
  <2>2. PICK g : g = build.queue[i] /\ g = build'.queue[k]
    BY <1>2, <2>1
  <2>3. g.type # "manifest" => \E j \in DOMAIN drafts : g.draft = drafts[j]
    BY <1>3, <2>2
  <2>4. ASSUME g.type = "index"
        PROVE  attempt'[g.draft.id] # Absent \/ Queued(ToWrite("attempt", g.draft), k - 1)'
    <3>1. PICK j \in DOMAIN drafts : g.draft = drafts[j]
      BY <2>3, <2>4
    <3>2. attempt[drafts[j].id] # Absent \/ Queued(ToWrite("attempt", drafts[j]), i - 1)
      BY <1>3, <2>2, <2>4, <3>1
    <3>3. attempt'[drafts[j].id] # Absent \/ Queued(ToWrite("attempt", drafts[j]), i - 2)'
      BY <1>9, <2>2, <3>1, <3>2
    <3> QED
      BY <2>1, <3>1, <3>3
  <2>5. ASSUME g.type = "index", inv.kind = "original"
        PROVE  manifest' # Absent \/ Queued([type |-> "manifest"], k - 1)'
    <3>1. manifest # Absent \/ Queued([type |-> "manifest"], i - 1)
      BY <1>3, <2>2, <2>5
    <3>2. manifest' # Absent \/ Queued([type |-> "manifest"], i - 2)'
      BY <1>10, <2>5, <3>1
    <3> QED
      BY <2>1, <3>2
  <2>6. inv' = inv /\ build'.drafts = drafts
    BY <1>2
  <2> QED
    BY <2>2, <2>3, <2>4, <2>5, <2>6
<1>12. ASSUME inv.kind = "original"
       PROVE  manifest' = ManifestOf(drafts) \/ Queued([type |-> "manifest"], l - 1)'
  <2>1. CASE f = [type |-> "manifest"]
    BY <1>0, <1>2, <2>1, ToWriteIs DEF WrittenFile, ToWrite
  <2>2. CASE f # [type |-> "manifest"] /\ manifest = ManifestOf(drafts)
    BY <1>2, <2>2 DEF WrittenFile
  <2>3. CASE f # [type |-> "manifest"] /\ Queued([type |-> "manifest"], l)
    <3>1. l \in 0..l /\ l \in Nat
      BY <1>2
    <3> QED
      BY <1>2, <2>3, <3>1, <1>0, QueueMoves
  <2> QED
    BY <1>4, <1>12, <2>1, <2>2, <2>3
<1>13. ASSUME NEW j \in DOMAIN drafts
       PROVE  \/ attempt'[drafts[j].id] = AttemptOf(drafts[j])
              \/ Queued(ToWrite("attempt", drafts[j]), l - 1)'
  <2>1. CASE f = ToWrite("attempt", drafts[j])
    <3>1. attempt' = [attempt EXCEPT ![drafts[j].id] = AttemptOf(drafts[j])]
      BY <1>2, <2>1, ToWriteIs DEF WrittenFile, ToWrite
    <3> QED
      BY <1>6, <1>8, <3>1
  <2>2. CASE f # ToWrite("attempt", drafts[j]) /\ attempt[drafts[j].id] = AttemptOf(drafts[j])
    <3>1. CASE f.type # "attempt"
      <4>1. attempt' = attempt
        BY <1>2, <3>1, ToWriteIs DEF WrittenFile
      <4> QED
        BY <2>2, <4>1
    <3>2. CASE f.type = "attempt"
      <4>1. f = ToWrite("attempt", f.draft) /\ f.draft \in Draft
            /\ attempt' = [attempt EXCEPT ![f.draft.id] = AttemptOf(f.draft)]
        BY <1>2, <3>2, ToWriteIs DEF WrittenFile
      <4>2. PICK k \in DOMAIN drafts : f.draft = drafts[k]
        <5>1. 1 \in 1..l /\ build.queue[1].type # "manifest"
          BY <1>0, <1>2, <3>2
        <5> QED
          BY <1>0, <1>3, <5>1
      <4>3. k # j
        BY <2>2, <4>1, <4>2
      <4>4. drafts[k].id # drafts[j].id
        BY <1>0, <1>1, <4>3, DraftsApart
      <4> QED
        BY <1>6, <1>8, <2>2, <4>1, <4>2, <4>4
    <3> QED
      BY <3>1, <3>2
  <2>3. CASE f # ToWrite("attempt", drafts[j]) /\ Queued(ToWrite("attempt", drafts[j]), l)
    <3>1. l \in 0..l /\ l \in Nat
      BY <1>2
    <3> QED
      BY <1>2, <2>3, <3>1, <1>0, QueueMoves
  <2> QED
    BY <1>5, <2>1, <2>2, <2>3
<1>14. ASSUME NEW j \in DOMAIN drafts
       PROVE  \/ index'[drafts[j].id] = IndexOf(drafts[j])
              \/ Queued(ToWrite("index", drafts[j]), l - 1)'
  <2>1. CASE f = ToWrite("index", drafts[j])
    <3>1. index' = [index EXCEPT ![drafts[j].id] = IndexOf(drafts[j])]
      BY <1>2, <2>1, ToWriteIs DEF WrittenFile, ToWrite
    <3> QED
      BY <1>6, <1>8, <3>1
  <2>2. CASE f # ToWrite("index", drafts[j]) /\ index[drafts[j].id] = IndexOf(drafts[j])
    <3>1. CASE f.type # "index"
      <4>1. index' = index
        BY <1>2, <3>1, ToWriteIs DEF WrittenFile
      <4> QED
        BY <2>2, <4>1
    <3>2. CASE f.type = "index"
      <4>1. f = ToWrite("index", f.draft) /\ f.draft \in Draft
            /\ index' = [index EXCEPT ![f.draft.id] = IndexOf(f.draft)]
        BY <1>2, <3>2, ToWriteIs DEF WrittenFile
      <4>2. PICK k \in DOMAIN drafts : f.draft = drafts[k]
        <5>1. 1 \in 1..l /\ build.queue[1].type # "manifest"
          BY <1>0, <1>2, <3>2
        <5> QED
          BY <1>0, <1>3, <5>1
      <4>3. k # j
        BY <2>2, <4>1, <4>2
      <4>4. drafts[k].id # drafts[j].id
        BY <1>0, <1>1, <4>3, DraftsApart
      <4> QED
        BY <1>6, <1>8, <2>2, <4>1, <4>2, <4>4
    <3> QED
      BY <3>1, <3>2
  <2>3. CASE f # ToWrite("index", drafts[j]) /\ Queued(ToWrite("index", drafts[j]), l)
    <3>1. l \in 0..l /\ l \in Nat
      BY <1>2
    <3> QED
      BY <1>2, <2>3, <3>1, <1>0, QueueMoves
  <2> QED
    BY <1>5, <2>1, <2>2, <2>3
<1>15. /\ inv' = inv /\ ManifestOf(drafts)' = ManifestOf(drafts)
       /\ \A j : AttemptOf(drafts[j])' = AttemptOf(drafts[j]) /\ IndexOf(drafts[j])' = IndexOf(drafts[j])
    BY <1>2, RecordsKept
<1>16. /\ build'.next = N + 1 /\ build'.digest = compared'
       /\ ~build'.readOnly => sums' = compared'
       /\ DOMAIN build'.queue = 1..(l - 1) /\ Len(build'.queue) = l - 1
       /\ build'.drafts = drafts
    BY <1>2, <1>3
<1> QED
    BY <1>11, <1>12, <1>13, <1>14, <1>15, <1>16 DEF Writing

LEMMA StepWriting == IndInv /\ [Next]_vars => Writing'
<1> SUFFICES ASSUME IndInv, [Next]_vars PROVE Writing'
    OBVIOUS
<1>1. build \in BuildState /\ Writing
    BY DEF IndInv, TypeOK
<1>2. CASE UNCHANGED vars
  <2>1. \A file, upto : Queued(file, upto)' = Queued(file, upto)
    BY <1>2 DEF vars, Queued
  <2>2. inv' = inv /\ build' = build
    BY <1>2 DEF vars
  <2>3. /\ \A drafts : ManifestOf(drafts)' = ManifestOf(drafts)
        /\ \A d : AttemptOf(d)' = AttemptOf(d) /\ IndexOf(d)' = IndexOf(d)
    BY SMTT(60), <2>2, RecordsKept
  <2> QED
    BY <1>1, <1>2, <2>1, <2>2, <2>3 DEF Writing, vars
<1>3. ASSUME NEW ids \in IdLists, NEW readOnly \in BOOLEAN, Start(ids, readOnly) PROVE Writing'
    BY <1>3, StartedType DEF Start, Writing
<1>4. ASSUME NEW c \in Case, PassOverCase(c) PROVE Writing'
    BY <1>1, <1>4, AdvancedType DEF PassOverCase, AtCase, Writing
<1>5. ASSUME NEW c \in Case, RefuseCase(c) PROVE Writing'
    BY <1>1, <1>5, EndedType DEF RefuseCase, Writing
<1>6. ASSUME NEW c \in Case, BuildCase(c) PROVE Writing'
    BY <1>1, <1>6, DraftedType DEF BuildCase, AtCase, Writing
<1>7. CASE Finish
    BY SMTT(60), <1>1, <1>7, EndedType DEF Finish, Writing
<1>8. CASE Kill
    BY <1>1, <1>8, EndedType DEF Kill, Writing
<1> QED
    BY <1>2, <1>3, <1>4, <1>5, <1>6, <1>7, <1>8, SealWrites, WriteWrites DEF Next

-----------------------------------------------------------------------------
(***************************************************************************)
(* What is on disk.                                                         *)
(***************************************************************************)
\* A drafted id is the one its case has in the list of ids.
LEMMA DraftGives ==
    ASSUME IndInv, build.phase # "idle", NEW j \in DOMAIN build.drafts
    PROVE  LET d == build.drafts[j]
           IN d.case \in Case /\ d.id \in Id /\ \E ids \in IdLists : Gives(ids, d.case, d.id)
<1>1. PICK ids \in IdLists : GivenOut(ids)
    BY DEF IndInv, Drafted
<1>2. /\ DOMAIN build.drafts = 1..Len(build.drafts) /\ Len(build.drafts) \in Nat
      /\ Len(build.ids) \in Nat /\ build.drafts[j] \in Draft
    BY BuildFields DEF IndInv, TypeOK
<1>3. DOMAIN ids = 1..Len(ids) /\ Len(ids) = Len(build.drafts) + Len(build.ids)
    BY <1>1, LenProperties DEF GivenOut
<1>4. j \in DOMAIN ids
  <2>1. \A m, l \in Nat : 1..m \subseteq 1..(m + l)
    OBVIOUS
  <2>2. 1..Len(build.drafts) \subseteq 1..(Len(build.drafts) + Len(build.ids))
    BY <1>2, <2>1
  <2> QED
    BY <1>2, <1>3, <2>2
<1>5. Executed(build.drafts[j].case) /\ Rank(build.drafts[j].case) = j
    BY DEF IndInv, Drafted
<1>6. ids[j] = build.drafts[j].id
    BY <1>1 DEF GivenOut
<1>7. Gives(ids, build.drafts[j].case, build.drafts[j].id)
    BY <1>4, <1>5, <1>6 DEF Gives
<1> QED
    BY <1>2, <1>7 DEF Draft

\* The file at the head of the queue is of a draft, and its attempt and manifest were first.
LEMMA HeadIsDrafted ==
    ASSUME IndInv, build.phase = "write", build.queue # <<>>
    PROVE  /\ Head(build.queue) = build.queue[1] /\ Head(build.queue) \in QueuedFile
           /\ Head(build.queue).type # "manifest" =>
                \E j \in DOMAIN build.drafts : Head(build.queue).draft = build.drafts[j]
           /\ Head(build.queue).type = "index" =>
                /\ attempt[Head(build.queue).draft.id] # Absent
                /\ inv.kind = "original" => manifest # Absent
<1>1. build.queue \in Seq(QueuedFile) /\ DOMAIN build.queue = 1..Len(build.queue)
    BY BuildFields DEF IndInv, TypeOK
<1>2. /\ Len(build.queue) \in Nat \ {0} /\ Head(build.queue) = build.queue[1]
      /\ Head(build.queue) \in QueuedFile
    BY <1>1, EmptySeq, HeadTailProperties
<1>3. 1 \in DOMAIN build.queue
    BY <1>1, <1>2
<1>4. \A file : ~Queued(file, 1 - 1)
    BY DEF Queued
<1>5. /\ build.queue[1].type # "manifest" =>
           \E j \in DOMAIN build.drafts : build.queue[1].draft = build.drafts[j]
      /\ build.queue[1].type = "index" =>
           /\ \/ attempt[build.queue[1].draft.id] # Absent
              \/ Queued(ToWrite("attempt", build.queue[1].draft), 1 - 1)
           /\ inv.kind = "original" =>
                manifest # Absent \/ Queued([type |-> "manifest"], 1 - 1)
    BY <1>3 DEF IndInv, Writing
<1> QED
    BY <1>2, <1>4, <1>5

\* What OnDisk says of an attempt, of an index, of the manifest.
AttemptOnDisk(i) ==
    attempt[i] # Absent =>
        \E c \in Case :
            /\ \E ids \in IdLists : Gives(ids, c, i)
            /\ Whole(attempt[i]) =>
                 /\ attempt[i].case = c /\ attempt[i].outcome = Outcome(c)
                 /\ attempt[i].status = Evidence(c) /\ attempt[i].late = Input(c).late
IndexOnDisk(i) ==
    index[i] # Absent => \E c \in Case : \E ids \in IdLists : Gives(ids, c, i)
ManifestOnDisk ==
    Whole(manifest) =>
        /\ manifest.verdict = Verdict
        /\ \A c \in Case : Executed(c) => manifest.cases[c] # {}

LEMMA OnDiskParts ==
    /\ OnDisk <=> /\ \A i \in Id : AttemptOnDisk(i) /\ IndexOnDisk(i)
                  /\ ManifestOnDisk
    /\ OnDisk' <=> /\ \A i \in Id : AttemptOnDisk(i)' /\ IndexOnDisk(i)'
                   /\ ManifestOnDisk'
    BY DEF OnDisk, AttemptOnDisk, IndexOnDisk, ManifestOnDisk

LEMMA OnDiskKept ==
    ASSUME OnDisk, inv' = inv
    PROVE  /\ \A i \in Id : attempt'[i] = attempt[i] \/ attempt'[i] = Absent => AttemptOnDisk(i)'
           /\ \A i \in Id : index'[i] = index[i] \/ index'[i] = Absent => IndexOnDisk(i)'
           /\ manifest' = manifest \/ manifest' = Torn => ManifestOnDisk'
<1>1. \A i \in Id : attempt'[i] = attempt[i] \/ attempt'[i] = Absent => AttemptOnDisk(i)'
  <2> SUFFICES ASSUME NEW i \in Id, attempt'[i] = attempt[i] \/ attempt'[i] = Absent
               PROVE  AttemptOnDisk(i)'
    OBVIOUS
  <2>1. AttemptOnDisk(i)
    BY OnDiskParts
  <2> QED
    BY <2>1, FactsKept DEF AttemptOnDisk, Whole
<1>2. \A i \in Id : index'[i] = index[i] \/ index'[i] = Absent => IndexOnDisk(i)'
  <2> SUFFICES ASSUME NEW i \in Id, index'[i] = index[i] \/ index'[i] = Absent
               PROVE  IndexOnDisk(i)'
    OBVIOUS
  <2>1. IndexOnDisk(i)
    BY OnDiskParts
  <2> QED
    BY <2>1, FactsKept DEF IndexOnDisk
<1>3. manifest' = manifest \/ manifest' = Torn => ManifestOnDisk'
    BY OnDiskParts, FactsKept DEF ManifestOnDisk, Whole
<1> QED
    BY <1>1, <1>2, <1>3

\* A whole manifest written at the end of a build names an attempt of every executed case.
LEMMA ManifestNames ==
    ASSUME IndInv, build.phase = "write"
    PROVE  /\ ManifestOf(build.drafts).verdict = Verdict
           /\ \A c \in Case : Executed(c) => ManifestOf(build.drafts).cases[c] # {}
<1>1. ManifestOf(build.drafts).verdict = Verdict
    BY DEF ManifestOf
<1>2. ASSUME NEW c \in Case, Executed(c) PROVE ManifestOf(build.drafts).cases[c] # {}
  <2>1. build.next = N + 1 /\ N + 1 - 1 = N
    BY DEF IndInv, Writing
  <2>2. Rank(c) \in DOMAIN build.drafts /\ build.drafts[Rank(c)].case = c
    BY <1>2, <2>1 DEF IndInv, Drafted
  <2>3. PICK k \in DOMAIN build.drafts : build.drafts[k].case = c
    BY <2>2
  <2>4. build.drafts[k].id \in {build.drafts[j].id :
                                  j \in {i \in DOMAIN build.drafts : build.drafts[i].case = c}}
    BY <2>3
  <2> QED
    BY <2>4 DEF ManifestOf
<1> QED
    BY <1>1, <1>2

LEMMA WriteOnDisk == IndInv /\ WriteRecord => OnDisk'
<1> SUFFICES ASSUME IndInv, WriteRecord PROVE OnDisk'
    OBVIOUS
<1>1. TypeOK /\ OnDisk /\ build.phase = "write" /\ inv' = inv
    BY DEF IndInv, WriteRecord
<1>2. CASE UNCHANGED evidence
    BY <1>1, <1>2, OnDiskKept, OnDiskParts DEF evidence
<1>3. CASE ~UNCHANGED evidence
  <2>1. build'.phase # "idle"
    <3>1. build' = [build EXCEPT !.queue = Tail(@), !.wrote = TRUE] /\ build.queue # <<>>
      BY <1>3 DEF WriteRecord
    <3> QED
      BY <1>1, <3>1, WroteType DEF TypeOK
  <2>2. PICK f : f = build.queue[1] /\ f = Head(build.queue) /\ WrittenFile(f)
    <3>1. build.queue # <<>>
      BY DEF WriteRecord
    <3> QED
      BY <1>1, <2>1, <3>1, Wrote, HeadIsDrafted
  <2>3. build.digest \in Listing
    BY <1>1 DEF IndInv, TypeOK, Writing
  <2>4. f.type # "manifest" =>
          \E j \in DOMAIN build.drafts : f.draft = build.drafts[j]
    BY <1>1, <2>2, HeadIsDrafted DEF WriteRecord
  <2>5. CASE f = [type |-> "manifest"]
    <3>1. manifest' = ManifestOf(build.drafts) /\ UNCHANGED <<attempt, index>>
      BY <2>2, <2>5, ToWriteIs DEF WrittenFile, ToWrite
    <3>2. ManifestOnDisk'
      BY <1>1, <3>1, ManifestNames, FactsKept DEF ManifestOnDisk
    <3> QED
      BY <1>1, <3>1, <3>2, OnDiskKept, OnDiskParts
  <2>6. CASE f = ToWrite("attempt", f.draft) /\ f.draft \in Draft
    <3>1. /\ attempt' = [attempt EXCEPT ![f.draft.id] = AttemptOf(f.draft)]
          /\ UNCHANGED <<manifest, index>> /\ f.type = "attempt"
      BY <2>2, <2>6, ToWriteIs DEF WrittenFile, ToWrite
    <3>2. PICK d : d = f.draft /\ d.case \in Case /\ d.id \in Id
                   /\ \E ids \in IdLists : Gives(ids, d.case, d.id)
      BY <1>1, <2>4, <3>1, DraftGives
    <3>3. attempt \in [Id -> AttemptRecord \cup {Absent, Torn}]
      BY <1>1 DEF TypeOK
    <3>4. attempt'[d.id] = AttemptOf(d) /\ \A i \in Id \ {d.id} : attempt'[i] = attempt[i]
      BY <3>1, <3>2, <3>3
    <3>5. AttemptOnDisk(d.id)'
      <4>1. /\ attempt'[d.id].case = d.case /\ attempt'[d.id].outcome = Outcome(d.case)
            /\ attempt'[d.id].status = Evidence(d.case) /\ attempt'[d.id].late = Input(d.case).late
        BY <3>4 DEF AttemptOf
      <4> QED
        BY <1>1, <3>2, <4>1, FactsKept DEF AttemptOnDisk
    <3> QED
      BY <1>1, <3>1, <3>4, <3>5, OnDiskKept, OnDiskParts
  <2>7. CASE f = ToWrite("index", f.draft) /\ f.draft \in Draft
    <3>1. /\ index' = [index EXCEPT ![f.draft.id] = IndexOf(f.draft)]
          /\ UNCHANGED <<manifest, attempt>> /\ f.type = "index"
      BY <2>2, <2>7, ToWriteIs DEF WrittenFile, ToWrite
    <3>2. PICK d : d = f.draft /\ d.case \in Case /\ d.id \in Id
                   /\ \E ids \in IdLists : Gives(ids, d.case, d.id)
      BY <1>1, <2>4, <3>1, DraftGives
    <3>3. index \in [Id -> IndexRecord \cup {Absent, Torn}]
      BY <1>1 DEF TypeOK
    <3>4. \A i \in Id \ {d.id} : index'[i] = index[i]
      BY <3>1, <3>2, <3>3
    <3>5. IndexOnDisk(d.id)'
      BY <1>1, <3>2, FactsKept DEF IndexOnDisk
    <3> QED
      BY <1>1, <3>1, <3>4, <3>5, OnDiskKept, OnDiskParts
  <2> QED
    BY <2>2, <2>5, <2>6, <2>7 DEF WrittenFile
<1> QED
    BY <1>2, <1>3

LEMMA KillOnDisk == IndInv /\ Kill => OnDisk'
<1> SUFFICES ASSUME IndInv, Kill PROVE OnDisk'
    OBVIOUS
<1>1. TypeOK /\ OnDisk /\ inv' = inv
    BY DEF IndInv, Kill
<1>2. CASE UNCHANGED evidence
    BY <1>1, <1>2, OnDiskKept, OnDiskParts DEF evidence
<1>3. CASE ~UNCHANGED evidence
  <2>1. PICK f : /\ f = Head(build.queue) /\ build.phase = "write" /\ build.queue # <<>>
                 /\ \/ f.type = "manifest" /\ manifest' = Torn /\ UNCHANGED <<attempt, index>>
                    \/ /\ f.type = "attempt" /\ attempt' = [attempt EXCEPT ![f.draft.id] = Torn]
                       /\ UNCHANGED <<manifest, index>>
                    \/ /\ f.type = "index" /\ index' = [index EXCEPT ![f.draft.id] = Torn]
                       /\ UNCHANGED <<manifest, attempt>>
    BY <1>3 DEF Kill
  <2>2. f.type # "manifest" =>
          \E j \in DOMAIN build.drafts : f.draft = build.drafts[j]
    BY <2>1, HeadIsDrafted
  <2>3. CASE f.type = "manifest"
    BY <1>1, <2>1, <2>3, OnDiskKept, OnDiskParts
  <2>4. CASE f.type = "attempt"
    <3>1. attempt' = [attempt EXCEPT ![f.draft.id] = Torn] /\ UNCHANGED <<manifest, index>>
      BY <2>1, <2>4
    <3>2. PICK d : d = f.draft /\ d.case \in Case /\ d.id \in Id
                   /\ \E ids \in IdLists : Gives(ids, d.case, d.id)
      BY <2>1, <2>2, <2>4, DraftGives
    <3>3. attempt \in [Id -> AttemptRecord \cup {Absent, Torn}]
      BY <1>1 DEF TypeOK
    <3>4. attempt'[d.id] = Torn /\ \A i \in Id \ {d.id} : attempt'[i] = attempt[i]
      BY <3>1, <3>2, <3>3
    <3>5. AttemptOnDisk(d.id)'
      BY <1>1, <3>2, <3>4, FactsKept DEF AttemptOnDisk, Whole
    <3> QED
      BY <1>1, <3>1, <3>4, <3>5, OnDiskKept, OnDiskParts
  <2>5. CASE f.type = "index"
    <3>1. index' = [index EXCEPT ![f.draft.id] = Torn] /\ UNCHANGED <<manifest, attempt>>
      BY <2>1, <2>5
    <3>2. PICK d : d = f.draft /\ d.case \in Case /\ d.id \in Id
                   /\ \E ids \in IdLists : Gives(ids, d.case, d.id)
      BY <2>1, <2>2, <2>5, DraftGives
    <3>3. index \in [Id -> IndexRecord \cup {Absent, Torn}]
      BY <1>1 DEF TypeOK
    <3>4. \A i \in Id \ {d.id} : index'[i] = index[i]
      BY <3>1, <3>2, <3>3
    <3>5. IndexOnDisk(d.id)'
      BY <1>1, <3>2, FactsKept DEF IndexOnDisk
    <3> QED
      BY <1>1, <3>1, <3>4, <3>5, OnDiskKept, OnDiskParts
  <2> QED
    BY <2>1, <2>3, <2>4, <2>5
<1> QED
    BY <1>2, <1>3

LEMMA StepOnDisk == IndInv /\ [Next]_vars => OnDisk'
<1> SUFFICES ASSUME IndInv, [Next]_vars PROVE OnDisk'
    OBVIOUS
<1>1. OnDisk /\ inv' = inv
    BY InvKept DEF IndInv
<1>2. UNCHANGED evidence \/ WriteRecord \/ Kill
    BY DEF Next, vars, Start, PassOverCase, RefuseCase, BuildCase, Seal, Finish, evidence
<1>3. CASE UNCHANGED evidence
    BY <1>1, <1>3, OnDiskKept, OnDiskParts DEF evidence
<1> QED
    BY <1>2, <1>3, WriteOnDisk, KillOnDisk

-----------------------------------------------------------------------------
(***************************************************************************)
(* An index is written, or torn, only when what it rests on is there.       *)
(***************************************************************************)
LEMMA KillAdds ==
    ASSUME IndInv, Kill
    PROVE  /\ manifest # Absent => manifest' # Absent
           /\ \A i \in Id : attempt[i] # Absent => attempt'[i] # Absent
    BY DEF Kill, IndInv, TypeOK, evidence

\* The ids whose index comes to be in a step: only that of the file at the head of the queue.
LEMMA NewIndex ==
    ASSUME IndInv, [Next]_vars, NEW i \in Id, index[i] = Absent, index'[i] # Absent
    PROVE  /\ WriteRecord \/ Kill
           /\ build.phase = "write" /\ build.queue # <<>>
           /\ Head(build.queue).type = "index" /\ Head(build.queue).draft.id = i
<1>1. index \in [Id -> IndexRecord \cup {Absent, Torn}]
    BY DEF IndInv, TypeOK
<1>2. WriteRecord \/ Kill
    BY DEF Next, vars, Start, PassOverCase, RefuseCase, BuildCase, Seal, Finish, evidence
<1>3. CASE WriteRecord
    BY <1>1, <1>3 DEF WriteRecord, evidence
<1>4. CASE Kill
    BY <1>1, <1>4 DEF Kill, evidence
<1> QED
    BY <1>2, <1>3, <1>4

LEMMA StepIndexLast == IndInv /\ [Next]_vars => IndexComesLast'
<1> SUFFICES ASSUME IndInv, [Next]_vars, NEW i \in Id, index'[i] # Absent
             PROVE  attempt'[i] # Absent /\ (inv'.kind = "original" => manifest' # Absent)
    BY DEF IndexComesLast
<1>1. inv' = inv
    BY InvKept
<1>2. attempt[i] # Absent /\ (inv.kind = "original" => manifest # Absent)
  <2>1. CASE index[i] # Absent
    BY <2>1 DEF IndInv, IndexComesLast
  <2>2. CASE index[i] = Absent
    BY <2>2, NewIndex, HeadIsDrafted
  <2> QED
    BY <2>1, <2>2
<1>3. /\ manifest # Absent => manifest' # Absent
      /\ attempt[i] # Absent => attempt'[i] # Absent
  <2>1. UNCHANGED evidence \/ WriteRecord \/ Kill
    BY DEF Next, vars, Start, PassOverCase, RefuseCase, BuildCase, Seal, Finish, evidence
  <2> QED
    BY <2>1, WriteAdds, KillAdds DEF evidence
<1> QED
    BY <1>1, <1>2, <1>3

-----------------------------------------------------------------------------
(***************************************************************************)
(* When the queue is empty everything drafted is on disk, and every case    *)
(* that was executed is drafted.                                            *)
(***************************************************************************)
LEMMA FinishLeaves ==
    ASSUME IndInv, build.phase = "write", build.queue = <<>>, NEW ids \in IdLists, GivenOut(ids)
    PROVE  LeftBy(ids)
<1>1. /\ build.next = N + 1 /\ N + 1 - 1 = N /\ build.digest = compared
      /\ Len(build.queue) = 0
    BY DEF IndInv, Writing
<1>2. \A file : ~Queued(file, 0)
    BY DEF Queued
<1>3. /\ inv.kind = "original" => manifest = ManifestOf(build.drafts)
      /\ \A j \in DOMAIN build.drafts :
           /\ attempt[build.drafts[j].id] = AttemptOf(build.drafts[j])
           /\ index[build.drafts[j].id] = IndexOf(build.drafts[j])
    BY <1>1, <1>2 DEF IndInv, Writing
<1>4. TypeOK /\ build.digest \in Listing
    BY <1>1 DEF IndInv, TypeOK
<1>5. /\ DOMAIN build.drafts = 1..Len(build.drafts) /\ Len(build.drafts) \in Nat
      /\ Len(build.ids) \in Nat /\ \A j \in DOMAIN build.drafts : build.drafts[j] \in Draft
    BY <1>4, BuildFields DEF TypeOK
<1>6. DOMAIN ids = 1..Len(ids) /\ Len(ids) = Len(build.drafts) + Len(build.ids)
    BY LenProperties DEF GivenOut
<1>7. DOMAIN build.drafts \subseteq DOMAIN ids
  <2>1. \A m, l \in Nat : 1..m \subseteq 1..(m + l)
    OBVIOUS
  <2>2. 1..Len(build.drafts) \subseteq 1..(Len(build.drafts) + Len(build.ids))
    BY <1>5, <2>1
  <2> QED
    BY <1>5, <1>6, <2>2
<1>8. \A j \in DOMAIN build.drafts :
        Executed(build.drafts[j].case) /\ Rank(build.drafts[j].case) = j
    BY DEF IndInv, Drafted
<1>9. \A c \in Case : Executed(c) =>
        Rank(c) \in DOMAIN build.drafts /\ build.drafts[Rank(c)].case = c
    BY <1>1 DEF IndInv, Drafted
<1>10. \A j \in DOMAIN build.drafts : build.drafts[j].id = ids[j]
    BY DEF GivenOut
<1>11. ASSUME NEW c \in Case, inv.kind = "original"
       PROVE  manifest.cases[c] = {i \in Id : Gives(ids, c, i)}
  <2> DEFINE own == {build.drafts[k].id :
                       k \in {j \in DOMAIN build.drafts : build.drafts[j].case = c}}
  <2>1. manifest.cases[c] = own
    BY <1>3, <1>11 DEF ManifestOf
  <2>2. ASSUME NEW i \in own PROVE i \in Id /\ Gives(ids, c, i)
    <3>1. PICK k \in DOMAIN build.drafts : build.drafts[k].case = c /\ build.drafts[k].id = i
      BY <2>2
    <3>2. Executed(c) /\ Rank(c) = k /\ k \in DOMAIN ids /\ ids[k] = i
      BY <1>7, <1>8, <1>10, <3>1
    <3>3. i \in Id
      BY <1>5, <3>1 DEF Draft
    <3> QED
      BY <3>2, <3>3 DEF Gives
  <2>3. ASSUME NEW i \in Id, Gives(ids, c, i) PROVE i \in own
    <3>1. PICK k \in DOMAIN build.drafts : k = Rank(c) /\ build.drafts[k].case = c
      BY <1>9, <2>3 DEF Gives
    <3>2. build.drafts[k].id = i
      BY <1>10, <2>3, <3>1 DEF Gives
    <3> QED
      BY <3>1, <3>2
  <2> QED
    BY <2>1, <2>2, <2>3
<1>12. ASSUME NEW c \in Case, Executed(c)
       PROVE  LET i == ids[Rank(c)]
              IN /\ Rank(c) \in DOMAIN ids
                 /\ Whole(attempt[i]) /\ attempt[i].case = c /\ attempt[i].digest = compared
                 /\ Whole(index[i]) /\ index[i].case = c /\ index[i].total = compared
                 /\ index[i].class = RetentionClass(inv.kind, Outcome(c))
  <2>1. PICK k \in DOMAIN build.drafts : k = Rank(c) /\ build.drafts[k].case = c
    BY <1>9, <1>12
  <2>2. PICK d \in Draft : d = build.drafts[k] /\ d.case = c /\ d.id = ids[k]
    BY <1>5, <1>10, <2>1
  <2>3. attempt[d.id] = AttemptOf(d) /\ index[d.id] = IndexOf(d)
    BY <1>3, <2>1, <2>2
  <2>4. Whole(AttemptOf(d)) /\ Whole(IndexOf(d))
    BY <1>4, WrittenIsWhole
  <2>5. /\ AttemptOf(d).case = c /\ AttemptOf(d).digest = compared
        /\ IndexOf(d).case = c /\ IndexOf(d).total = compared
        /\ IndexOf(d).class = RetentionClass(inv.kind, Outcome(c))
    BY <1>1, <2>2 DEF AttemptOf, IndexOf, DigestFor
  <2>6. Rank(c) \in DOMAIN ids
    BY <1>7, <2>1
  <2> QED
    BY <2>1, <2>2, <2>3, <2>4, <2>5, <2>6
<1> QED
    BY <1>11, <1>12 DEF LeftBy

LEMMA LeftByKept ==
    ASSUME UNCHANGED <<inv, compared, evidence>>
    PROVE  \A ids : LeftBy(ids)' = LeftBy(ids)
    BY FactsKept DEF LeftBy, evidence, Whole

LEMMA StepFinished == IndInv /\ [Next]_vars => Finished'
<1> SUFFICES ASSUME IndInv, [Next]_vars, Done' PROVE Finished'
    BY DEF Finished
<1>1. TypeOK /\ build \in BuildState /\ Finished
    BY DEF IndInv, TypeOK
<1>2. CASE UNCHANGED vars
  <2>1. UNCHANGED <<inv, compared, evidence, sums, build>>
    BY <1>2 DEF vars, evidence
  <2>2. \A ids : LeftBy(ids)' = LeftBy(ids)
    BY <2>1, LeftByKept
  <2> QED
    BY <1>1, <2>1, <2>2 DEF Finished, Done, Whole, evidence
<1>3. ASSUME NEW ids \in IdLists, NEW readOnly \in BOOLEAN, Start(ids, readOnly) PROVE FALSE
    BY <1>3, StartedType DEF Start, Done
<1>4. ASSUME NEW c \in Case, PassOverCase(c) PROVE FALSE
    BY <1>1, <1>4, AdvancedType DEF PassOverCase, AtCase, Done
<1>5. ASSUME NEW c \in Case, RefuseCase(c) PROVE FALSE
    BY <1>1, <1>5, EndedType DEF RefuseCase, Done
<1>6. ASSUME NEW c \in Case, BuildCase(c) PROVE FALSE
    BY <1>1, <1>6, DraftedType DEF BuildCase, AtCase, Done
<1>7. CASE Seal
    BY <1>1, <1>7, SealedType DEF Seal, Done
<1>8. CASE WriteRecord
  <2>1. build.phase = "write" /\ build.queue # <<>>
    BY <1>8 DEF WriteRecord
  <2>2. build' = [build EXCEPT !.queue = Tail(@), !.wrote = TRUE] \/ build' = Ended("refused")
    BY <1>8 DEF WriteRecord
  <2> QED
    BY <1>1, <2>1, <2>2, WroteType, EndedType DEF Done
<1>9. CASE Finish
  <2>1. build.phase = "write" /\ build.queue = <<>> /\ UNCHANGED <<inv, compared, sums, evidence>>
    BY <1>9 DEF Finish
  <2>2. build'.readOnly = build.readOnly
    BY <1>1, <1>9, EndedType DEF Finish
  <2>3. PICK ids \in IdLists : GivenOut(ids)
    BY <2>1 DEF IndInv, Drafted
  <2>4. LeftBy(ids)'
    BY <2>1, <2>3, FinishLeaves, LeftByKept
  <2>5. ~build'.readOnly => sums' = compared'
    BY <2>1, <2>2 DEF IndInv, Writing
  <2>6. inv'.kind = "original" => Whole(manifest)'
    <3>1. \A file : ~Queued(file, Len(build.queue))
      BY <2>1 DEF Queued
    <3>2. inv.kind = "original" => manifest = ManifestOf(build.drafts)
      BY <2>1, <3>1 DEF IndInv, Writing
    <3>3. build.drafts \in Seq(Draft)
      BY <1>1, BuildFields
    <3> QED
      BY <2>1, <3>2, <3>3, ManifestIsWhole DEF Whole, evidence
  <2> QED
    BY <2>4, <2>5, <2>6 DEF Finished
<1>10. CASE Kill
    BY <1>1, <1>10, EndedType DEF Kill, Done
<1> QED
    BY <1>2, <1>3, <1>4, <1>5, <1>6, <1>7, <1>8, <1>9, <1>10 DEF Next

-----------------------------------------------------------------------------
(***************************************************************************)
(* The inductive invariant holds of every builder, for any cases and ids.   *)
(***************************************************************************)
THEOREM Inductive == Spec => []IndInv
<1>1. Init => IndInv
    BY InitSafe
<1>2. IndInv /\ [Next]_vars => IndInv'
    BY StepType, StepDrafted, StepWriting, StepOnDisk, StepIndexLast, StepFinished DEF IndInv
<1> QED
    BY <1>1, <1>2, PTL DEF Spec

(***************************************************************************)
(* Every variable of the builders holds a value of its kind.                *)
(***************************************************************************)
THEOREM TypeCorrect == Spec => []TypeOK
<1>1. IndInv => TypeOK
    BY DEF IndInv
<1> QED
    BY <1>1, Inductive, PTL

(***************************************************************************)
(* IndexComesLast for any cases, ids, kills and refusals: the writes are in *)
(* an order whose prefixes the retention tool can live with.                *)
(***************************************************************************)
THEOREM IndexIsLast == Spec => []IndexComesLast
<1>1. IndInv => IndexComesLast
    BY DEF IndInv
<1> QED
    BY <1>1, Inductive, PTL

(***************************************************************************)
(* PassIsEarned for everything CTP and a case can say: no combination of    *)
(* lists, lines, words, declarations and deadlines puts an unearned PASS or *)
(* proof on record.                                                         *)
(***************************************************************************)
THEOREM PassEarned == Spec => []PassIsEarned
<1>1. IndInv => PassIsEarned
  <2> SUFFICES ASSUME IndInv, NEW i \in Id, Whole(attempt[i])
               PROVE  LET x == Input(attempt[i].case)
                      IN /\ attempt[i].outcome = "PASS" =>
                              /\ ~x.late /\ x.match # "MISMATCH" /\ x.declares = "-"
                              /\ IF Sql THEN x.list = "ok"
                                 ELSE x.lines \cap {"OK", "NOK"} = {"OK"} /\ x.word \in {"-", "PASS"}
                         /\ attempt[i].status = "proven" =>
                              IF Sql THEN x.checker = "own" ELSE x.markers = "matched" /\ "OK" \in x.lines
    BY DEF PassIsEarned
  <2>1. PICK c \in Case : /\ attempt[i].case = c /\ attempt[i].outcome = Outcome(c)
                          /\ attempt[i].status = Evidence(c)
    BY DEF IndInv, OnDisk, Whole
  <2>2. InvocationOK(inv) /\ inv.kind \in Kinds
    BY DEF IndInv, TypeOK, InvocationOK
  <2>3. CASE Sql
    <3>1. Input(c) \in SqlInput /\ Outcome(c) = SqlOutcome(Input(c)) /\ Evidence(c) = SqlEvidence(Input(c))
      BY <2>2, <2>3, InputType DEF Outcome, Evidence
    <3> QED
      BY <2>1, <2>3, <3>1, SqlSays
  <2>4. CASE ~Sql
    <3>1. /\ Input(c) \in ShellInput /\ Outcome(c) = ShellOutcome(Input(c))
          /\ Evidence(c) = ShellEvidence(Input(c), inv.kind)
      BY <2>2, <2>4, InputType DEF Outcome, Evidence
    <3>2. Compared(Input(c)) = "PASS" =>
            /\ Input(c).match # "MISMATCH" /\ Input(c).declares = "-"
            /\ Input(c).lines \cap {"OK", "NOK"} = {"OK"} /\ Input(c).word \in {"-", "PASS"}
      BY <2>2, <3>1, ShellSays
    <3>3. Outcome(c) = "PASS" => Compared(Input(c)) = "PASS" /\ ~Input(c).late
      BY <2>2, <3>1, ShellSays
    <3>4. Evidence(c) = "proven" => Compared(Input(c)) = "PASS" /\ Input(c).markers = "matched"
      BY <2>2, <3>1, ShellSays
    <3>5. Input(c).lines \cap {"OK", "NOK"} = {"OK"} => "OK" \in Input(c).lines
      OBVIOUS
    <3> QED
      BY <2>1, <2>4, <3>2, <3>3, <3>4, <3>5
  <2> QED
    BY <2>3, <2>4
<1> QED
    BY <1>1, Inductive, PTL

(***************************************************************************)
(* ProvenIsComplete for any number of cases: a manifest that says proven    *)
(* leaves none of them out.                                                 *)
(***************************************************************************)
THEOREM ProvenComplete == Spec => []ProvenIsComplete
<1>1. IndInv => ProvenIsComplete
  <2> SUFFICES ASSUME IndInv, Whole(manifest), manifest.verdict = "proven", NEW c \in Case
               PROVE  /\ manifest.cases[c] # {}
                      /\ ~Sql => Input(c).lines # {} /\ ~Input(c).skipAsOk
    BY DEF ProvenIsComplete
  <2>1. /\ manifest.verdict = Verdict
        /\ \A d \in Case : Executed(d) => manifest.cases[d] # {}
    BY DEF IndInv, OnDisk
  <2>2. ~Mismatch(c)
    BY <2>1 DEF Verdict
  <2>3. Executed(c) /\ (~Sql => ~Input(c).skipAsOk /\ ~Blank(Input(c)))
    BY <2>2 DEF Mismatch
  <2>4. Input(c).lines = {} => Blank(Input(c))
    BY DEF Blank
  <2> QED
    BY <2>1, <2>3, <2>4
<1> QED
    BY <1>1, Inductive, PTL

-----------------------------------------------------------------------------
(***************************************************************************)
(* What a finished build leaves behind depends on the ids of the earlier    *)
(* runs too.  Run again with other ids, a builder leaves the records of the *)
(* first run beside its own; SameIds says that it is given the same ones.   *)
(***************************************************************************)

\* Every record there is then belongs to an executed case and is the one just written for it.
LEMMA OnlyTheGiven ==
    ASSUME SameIds, IndInv, NEW ids \in IdLists, LeftBy(ids),
           NEW i \in Id, attempt[i] # Absent \/ index[i] # Absent
    PROVE  \E c \in Case :
             /\ Executed(c) /\ i = ids[Rank(c)]
             /\ \A j \in Id : Gives(ids, c, j) <=> j = i
             /\ Whole(attempt[i]) /\ attempt[i].case = c /\ attempt[i].digest = compared
             /\ attempt[i].outcome = Outcome(c)
             /\ Whole(index[i]) /\ index[i].case = c /\ index[i].total = compared
             /\ index[i].class = RetentionClass(inv.kind, Outcome(c))
<1>1. PICK c \in Case : \E s \in IdLists : Gives(s, c, i)
    BY DEF IndInv, OnDisk
<1>2. PICK s \in IdLists : Executed(c) /\ Rank(c) \in DOMAIN s /\ s[Rank(c)] = i
    BY <1>1 DEF Gives
<1>3. Rank(c) \in DOMAIN ids
    BY <1>2 DEF LeftBy
<1>4. ids[Rank(c)] = i
    BY <1>2, <1>3 DEF SameIds
<1>5. /\ Whole(attempt[i]) /\ attempt[i].case = c /\ attempt[i].digest = compared
      /\ Whole(index[i]) /\ index[i].case = c /\ index[i].total = compared
      /\ index[i].class = RetentionClass(inv.kind, Outcome(c))
    BY <1>2, <1>4 DEF LeftBy
<1>6. attempt[i].outcome = Outcome(c)
    BY <1>5 DEF IndInv, OnDisk, Whole
<1>7. \A j \in Id : Gives(ids, c, j) <=> j = i
    BY <1>2, <1>3, <1>4 DEF Gives
<1> QED
    BY <1>2, <1>4, <1>5, <1>6, <1>7

(***************************************************************************)
(* RerunRepairs for any number of cases, ids, kills and refusals, provided  *)
(* that a builder run again is given the ids it had before.                 *)
(***************************************************************************)
THEOREM RerunsRepair == ASSUME SameIds PROVE Spec => []RerunRepairs
<1>1. IndInv => RerunRepairs
  <2> SUFFICES ASSUME IndInv, Done, NEW c \in Case
               PROVE  LET own == {i \in Id : Whole(attempt[i]) /\ attempt[i].case = c}
                      IN /\ Cardinality(own) = IF Executed(c) THEN 1 ELSE 0
                         /\ \A i \in own : Whole(index[i]) /\ index[i].case = c
                         /\ inv.kind = "original" => Whole(manifest) /\ manifest.cases[c] = own
    BY DEF RerunRepairs
  <2> DEFINE own == {i \in Id : Whole(attempt[i]) /\ attempt[i].case = c}
  <2>1. /\ inv.kind = "original" => Whole(manifest)
        /\ \E ids \in IdLists : LeftBy(ids)
    BY DEF IndInv, Finished
  <2>2. PICK ids \in IdLists : LeftBy(ids)
    BY <2>1
  <2>3. inv.kind = "original" => manifest.cases[c] = {i \in Id : Gives(ids, c, i)}
    BY <2>2 DEF LeftBy
  <2>4. ASSUME NEW i \in own
        PROVE  /\ Executed(c) /\ i = ids[Rank(c)] /\ Gives(ids, c, i)
               /\ Whole(index[i]) /\ index[i].case = c
    <3>1. i \in Id /\ attempt[i] # Absent /\ attempt[i].case = c
      BY <2>4 DEF Whole
    <3> QED
      BY <2>2, <3>1, OnlyTheGiven
  <2>5. CASE Executed(c)
    <3>1. PICK i : i = ids[Rank(c)]
      OBVIOUS
    <3>2. Rank(c) \in DOMAIN ids /\ Whole(attempt[i]) /\ attempt[i].case = c
      BY <2>2, <2>5, <3>1 DEF LeftBy
    <3>3. i \in Id
      <4>1. ids \in Seq(Id)
        OBVIOUS
      <4> QED
        BY <3>1, <3>2, <4>1, LenProperties, ElementOfSeq
    <3>4. own = {i}
      BY <2>4, <3>1, <3>2, <3>3
    <3>5. Cardinality(own) = 1
      BY <3>4, FS_Singleton
    <3>6. \A j \in Id : Gives(ids, c, j) <=> j = i
      BY <2>5, <3>1, <3>2 DEF Gives
    <3>7. {j \in Id : Gives(ids, c, j)} = own
      BY <3>3, <3>4, <3>6
    <3> QED
      BY <2>1, <2>3, <2>4, <2>5, <3>5, <3>7
  <2>6. CASE ~Executed(c)
    <3>1. own = {}
      BY <2>4, <2>6
    <3>2. {j \in Id : Gives(ids, c, j)} = {}
      BY <2>6 DEF Gives
    <3> QED
      BY <2>1, <2>3, <2>6, <3>1, <3>2, FS_EmptySet
  <2> QED
    BY <2>5, <2>6
<1> QED
    BY <1>1, Inductive, PTL

(***************************************************************************)
(* CitesTheSeal likewise: after a finished build, validate_records.py finds *)
(* the digest and the size of the bundle in every record.                   *)
(***************************************************************************)
THEOREM SealIsCited == ASSUME SameIds PROVE Spec => []CitesTheSeal
<1>1. IndInv => CitesTheSeal
  <2> SUFFICES ASSUME IndInv, Done PROVE CitesTheSeal
    BY DEF CitesTheSeal
  <2> DEFINE attempts == {attempt[i] : i \in {j \in Id : Whole(attempt[j])}}
             indexes == {[state |-> "full", total |-> index[i].total] :
                            i \in {j \in Id : Whole(index[j])}}
  <2>1. PICK ids \in IdLists : LeftBy(ids)
    BY DEF IndInv, Finished
  <2>2. ASSUME NEW i \in Id, attempt[i] # Absent \/ index[i] # Absent
        PROVE  /\ Whole(attempt[i]) /\ attempt[i].digest = compared
               /\ Whole(index[i]) /\ index[i].total = compared
    BY <2>1, <2>2, OnlyTheGiven
  <2>3. Torn # Absent
    OBVIOUS
  <2>4. Torn \notin {attempt[i] : i \in Id} \cup {index[i] : i \in Id}
    <3>1. ASSUME NEW i \in Id PROVE attempt[i] # Torn /\ index[i] # Torn
      BY <2>2, <2>3 DEF Whole
    <3> QED
      BY <3>1
  <2>5. \A a \in attempts : a.digest = compared
    BY <2>2 DEF Whole
  <2>6. \A b \in indexes : b.total = compared
    BY <2>2 DEF Whole
  <2>7. Rules!CrossChecked(attempts, compared, indexes, compared)
    BY <2>5, <2>6 DEF Rules!CrossChecked
  <2>8. ~build.readOnly => Rules!TrueDigest(sums, compared, Absent) = compared
    BY DEF IndInv, Finished, Rules!TrueDigest
  <2> QED
    BY <2>4, <2>7, <2>8 DEF CitesTheSeal
<1> QED
    BY <1>1, Inductive, PTL

(***************************************************************************)
(* FailureIsHeld likewise: after a finished build the class of every index  *)
(* is that of the outcome on record, so that no failure can be expired.     *)
(***************************************************************************)
THEOREM FailuresAreHeld == ASSUME SameIds PROVE Spec => []FailureIsHeld
<1>1. IndInv => FailureIsHeld
  <2> SUFFICES ASSUME IndInv, Done, NEW i \in Id, Whole(attempt[i])
               PROVE  (index[i].class = "failure") =
                        ~(\/ inv.kind = "checker-validation" /\ attempt[i].outcome = "FAIL"
                          \/ inv.kind # "checker-validation" /\ attempt[i].outcome = "PASS")
    BY DEF FailureIsHeld
  <2>1. PICK ids \in IdLists : LeftBy(ids)
    BY DEF IndInv, Finished
  <2>2. index[i].class = RetentionClass(inv.kind, attempt[i].outcome)
    <3>1. attempt[i] # Absent
      BY DEF Whole
    <3> QED
      BY <2>1, <3>1, OnlyTheGiven
  <2> QED
    BY <2>2 DEF RetentionClass
<1> QED
    BY <1>1, Inductive, PTL
=============================================================================
