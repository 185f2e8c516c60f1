---------------------------- MODULE MeasureProofs ----------------------------
(***************************************************************************)
(* Proofs about the measurement tools: what a completed round of the review *)
(* run has on record, and what the ticks of the resource sampler add up to. *)
(***************************************************************************)
EXTENDS ReviewRun, ResourceSampler, NumberProofs, SequenceTheorems, FiniteSetTheorems, TLAPS

-----------------------------------------------------------------------------
(***************************************************************************)
(* The review run.                                                          *)
(***************************************************************************)

Cases == {CaseOrder[i] : i \in 1..6}
Run0 == 0 .. Runs - 1
SampleRecord == [variant : Variants, round : Rounds, case : Cases, run : Run0, at : Nat]
Counts == [Columns -> Nat]
InRound == {"sampling", "recording", "verifying"}
ReviewPhase == {"idle", "pairs", "starting", "stopping"} \cup InRound
Review == [phase : ReviewPhase, todo : Seq(Pairs), case : 1..6, sample : Run0, failed : BOOLEAN,
           at : Nat, starts : Nat]

ReviewType ==
    /\ tables \in [Variants -> Counts \cup {<<>>}]
    /\ serving \subseteq Variants /\ opened \subseteq Pairs /\ insensitive \in BOOLEAN
    /\ results \in [samples : Seq(SampleRecord), completed : SUBSET Pairs, complete : BOOLEAN]
    /\ review \in Review

\* The place of the case that updates a column.
UpdateAt == [a |-> 3, big |-> 4, n |-> 6]

\* The sample of a case that a round that has come this far has on record.
Yet(j, k) ==
    review.phase = "verifying" \/ j < review.case \/ (j = review.case /\ k < review.sample)

\* The updates of a column a round that has come this far has made.
Done(c) ==
    IF review.phase = "verifying" \/ review.case > UpdateAt[c] THEN Runs
    ELSE IF review.case < UpdateAt[c] THEN 0
    ELSE IF review.phase = "recording" THEN review.sample + 1 ELSE review.sample

\* The updates of its own column a sample found made in its round.
Own(case, k) == IF case \in Updates THEN k ELSE 0

\* The samples of a pair: each once ...
EachOnce(p) ==
    \A i, j \in OfPair(p[1], p[2]) :
        /\ results.samples[i].case = results.samples[j].case
        /\ results.samples[i].run = results.samples[j].run
        => i = j

\* ... and, of the round in hand, those it has come past, from the tables as it found them.
RoundInHand ==
    LET p == Head(review.todo)
        took == OfPair(p[1], p[2])
        s(i) == results.samples[i]
    IN /\ p \notin results.completed
       /\ \A i \in took : \E j \in 1..6 : s(i).case = CaseOrder[j] /\ Yet(j, s(i).run)
       /\ \A j \in 1..6, k \in Run0 :
            Yet(j, k) => \E i \in took : s(i).case = CaseOrder[j] /\ s(i).run = k
       /\ EachOnce(p)
       /\ took # {} \/ review.phase # "sampling" => tables[p[1]] \in Counts
       /\ \A i \in took :
            s(i).at + Done(Column[s(i).case]) = tables[p[1]][Column[s(i).case]] + Own(s(i).case, s(i).run)
       /\ review.phase = "recording" =>
            review.at + Done(Column[SampledCase]) = tables[p[1]][Column[SampledCase]] + Own(SampledCase, review.sample)

\* What CompletedIsWhole says of a pair.
Whole(p) ==
    LET took == OfPair(p[1], p[2])
        s(i) == results.samples[i]
    IN /\ {[variant |-> s(i).variant, round |-> s(i).round, case |-> s(i).case, run |-> s(i).run] :
              i \in took} = Planned(p[1], p[2])
       /\ EachOnce(p)
       /\ \A i \in took : s(i).at = Undisturbed(s(i).case, p[2], s(i).run)

\* Before its first sample a round is at the first of the first case, and none is on record.
Fresh ==
    /\ review.phase \in {"pairs", "starting"} => review.case = 1 /\ review.sample = 0
    /\ review.phase = "starting" =>
         Head(review.todo) \notin results.completed
         /\ OfPair(Head(review.todo)[1], Head(review.todo)[2]) = {}

ReviewInv ==
    /\ ReviewType
    /\ review.phase \notin {"idle", "pairs"} => review.todo # <<>>
    /\ Fresh
    /\ review.phase \in InRound => RoundInHand
    /\ \A p \in results.completed : Whole(p)
    /\ results.complete => results.completed = Pairs

LEMMA CaseFacts ==
    /\ Len(CaseOrder) = 6 /\ DOMAIN CaseOrder = 1..6
    /\ \A i \in 1..6 : CaseOrder[i] \in Cases /\ Column[CaseOrder[i]] \in Columns
    /\ \A i, j \in 1..6 : CaseOrder[i] = CaseOrder[j] => i = j
    /\ UpdateAt \in [Columns -> 1..6]
    /\ \A i \in 1..6 : CaseOrder[i] \notin Updates => i < UpdateAt[Column[CaseOrder[i]]]
    /\ \A i \in 1..6, c \in Columns :
         UpdateAt[c] = i <=> CaseOrder[i] \in Updates /\ Column[CaseOrder[i]] = c
<1> USE DEF CaseOrder, Columns, Column, UpdateAt, Updates
<1>1. Len(CaseOrder) = 6 /\ DOMAIN CaseOrder = 1..6
    OBVIOUS
<1>2. \A i \in 1..6 : i \in {1, 2, 3, 4, 5, 6}
    OBVIOUS
<1>3. /\ CaseOrder[1] = "w_small" /\ CaseOrder[2] = "w_substr" /\ CaseOrder[3] = "w_update_small"
      /\ CaseOrder[4] = "w_update_big" /\ CaseOrder[5] = "n_scan" /\ CaseOrder[6] = "n_update"
    OBVIOUS
<1>4. \A i \in 1..6 : CaseOrder[i] \in Cases
    BY DEF Cases
<1> HIDE DEF CaseOrder
<1>5. \A i \in 1..6 : Column[CaseOrder[i]] \in Columns
    BY <1>2, <1>3
<1>6. \A i, j \in 1..6 : CaseOrder[i] = CaseOrder[j] => i = j
    BY <1>2, <1>3
<1>7. UpdateAt \in [Columns -> 1..6]
    OBVIOUS
<1>8. \A i \in 1..6 : CaseOrder[i] \notin Updates => i < UpdateAt[Column[CaseOrder[i]]]
    BY <1>2, <1>3
<1>9. \A i \in 1..6, c \in Columns :
         UpdateAt[c] = i <=> CaseOrder[i] \in Updates /\ Column[CaseOrder[i]] = c
    BY <1>2, <1>3
<1> QED
    BY <1>1, <1>4, <1>5, <1>6, <1>7, <1>8, <1>9

\* The pair in hand.
LEMMA PairInHand ==
    ASSUME ReviewType, review.todo # <<>>
    PROVE  /\ Head(review.todo) \in Pairs /\ ThisVariant \in Variants /\ ThisRound \in Rounds
           /\ Head(review.todo) = <<ThisVariant, ThisRound>>
           /\ Tail(review.todo) \in Seq(Pairs)
<1>1. review.todo \in Seq(Pairs)
    BY DEF ReviewType, Review
<1>2. Head(review.todo) \in Pairs /\ Tail(review.todo) \in Seq(Pairs)
    BY <1>1, HeadTailProperties
<1> QED
    BY <1>2 DEF Pairs, ThisVariant, ThisRound

\* The updates made when a sample is taken, and when it is recorded.
LEMMA DoneMoves ==
    ASSUME ReviewType, NEW c \in Columns, review'.case \in 1..6,
           \/ /\ review.phase = "sampling" /\ review'.phase = "recording"
              /\ review'.case = review.case /\ review'.sample = review.sample
           \/ /\ review.phase = "recording"
              /\ review' = CASE review.sample + 1 < Runs -> [review EXCEPT !.phase = "sampling", !.sample = @ + 1]
                             [] review.sample + 1 = Runs /\ review.case < 6 ->
                                  [review EXCEPT !.phase = "sampling", !.sample = 0, !.case = @ + 1]
                             [] OTHER -> [review EXCEPT !.phase = "verifying"]
    PROVE  /\ Done(c) \in Nat /\ Done(c)' \in Nat
           /\ Done(c)' = IF review.phase = "sampling" /\ SampledCase \in Updates /\ c = Column[SampledCase]
                         THEN Done(c) + 1 ELSE Done(c)
<1>1. /\ UpdateAt[c] \in 1..6 /\ review.case \in 1..6 /\ review.sample \in 0 .. Runs - 1
      /\ Runs \in Nat /\ Runs > 0 /\ review \in Review
    BY CaseFacts, ReviewAssumption DEF ReviewAssumption, ReviewType, Review, Run0
<1>2. UpdateAt[c] = review.case <=> SampledCase \in Updates /\ Column[SampledCase] = c
    BY <1>1, CaseFacts DEF SampledCase
<1>3. CASE review.phase = "sampling"
    BY <1>1, <1>2, <1>3 DEF Done
<1>4. CASE review.phase = "recording"
  <2>1. CASE review.sample + 1 < Runs
    <3>0. review' = [review EXCEPT !.phase = "sampling", !.sample = review.sample + 1]
      <4>1. review.sample + 1 # Runs
        BY <1>1, <2>1
      <4> QED
        BY <1>4, <2>1, <4>1
    <3>1. review'.phase = "sampling" /\ review'.sample = review.sample + 1 /\ review'.case = review.case
      BY <1>1, <3>0 DEF Review
    <3> QED
      BY <1>1, <1>4, <2>1, <3>1 DEF Done
  <2>2. CASE review.sample + 1 = Runs /\ review.case < 6
    <3>0. review' = [review EXCEPT !.phase = "sampling", !.sample = 0, !.case = review.case + 1]
      <4>1. ~(review.sample + 1 < Runs)
        BY <1>1, <2>2
      <4> QED
        BY <1>4, <2>2, <4>1
    <3>1. review'.phase = "sampling" /\ review'.sample = 0 /\ review'.case = review.case + 1
      BY <1>1, <3>0 DEF Review
    <3> QED
      BY <1>1, <1>4, <2>2, <3>1 DEF Done
  <2>3. CASE review.sample + 1 = Runs /\ review.case = 6
    BY <1>1, <1>4, <2>3 DEF Done, Review
  <2> QED
    BY <1>1, <2>1, <2>2, <2>3
<1> QED
    BY <1>3, <1>4

LEMMA PairsAreNamed ==
    ASSUME NEW first \in Rounds, NEW rounds \in 1 .. Len(RoundOrder) - first
    PROVE  PairsFrom(first, rounds) \in Seq(Pairs)
<1>1. Len(RoundOrder) \in Nat /\ first \in Nat /\ rounds \in Nat /\ first + rounds <= Len(RoundOrder)
    BY ReviewAssumption DEF ReviewAssumption, Rounds
<1>2. ASSUME NEW i \in 1 .. 2 * rounds
      PROVE  <<RoundOrder[first + (i + 1) \div 2][2 - (i % 2)], first + (i - 1) \div 2>> \in Pairs
  <2>1. (i + 1) \div 2 \in 1..rounds /\ (i - 1) \div 2 \in 0 .. rounds - 1 /\ i % 2 \in {0, 1}
    BY <1>1
  <2>2. PICK h : h = (i + 1) \div 2
    OBVIOUS
  <2>3. PICK l : l = (i - 1) \div 2
    OBVIOUS
  <2>4. PICK b : b = 2 - (i % 2)
    OBVIOUS
  <2>5. first + h \in 1 .. Len(RoundOrder) /\ first + l \in Rounds /\ b \in {1, 2}
    BY <1>1, <2>1, <2>2, <2>3, <2>4 DEF Rounds
  <2>6. RoundOrder[first + h] \in {<<"base", "feature">>, <<"feature", "base">>}
    BY <2>5, ReviewAssumption DEF ReviewAssumption
  <2>7. RoundOrder[first + h][b] \in Variants
    BY <2>5, <2>6 DEF Variants
  <2> QED
    BY <2>2, <2>3, <2>4, <2>5, <2>7 DEF Pairs
<1>3. 2 * rounds \in Nat
    BY <1>1
<1> QED
    BY <1>2, <1>3 DEF PairsFrom

\* What a step of the script leaves it in.
LEMMA ReviewTypeStep ==
    ASSUME ReviewType, review.phase \notin {"idle", "pairs"} => review.todo # <<>>,
           [ReviewNext]_reviewVars
    PROVE  ReviewType'
<1> USE DEF ReviewType
<1>0. /\ review \in Review /\ Runs \in Nat /\ 0 \in Run0 /\ 1 \in 1..6
      /\ "pairs" \in ReviewPhase /\ "starting" \in ReviewPhase /\ "stopping" \in ReviewPhase
      /\ "sampling" \in ReviewPhase /\ "recording" \in ReviewPhase /\ "verifying" \in ReviewPhase
    BY ReviewAssumption DEF ReviewAssumption, Run0, ReviewPhase, InRound
<1>1. /\ BetweenRuns(review.starts) \in Review
      /\ \A q \in Seq(Pairs) : [BetweenRuns(review.starts + 1) EXCEPT !.phase = "pairs", !.todo = q] \in Review
  <2>1. review.starts \in Nat /\ review.starts + 1 \in Nat /\ <<>> \in Seq(Pairs) /\ "idle" \in ReviewPhase
    BY <1>0 DEF Review, ReviewPhase
  <2>2. ASSUME NEW n \in Nat PROVE BetweenRuns(n) \in Review
    BY <1>0, <2>1 DEF BetweenRuns, Review
  <2>3. ASSUME NEW q \in Seq(Pairs), NEW w \in Review
        PROVE  [w EXCEPT !.phase = "pairs", !.todo = q] \in Review
    BY <1>0, <2>3 DEF Review
  <2> QED
    BY <2>1, <2>2, <2>3
<1>2. \A phase \in ReviewPhase : [review EXCEPT !.phase = phase] \in Review
    BY <1>0 DEF Review
<1>3. [review EXCEPT !.phase = "stopping", !.failed = TRUE] \in Review
    BY <1>0 DEF Review
<1>4. NoTables \in Counts
    BY DEF NoTables, Counts
<1>5. ASSUME UNCHANGED reviewVars PROVE ReviewType'
    BY <1>5 DEF reviewVars
<1>6. ASSUME NEW first \in Rounds, NEW rounds \in 1 .. Len(RoundOrder) - first, Run(first, rounds)
      PROVE  ReviewType'
    BY <1>1, <1>6, PairsAreNamed DEF Run
<1>7. CASE BeginRound
    BY <1>0, <1>1, <1>2, <1>7, PairInHand, ZenonT(60) DEF BeginRound, Go, Pairs
<1>8. CASE StartServer
  <2>1. ThisVariant \in Variants /\ review' \in Review
    BY <1>0, <1>2, <1>3, <1>8, PairInHand DEF StartServer, Go, Raise
  <2>2. tables' \in [Variants -> Counts \cup {<<>>}]
    BY <1>4, <1>8, <2>1 DEF StartServer
  <2>3. serving' \subseteq Variants
    BY <1>8, <2>1 DEF StartServer
  <2> QED
    BY <1>8, <2>1, <2>2, <2>3 DEF StartServer
<1>9. CASE TakeSample
  <2>1. ThisVariant \in Variants /\ review.todo # <<>>
    BY <1>9, PairInHand DEF TakeSample
  <2>2. tables[ThisVariant] \in Counts /\ Column[SampledCase] \in Columns
    BY <1>0, <1>9, <2>1, CaseFacts DEF TakeSample, SampledCase, Review
  <2>3. PICK c \in Columns : c = Column[SampledCase]
    BY <2>2
  <2>4. tables[ThisVariant][c] \in Nat
    BY <2>2, <2>3 DEF Counts
  <2>5. [tables[ThisVariant] EXCEPT ![c] = @ + 1] \in Counts
    BY <2>2, <2>3, <2>4 DEF Counts
  <2>6. tables' = tables \/ tables' = [tables EXCEPT ![ThisVariant] = [tables[ThisVariant] EXCEPT ![c] = @ + 1]]
    BY <1>9, <2>3 DEF TakeSample
  <2>7. tables' \in [Variants -> Counts \cup {<<>>}]
    BY <2>1, <2>5, <2>6
  <2>8. \/ review' = [review EXCEPT !.phase = "recording", !.at = tables[ThisVariant][c]]
        \/ review' = [review EXCEPT !.phase = "stopping", !.failed = TRUE]
    BY <1>9, <2>3 DEF TakeSample
  <2>9. review' \in Review
    BY <1>0, <1>3, <2>4, <2>8 DEF Review
  <2> QED
    BY <1>9, <2>7, <2>9 DEF TakeSample
<1>10. CASE RecordSample
  <2>1. ThisVariant \in Variants /\ ThisRound \in Rounds /\ SampledCase \in Cases
    BY <1>0, <1>10, PairInHand, CaseFacts DEF RecordSample, SampledCase, Review
  <2>2. SampleTaken \in SampleRecord
    BY <1>0, <2>1 DEF SampleTaken, SampleRecord, Review
  <2>3. Append(results.samples, SampleTaken) \in Seq(SampleRecord)
    BY <2>2, AppendProperties
  <2>4. results' = [results EXCEPT !.samples = Append(results.samples, SampleTaken)]
    BY <1>10 DEF RecordSample
  <2>5. results' \in [samples : Seq(SampleRecord), completed : SUBSET Pairs, complete : BOOLEAN]
    BY <2>3, <2>4
  <2>6. review' \in Review
    <3>1. CASE review.sample + 1 < Runs
      <4>1. review' = [review EXCEPT !.phase = "sampling", !.sample = review.sample + 1]
        <5>1. review.sample + 1 # Runs
          BY <1>0, <3>1 DEF Review, Run0
        <5> QED
          BY <1>10, <3>1, <5>1 DEF RecordSample
      <4>2. review.sample + 1 \in Run0
        BY <1>0, <3>1 DEF Review, Run0
      <4> QED
        BY <1>0, <4>1, <4>2 DEF Review
    <3>2. CASE review.sample + 1 = Runs /\ review.case < 6
      <4>1. review' = [review EXCEPT !.phase = "sampling", !.sample = 0, !.case = review.case + 1]
        <5>1. ~(review.sample + 1 < Runs)
          BY <1>0, <3>2
        <5> QED
          BY <1>10, <3>2, <5>1, CaseFacts DEF RecordSample
      <4>2. review.case + 1 \in 1..6
        BY <1>0, <3>2 DEF Review
      <4> QED
        BY <1>0, <4>1, <4>2 DEF Review
    <3>3. CASE ~(review.sample + 1 < Runs) /\ ~(review.sample + 1 = Runs /\ review.case < 6)
      BY <1>0, <1>2, <1>10, <3>3, CaseFacts DEF RecordSample
    <3> QED
      BY <3>1, <3>2, <3>3
  <2> QED
    BY <1>10, <2>5, <2>6 DEF RecordSample
<1>11. CASE Fails
    BY <1>3, <1>11 DEF Fails, Raise
<1>12. CASE VerifyRound
  <2>1. <<ThisVariant, ThisRound>> \in Pairs
    BY <1>12, PairInHand DEF VerifyRound, Pairs
  <2> QED
    BY <1>0, <1>2, <1>3, <1>12, <2>1 DEF VerifyRound, Go, Raise
<1>13. CASE StopServer
  <2>1. Tail(review.todo) \in Seq(Pairs)
    BY <1>13, PairInHand DEF StopServer
  <2>2. [review EXCEPT !.phase = "pairs", !.todo = Tail(review.todo), !.case = 1, !.sample = 0] \in Review
    BY <1>0, <2>1 DEF Review
  <2> QED
    BY <1>1, <1>13, <2>2 DEF StopServer
<1>14. CASE FinishRun
    BY <1>1, <1>14 DEF FinishRun
<1>15. CASE KillRun
    BY <1>1, <1>15 DEF KillRun
<1>16. CASE StopByHand
    BY <1>16 DEF StopByHand
<1> QED
    BY <1>5, <1>6, <1>7, <1>8, <1>9, <1>10, <1>11, <1>12, <1>13, <1>14, <1>15, <1>16 DEF ReviewNext

\* Where a round goes when a sample is recorded.
LEMMA RecordMoves ==
    ASSUME ReviewType, RecordSample
    PROVE  /\ review'.todo = review.todo /\ review'.failed = review.failed
           /\ review'.case \in 1..6
           /\ \/ /\ review.sample + 1 < Runs /\ review'.phase = "sampling"
                 /\ review'.case = review.case /\ review'.sample = review.sample + 1
              \/ /\ review.sample + 1 = Runs /\ review.case < 6 /\ review'.phase = "sampling"
                 /\ review'.case = review.case + 1 /\ review'.sample = 0
              \/ /\ review.sample + 1 = Runs /\ review.case = 6 /\ review'.phase = "verifying"
                 /\ review'.case = 6
           /\ review' = CASE review.sample + 1 < Runs -> [review EXCEPT !.phase = "sampling", !.sample = @ + 1]
                          [] review.sample + 1 = Runs /\ review.case < 6 ->
                               [review EXCEPT !.phase = "sampling", !.sample = 0, !.case = @ + 1]
                          [] OTHER -> [review EXCEPT !.phase = "verifying"]
<1>1. /\ review \in Review /\ review.sample \in 0 .. Runs - 1 /\ review.case \in 1..6
      /\ Runs \in Nat /\ Runs > 0
    BY ReviewAssumption DEF ReviewAssumption, ReviewType, Review, Run0
<1>2. review' = CASE review.sample + 1 < Runs -> [review EXCEPT !.phase = "sampling", !.sample = @ + 1]
                  [] review.sample + 1 = Runs /\ review.case < 6 ->
                       [review EXCEPT !.phase = "sampling", !.sample = 0, !.case = @ + 1]
                  [] OTHER -> [review EXCEPT !.phase = "verifying"]
    BY CaseFacts DEF RecordSample
<1>3. CASE review.sample + 1 < Runs
  <2>1. review.sample + 1 # Runs
    BY <1>1, <1>3
  <2>2. review' = [review EXCEPT !.phase = "sampling", !.sample = review.sample + 1]
    BY <1>2, <1>3, <2>1
  <2> QED
    BY <1>1, <1>2, <1>3, <2>2 DEF Review
<1>4. CASE review.sample + 1 = Runs /\ review.case < 6
  <2>1. ~(review.sample + 1 < Runs)
    BY <1>1, <1>4
  <2>2. review' = [review EXCEPT !.phase = "sampling", !.sample = 0, !.case = review.case + 1]
    BY <1>2, <1>4, <2>1
  <2> QED
    BY <1>1, <1>2, <1>4, <2>2 DEF Review
<1>5. CASE review.sample + 1 = Runs /\ review.case = 6
  <2>1. ~(review.sample + 1 < Runs) /\ ~(review.case < 6)
    BY <1>1, <1>5
  <2>2. review' = [review EXCEPT !.phase = "verifying"]
    BY <1>2, <2>1
  <2> QED
    BY <1>1, <1>2, <1>5, <2>2 DEF Review
<1> QED
    BY <1>1, <1>3, <1>4, <1>5

LEMMA YetMoves ==
    ASSUME ReviewType, RecordSample, NEW j \in 1..6, NEW k \in Run0
    PROVE  Yet(j, k)' <=> Yet(j, k) \/ (j = review.case /\ k = review.sample)
<1>1. /\ review.sample \in 0 .. Runs - 1 /\ review.case \in 1..6
      /\ Runs \in Nat /\ Runs > 0 /\ k \in 0 .. Runs - 1 /\ review.phase = "recording"
    BY ReviewAssumption DEF ReviewAssumption, ReviewType, Review, Run0, RecordSample
<1> QED
    BY <1>1, RecordMoves DEF Yet

\* What is said of a pair stands when a sample of another one is recorded.
LEMMA WholeStays ==
    ASSUME ReviewType, NEW p, Whole(p),
           \/ results'.samples = results.samples
           \/ /\ RecordSample /\ review.todo # <<>> /\ p \in Pairs /\ p # <<ThisVariant, ThisRound>>
    PROVE  Whole(p)'
<1>1. /\ OfPair(p[1], p[2])' = OfPair(p[1], p[2])
      /\ \A i \in OfPair(p[1], p[2]) : results'.samples[i] = results.samples[i]
  <2>1. CASE results'.samples = results.samples
    BY <2>1 DEF OfPair
  <2>2. CASE RecordSample /\ review.todo # <<>> /\ p \in Pairs /\ p # <<ThisVariant, ThisRound>>
    <3>1. results.samples \in Seq(SampleRecord) /\ Len(results.samples) \in Nat
          /\ DOMAIN results.samples = 1 .. Len(results.samples)
      BY LenProperties DEF ReviewType
    <3>2. results'.samples = Append(results.samples, SampleTaken)
      BY <2>2 DEF RecordSample, ReviewType
    <3>3. /\ DOMAIN results'.samples = 1 .. Len(results.samples) + 1
          /\ \A i \in 1 .. Len(results.samples) : results'.samples[i] = results.samples[i]
          /\ results'.samples[Len(results.samples) + 1] = SampleTaken
      BY <3>1, <3>2, AppendProperties
    <3>4. SampleTaken.variant = ThisVariant /\ SampleTaken.round = ThisRound
      BY DEF SampleTaken
    <3>5. p = <<p[1], p[2]>>
      BY <2>2 DEF Pairs
    <3>6. ~(SampleTaken.variant = p[1] /\ SampleTaken.round = p[2])
      BY <2>2, <3>4, <3>5
    <3> QED
      BY <3>1, <3>3, <3>6, SMTT(60) DEF OfPair
  <2> QED
    BY <2>1, <2>2
<1>2. {[variant |-> results.samples[i].variant, round |-> results.samples[i].round,
         case |-> results.samples[i].case, run |-> results.samples[i].run] : i \in OfPair(p[1], p[2])}'
      = {[variant |-> results.samples[i].variant, round |-> results.samples[i].round,
         case |-> results.samples[i].case, run |-> results.samples[i].run] : i \in OfPair(p[1], p[2])}
    BY <1>1
<1> QED
    BY <1>1, <1>2 DEF Whole, EachOnce

\* The samples on record are of cases and runs there are.
LEMMA OnRecord ==
    ASSUME ReviewType, NEW p, NEW i \in OfPair(p[1], p[2])
    PROVE  /\ i \in DOMAIN results.samples /\ results.samples[i] \in SampleRecord
           /\ results.samples[i].variant = p[1] /\ results.samples[i].round = p[2]
           /\ results.samples[i].case \in Cases /\ results.samples[i].run \in Run0
           /\ results.samples[i].at \in Nat
           /\ Column[results.samples[i].case] \in Columns
<1>1. i \in DOMAIN results.samples /\ results.samples[i].variant = p[1] /\ results.samples[i].round = p[2]
    BY DEF OfPair
<1>2. results.samples[i] \in SampleRecord
    BY <1>1, ElementOfSeq, LenProperties, SMTT(60) DEF ReviewType
<1> QED
    BY <1>1, <1>2, CaseFacts DEF SampleRecord, Cases

\* A sample taken as expected moves its column and what the round has done of it alike.
LEMMA TakeKeeps ==
    ASSUME ReviewInv, TakeSample, review'.phase = "recording"
    PROVE  RoundInHand'
<1> DEFINE p == Head(review.todo)
           col == Column[SampledCase]
           t == tables[ThisVariant]
           s(i) == results.samples[i]
<1>1. /\ review \in Review /\ review.case \in 1..6 /\ review.sample \in Run0
      /\ review.phase = "sampling" /\ review.todo # <<>> /\ ReviewType /\ RoundInHand
      /\ Run0 \subseteq Nat
    BY DEF ReviewInv, ReviewType, Review, TakeSample, InRound, Run0
<1>2. p \in Pairs /\ ThisVariant = p[1] /\ p[1] \in Variants /\ tables \in [Variants -> Counts \cup {<<>>}]
    BY <1>1, PairInHand DEF ThisVariant, ReviewType
<1>3. t \in Counts /\ SampledCase \in Cases /\ col \in Columns
  <2>1. t # <<>> /\ t \in Counts \cup {<<>>}
    BY <1>2 DEF TakeSample
  <2>2. SampledCase \in Cases /\ col \in Columns
    BY <1>1, CaseFacts DEF SampledCase
  <2> QED
    BY <2>1, <2>2
<1>4. /\ review' = [review EXCEPT !.phase = "recording", !.at = t[col]] /\ results' = results
      /\ tables' = IF SampledCase \in Updates
                   THEN [tables EXCEPT ![ThisVariant] = [t EXCEPT ![col] = t[col] + 1]] ELSE tables
  <2>1. review' # [review EXCEPT !.phase = "stopping", !.failed = TRUE]
    BY <1>1 DEF Review
  <2> QED
    BY <2>1 DEF TakeSample
<1>5. /\ review'.todo = review.todo /\ review'.case = review.case /\ review'.sample = review.sample
      /\ review'.at = t[col]
    BY <1>1, <1>4 DEF Review
<1>6. p' = p /\ SampledCase' = SampledCase
    BY <1>5 DEF SampledCase
<1>7. OfPair(p[1], p[2])' = OfPair(p[1], p[2])
    BY <1>4, <1>6 DEF OfPair
<1>8. \A j \in 1..6, k \in Run0 : Yet(j, k)' <=> Yet(j, k)
    BY <1>1, <1>5 DEF Yet
<1>9. \A c \in Columns : /\ tables'[p[1]][c] \in Nat /\ t[c] \in Nat /\ Done(c) \in Nat /\ Done(c)' \in Nat
                         /\ tables'[p[1]] \in Counts
                         /\ tables'[p[1]][c] + Done(c) = t[c] + Done(c)'
  <2>1. \A c \in Columns : t[c] \in Nat
    BY <1>3 DEF Counts
  <2>2. SampledCase \in Updates =>
           /\ tables'[p[1]] \in Counts
           /\ \A c \in Columns : tables'[p[1]][c] = IF c = col THEN t[c] + 1 ELSE t[c]
    <3>1. ASSUME SampledCase \in Updates PROVE tables'[p[1]] = [t EXCEPT ![col] = t[col] + 1]
      BY <1>2, <1>4, <3>1
    <3> QED
      BY <1>3, <2>1, <3>1 DEF Counts
  <2>3. SampledCase \notin Updates => tables'[p[1]] = t
    BY <1>2, <1>4
  <2>4. \A c \in Columns :
           /\ Done(c) \in Nat /\ Done(c)' \in Nat
           /\ Done(c)' = IF SampledCase \in Updates /\ c = col THEN Done(c) + 1 ELSE Done(c)
    BY <1>1, <1>5, DoneMoves, SMTT(60)
  <2> HIDE DEF col, t
  <2> QED
    BY <1>3, <2>1, <2>2, <2>3, <2>4
<1>10. \A i \in OfPair(p[1], p[2]) :
          s(i).at + Done(Column[s(i).case])' = tables'[p[1]][Column[s(i).case]] + Own(s(i).case, s(i).run)
  <2> SUFFICES ASSUME NEW i \in OfPair(p[1], p[2])
               PROVE  s(i).at + Done(Column[s(i).case])' = tables'[p[1]][Column[s(i).case]] + Own(s(i).case, s(i).run)
    OBVIOUS
  <2>1. /\ Column[s(i).case] \in Columns /\ s(i).at \in Nat /\ s(i).run \in Run0
        /\ Own(s(i).case, s(i).run) \in Nat
    BY <1>1, OnRecord DEF Own
  <2>2. s(i).at + Done(Column[s(i).case]) = t[Column[s(i).case]] + Own(s(i).case, s(i).run)
    BY <1>1, <1>2 DEF RoundInHand
  <2>3. PICK c \in Columns : c = Column[s(i).case]
    BY <2>1
  <2>4. PICK o \in Nat : o = Own(s(i).case, s(i).run)
    BY <2>1
  <2>5. PICK n \in Nat : n = s(i).at
    BY <2>1
  <2>6. n + Done(c) = t[c] + o
    BY <2>2, <2>3, <2>4, <2>5
  <2>7. n + Done(c)' = tables'[p[1]][c] + o
    <3>1. /\ tables'[p[1]][c] \in Nat /\ t[c] \in Nat /\ Done(c) \in Nat /\ Done(c)' \in Nat
          /\ tables'[p[1]][c] + Done(c) = t[c] + Done(c)'
      BY <1>9
    <3> HIDE DEF p, t
    <3> QED
      BY <2>6, <3>1
  <2>8. Done(Column[s(i).case])' = Done(c)'
    BY <1>4, <2>3
  <2> QED
    BY <2>3, <2>4, <2>5, <2>7, <2>8, SMTT(60)
<1>11. review'.at + Done(Column[SampledCase])'
         = tables'[p[1]][Column[SampledCase]] + Own(SampledCase, review.sample)
  <2>1. Done(col) = IF SampledCase \in Updates THEN review.sample ELSE 0
    <3>1. UpdateAt[col] \in 1..6
      BY <1>3, CaseFacts
    <3>2. SampledCase \in Updates => UpdateAt[col] = review.case
      BY <1>1, <1>3, CaseFacts DEF SampledCase
    <3>3. SampledCase \notin Updates => review.case < UpdateAt[col]
      BY <1>1, CaseFacts DEF SampledCase
    <3> QED
      BY <1>1, <3>1, <3>2, <3>3 DEF Done
  <2>2. Own(SampledCase, review.sample) = Done(col)
    BY <2>1 DEF Own
  <2>3. PICK c \in Columns : c = col
    BY <1>3
  <2>4. t[c] + Done(c)' = tables'[p[1]][c] + Done(c)
    BY <1>9
  <2>5. Done(Column[SampledCase])' = Done(c)'
    BY <1>6, <2>3
  <2> QED
    BY <1>5, <2>2, <2>3, <2>4, <2>5
<1>12. tables'[p[1]] \in Counts
    BY <1>9, <1>3, SMTT(60)
<1>13. EachOnce(p)'
    BY <1>1, <1>4, <1>6, <1>7, SMTT(60) DEF EachOnce, RoundInHand
<1>14. p' \notin results'.completed
    BY <1>1, <1>4, <1>6 DEF RoundInHand
<1>15. \A i \in OfPair(p[1], p[2]) : \E j \in 1..6 : s(i).case = CaseOrder[j] /\ Yet(j, s(i).run)'
  <2> SUFFICES ASSUME NEW i \in OfPair(p[1], p[2])
               PROVE  \E j \in 1..6 : s(i).case = CaseOrder[j] /\ Yet(j, s(i).run)'
    BY SMTT(60)
  <2>1. PICK j \in 1..6 : s(i).case = CaseOrder[j] /\ Yet(j, s(i).run)
    BY <1>1 DEF RoundInHand
  <2>2. s(i).run \in Run0
    BY <1>1, OnRecord
  <2>3. PICK k \in Run0 : k = s(i).run
    BY <2>2
  <2>4. s(i)' = s(i) /\ Yet(j, k)'
    BY <1>4, <1>8, <2>1, <2>3
  <2> QED
    BY <2>1, <2>3, <2>4
<1>16. \A j \in 1..6, k \in Run0 :
          Yet(j, k)' => \E i \in OfPair(p[1], p[2]) : s(i).case = CaseOrder[j] /\ s(i).run = k
    BY <1>1, <1>8 DEF RoundInHand
<1>17. \A i : s(i)' = s(i)
    BY <1>4
<1>18. /\ \A i \in OfPair(p[1], p[2])' : \E j \in 1..6 : s(i)'.case = CaseOrder[j] /\ Yet(j, s(i).run)'
       /\ \A j \in 1..6, k \in Run0 :
            Yet(j, k)' => \E i \in OfPair(p[1], p[2])' : s(i)'.case = CaseOrder[j] /\ s(i)'.run = k
    BY <1>7, <1>15, <1>16, <1>17, SMTT(60)
<1>19. \A i \in OfPair(p[1], p[2])' :
          s(i)'.at + Done(Column[s(i).case])' = tables'[p'[1]][Column[s(i)'.case]] + Own(s(i)'.case, s(i)'.run)
    BY <1>6, <1>7, <1>10, <1>17, SMTT(60)
<1>20. review'.at + Done(Column[SampledCase])'
         = tables'[p'[1]][Column[SampledCase']] + Own(SampledCase', review'.sample)
    BY <1>5, <1>6, <1>11
<1>21. tables'[p'[1]] \in Counts
    BY <1>6, <1>12
<1> QED
    BY <1>13, <1>14, <1>18, <1>19, <1>20, <1>21 DEF RoundInHand

\* A sample recorded joins those of its round, as the one the round is at.
LEMMA RecordKeeps ==
    ASSUME ReviewInv, RecordSample
    PROVE  RoundInHand'
<1> DEFINE p == Head(review.todo)
           s(i) == results.samples[i]
           took == OfPair(p[1], p[2])
<1>1. /\ review \in Review /\ review.case \in 1..6 /\ review.sample \in Run0
      /\ review.phase = "recording" /\ review.todo # <<>> /\ ReviewType /\ RoundInHand
      /\ Run0 \subseteq Nat
    BY DEF ReviewInv, ReviewType, Review, RecordSample, InRound, Run0
<1>2. /\ p \in Pairs /\ ThisVariant = p[1] /\ ThisRound = p[2]
    BY <1>1, PairInHand DEF ThisVariant, ThisRound
<1>3. /\ results.samples \in Seq(SampleRecord) /\ Len(results.samples) \in Nat
      /\ DOMAIN results.samples = 1 .. Len(results.samples)
    BY <1>1, LenProperties DEF ReviewType
<1>4. PICK n \in Nat, h \in 1..6, m \in Run0 :
          n = Len(results.samples) + 1 /\ h = review.case /\ m = review.sample
  <2>1. Len(results.samples) + 1 \in Nat
    BY <1>3
  <2> QED
    BY <1>1, <2>1
<1>5. /\ results'.samples = Append(results.samples, SampleTaken) /\ results'.completed = results.completed
      /\ tables' = tables /\ review'.todo = review.todo /\ p' = p
    BY <1>1, RecordMoves DEF RecordSample, ReviewType
<1>6. /\ DOMAIN results'.samples = 1 .. n
      /\ \A i \in 1 .. Len(results.samples) : s(i)' = s(i)
      /\ s(n)' = SampleTaken
    BY <1>4, <1>3, <1>5, AppendProperties
<1>7. /\ SampleTaken.variant = p[1] /\ SampleTaken.round = p[2] /\ SampleTaken.case = SampledCase
      /\ SampleTaken.run = m /\ SampleTaken.at = review.at
    BY <1>4, <1>2 DEF SampleTaken
<1>8. took' = took \cup {n} /\ n \notin took /\ \A i \in took : s(i)' = s(i)
    BY <1>4, <1>3, <1>5, <1>6, <1>7 DEF OfPair
<1>9. \A j \in 1..6, k \in Run0 : Yet(j, k)' <=> Yet(j, k) \/ (j = h /\ k = m)
    BY <1>4, <1>1, YetMoves
<1>10. \A c \in Columns : Done(c)' = Done(c)
    BY <1>1, RecordMoves, DoneMoves
<1>11. SampledCase \in Cases /\ Column[SampledCase] \in Columns /\ SampledCase = CaseOrder[h]
    BY <1>4, <1>1, CaseFacts, SMTT(60) DEF SampledCase
<1>12. ~Yet(h, m)
    BY <1>4, <1>1 DEF Yet, Run0
<1>13. ASSUME NEW i \in took
       PROVE  ~(s(i).case = SampledCase /\ s(i).run = m)
  <2>1. PICK j \in 1..6 : s(i).case = CaseOrder[j] /\ Yet(j, s(i).run)
    BY <1>1 DEF RoundInHand
  <2>2. ASSUME s(i).case = SampledCase PROVE j = h
    BY <1>11, <2>1, <2>2, CaseFacts
  <2> QED
    BY <1>12, <2>1, <2>2, SMTT(60)
<1>14. ASSUME NEW i \in took'
       PROVE  \E j \in 1..6 : s(i)'.case = CaseOrder[j] /\ Yet(j, s(i).run)'
  <2>1. CASE i = n
    <3>1. s(i)'.case = CaseOrder[h] /\ s(i)'.run = m
      BY <1>6, <1>7, <1>11, <2>1
    <3>2. Yet(h, m)'
      BY <1>9
    <3> QED
      BY <3>1, <3>2
  <2>2. CASE i \in took
    <3>1. PICK j \in 1..6 : s(i).case = CaseOrder[j] /\ Yet(j, s(i).run)
      BY <1>1, <2>2 DEF RoundInHand
    <3>2. PICK k \in Run0 : k = s(i).run
      BY <1>1, <2>2, OnRecord
    <3>3. s(i)' = s(i) /\ Yet(j, k)'
      BY <1>8, <1>9, <2>2, <3>1, <3>2
    <3> QED
      BY <3>1, <3>2, <3>3, SMTT(60)
  <2> QED
    BY <1>8, <2>1, <2>2
<1>15. ASSUME NEW j \in 1..6, NEW k \in Run0, Yet(j, k)'
       PROVE  \E i \in took' : s(i)'.case = CaseOrder[j] /\ s(i)'.run = k
  <2>1. CASE Yet(j, k)
    <3>1. PICK i \in took : s(i).case = CaseOrder[j] /\ s(i).run = k
      BY <1>1, <2>1, SMTT(60) DEF RoundInHand
    <3> QED
      BY <1>8, <3>1, SMTT(60)
  <2>2. CASE j = h /\ k = m
    BY <1>6, <1>7, <1>8, <1>11, <2>2
  <2> QED
    BY <1>9, <1>15, <2>1, <2>2
<1>16. \A i, j \in took : s(i).case = s(j).case /\ s(i).run = s(j).run => i = j
    BY <1>1 DEF RoundInHand, EachOnce
<1>17. ASSUME NEW i \in took', NEW j \in took', s(i)'.case = s(j)'.case, s(i)'.run = s(j)'.run
       PROVE  i = j
  <2>1. CASE i \in took /\ j \in took
    BY <1>8, <1>17, <1>16, <2>1
  <2>2. CASE i \in took /\ j = n
    <3>1. s(i)' = s(i) /\ s(j)' = SampleTaken
      BY <1>6, <1>8, <2>2
    <3> QED
      BY <1>7, <1>13, <1>17, <2>2, <3>1
  <2>3. CASE i = n /\ j \in took
    <3>1. s(j)' = s(j) /\ s(i)' = SampleTaken
      BY <1>6, <1>8, <2>3, SMTT(60)
    <3> QED
      BY <1>7, <1>13, <1>17, <2>3, <3>1
  <2> QED
    BY <1>8, <2>1, <2>2, <2>3
<1>18. ASSUME NEW i \in took'
       PROVE  s(i)'.at + Done(Column[s(i).case])' = tables'[p'[1]][Column[s(i)'.case]] + Own(s(i)'.case, s(i)'.run)
  <2>1. CASE i \in took
    <3>1. s(i).at + Done(Column[s(i).case]) = tables[p[1]][Column[s(i).case]] + Own(s(i).case, s(i).run)
      BY <1>1, <2>1 DEF RoundInHand
    <3>2. PICK c \in Columns : c = Column[s(i).case]
      BY <1>1, <2>1, OnRecord
    <3>3. s(i)' = s(i)
      BY <1>8, <2>1
    <3>4. Done(Column[s(i).case])' = Done(c)
      BY <1>10, <3>2, <3>3
    <3> QED
      BY <1>5, <3>1, <3>2, <3>3, <3>4, SMTT(60)
  <2>2. CASE i = n
    <3>1. review.at + Done(Column[SampledCase]) = tables[p[1]][Column[SampledCase]] + Own(SampledCase, m)
      BY <1>4, <1>1 DEF RoundInHand
    <3>2. PICK c \in Columns : c = Column[SampledCase]
      BY <1>11
    <3>3. s(i)' = SampleTaken
      BY <1>6, <2>2
    <3>4. Done(Column[s(i).case])' = Done(c)
      BY <1>7, <1>10, <3>2, <3>3, SMTT(60)
    <3> QED
      BY <1>5, <1>7, <3>1, <3>2, <3>3, <3>4, SMTT(60)
  <2> QED
    BY <1>8, <2>1, <2>2, SMTT(60)
<1>19. tables'[p'[1]] \in Counts
    BY <1>1, <1>5 DEF RoundInHand
<1>20. review'.phase # "recording"
    BY <1>1, RecordMoves, SMTT(60)
<1>21. p' \notin results'.completed
    BY <1>1, <1>5 DEF RoundInHand
<1>22. EachOnce(p)'
    BY <1>17 DEF EachOnce
<1> QED
    BY <1>14, <1>15, <1>18, <1>19, <1>20, <1>21, <1>22 DEF RoundInHand

\* What check_state finds at the end of a round says where the round began.
LEMMA VerifiedIsWhole ==
    ASSUME ReviewInv, VerifyRound, results'.completed # results.completed
    PROVE  Whole(<<ThisVariant, ThisRound>>)
<1> DEFINE v == ThisVariant
           r == ThisRound
           s(i) == results.samples[i]
           took == OfPair(v, r)
<1>1. /\ review.phase = "verifying" /\ review.todo # <<>> /\ ReviewType /\ RoundInHand
    BY DEF ReviewInv, VerifyRound, InRound
<1>2. /\ Head(review.todo) = <<v, r>> /\ v \in Variants /\ r \in Rounds
    BY <1>1, PairInHand
<1>3. /\ r \in Nat /\ Runs \in Nat
    BY <1>2, ReviewAssumption DEF ReviewAssumption, Rounds
<1>4. \A c \in Columns : tables[v][c] = (r + 1) * Runs
    BY DEF VerifyRound, CheckState
<1>5. (r + 1) * Runs = r * Runs + Runs /\ r * Runs \in Nat
    BY <1>3
<1>6. \A c \in Columns : Done(c) = Runs
    BY <1>1 DEF Done
<1>7. ASSUME NEW i \in took PROVE s(i).at = Undisturbed(s(i).case, r, s(i).run)
  <2>1. /\ Column[s(i).case] \in Columns /\ s(i).at \in Nat /\ s(i).run \in Nat
        /\ Own(s(i).case, s(i).run) \in Nat
    <3>1. i \in OfPair(<<v, r>>[1], <<v, r>>[2])
      OBVIOUS
    <3>2. /\ Column[s(i).case] \in Columns /\ s(i).at \in Nat /\ s(i).run \in Run0
      BY <1>1, <3>1, OnRecord
    <3>3. s(i).run \in Nat
      BY <3>2 DEF Run0
    <3> QED
      BY <3>2, <3>3 DEF Own
  <2>2. s(i).at + Done(Column[s(i).case]) = tables[v][Column[s(i).case]] + Own(s(i).case, s(i).run)
    BY <1>1, <1>2 DEF RoundInHand
  <2>3. s(i).at + Runs = r * Runs + Runs + Own(s(i).case, s(i).run)
    BY <1>4, <1>5, <1>6, <2>1, <2>2
  <2>4. PICK m \in Nat : m = r * Runs
    BY <1>5
  <2>5. s(i).at = m + Own(s(i).case, s(i).run)
    BY <1>3, <2>1, <2>3, <2>4, SMTT(60)
  <2> QED
    BY <2>4, <2>5 DEF Undisturbed, Own
<1>8. EachOnce(<<v, r>>)
    BY <1>1, <1>2 DEF RoundInHand
<1>9. {CaseOrder[i] : i \in DOMAIN CaseOrder} = Cases
    BY CaseFacts DEF Cases
<1>10. ASSUME NEW i \in took
       PROVE  [variant |-> s(i).variant, round |-> s(i).round, case |-> s(i).case, run |-> s(i).run]
                \in Planned(v, r)
  <2>1. i \in OfPair(<<v, r>>[1], <<v, r>>[2])
    OBVIOUS
  <2>2. s(i).variant = v /\ s(i).round = r /\ s(i).case \in Cases /\ s(i).run \in Run0
    BY <1>1, <2>1, OnRecord
  <2> QED
    BY <1>9, <2>2 DEF Planned, Run0
<1>11. ASSUME NEW x \in Planned(v, r)
       PROVE  \E i \in took :
                x = [variant |-> s(i).variant, round |-> s(i).round, case |-> s(i).case, run |-> s(i).run]
  <2>1. /\ x.case \in Cases /\ x.run \in Run0
        /\ x = [variant |-> v, round |-> r, case |-> x.case, run |-> x.run]
    BY <1>9 DEF Planned, Run0
  <2>2. PICK j \in 1..6 : x.case = CaseOrder[j]
    BY <2>1 DEF Cases
  <2>3. Yet(j, x.run)
    BY <1>1 DEF Yet
  <2>4. PICK i \in took : s(i).case = CaseOrder[j] /\ s(i).run = x.run
    BY <1>1, <1>2, <2>1, <2>3 DEF RoundInHand
  <2>5. s(i).variant = v /\ s(i).round = r
    BY DEF OfPair
  <2> QED
    BY <2>1, <2>2, <2>4, <2>5
<1>12. {[variant |-> s(i).variant, round |-> s(i).round, case |-> s(i).case, run |-> s(i).run] : i \in took}
         = Planned(v, r)
    BY <1>10, <1>11
<1> QED
    BY <1>7, <1>8, <1>12 DEF Whole

LEMMA PairsFinite == IsFiniteSet(Pairs)
<1>1. Len(RoundOrder) \in Nat
    BY ReviewAssumption DEF ReviewAssumption
<1>2. IsFiniteSet(Rounds)
    BY <1>1, FS_Interval DEF Rounds
<1>3. IsFiniteSet({"base"}) /\ IsFiniteSet({"feature"})
    BY FS_Singleton
<1>4. Variants = {"base"} \cup {"feature"}
    BY DEF Variants
<1>5. IsFiniteSet(Variants)
    BY <1>3, <1>4, FS_Union
<1> QED
    BY <1>2, <1>5, FS_Product DEF Pairs

LEMMA ReviewStart == ReviewInit => ReviewInv
<1> SUFFICES ASSUME ReviewInit PROVE ReviewInv
    OBVIOUS
<1> USE DEF ReviewInit
<1>1. /\ 0 \in Run0 /\ 1 \in 1..6 /\ <<>> \in Seq(Pairs) /\ "idle" \in ReviewPhase
      /\ <<>> \in Seq(SampleRecord)
    BY ReviewAssumption DEF ReviewAssumption, Run0, ReviewPhase
<1>2. review \in Review /\ review.phase = "idle"
    BY <1>1 DEF BetweenRuns, Review
<1>3. results \in [samples : Seq(SampleRecord), completed : SUBSET Pairs, complete : BOOLEAN]
      /\ results.completed = {} /\ ~results.complete
    BY <1>1
<1>4. ReviewType
    BY <1>2, <1>3 DEF ReviewType
<1> QED
    BY <1>2, <1>3, <1>4 DEF ReviewInv, Fresh, InRound

LEMMA ReviewStep == ReviewInv /\ [ReviewNext]_reviewVars => ReviewInv'
<1> SUFFICES ASSUME ReviewInv, [ReviewNext]_reviewVars PROVE ReviewInv'
    OBVIOUS
<1>1. ReviewType /\ (review.phase \notin {"idle", "pairs"} => review.todo # <<>>) /\ review \in Review
    BY DEF ReviewInv, ReviewType
<1>2. ReviewType'
    BY <1>1, ReviewTypeStep
\* Most steps leave the results alone, and are in no round afterwards.
<1>3. ASSUME results' = results PROVE (\A p \in results.completed : Whole(p))'
                                       /\ (results.complete => results.completed = Pairs)'
  <2>1. \A p \in results.completed : Whole(p)'
    BY <1>1, <1>3, WholeStays DEF ReviewInv
  <2> QED
    BY <1>3, <2>1 DEF ReviewInv
<1>4. ASSUME results' = results, review'.phase \in {"idle", "stopping"}, review'.phase = "stopping" => review'.todo # <<>>
      PROVE ReviewInv'
    BY <1>2, <1>3, <1>4 DEF ReviewInv, Fresh, InRound
<1>5. BetweenRuns(review.starts).phase = "idle"
    BY DEF BetweenRuns
<1>6. Raise => review'.phase = "stopping" /\ review'.todo = review.todo
    BY <1>1 DEF Raise, Review
<1>7. \A phase : Go(phase) => /\ review'.phase = phase /\ review'.todo = review.todo
                              /\ review'.case = review.case /\ review'.sample = review.sample
                              /\ review'.at = review.at
    BY <1>1 DEF Go, Review
<1>8. ASSUME UNCHANGED reviewVars PROVE ReviewInv'
  <2>1. Fresh'
    BY <1>8, SMTT(60) DEF ReviewInv, Fresh, reviewVars, OfPair
  <2>2. (review.phase \in InRound => RoundInHand)'
    BY <1>8 DEF ReviewInv, RoundInHand, reviewVars, OfPair, EachOnce, Done, Yet, SampledCase
  <2> QED
    BY <1>1, <1>2, <1>3, <1>8, <2>1, <2>2 DEF ReviewInv, reviewVars
<1>9. ASSUME NEW first \in Rounds, NEW rounds \in 1 .. Len(RoundOrder) - first, Run(first, rounds)
      PROVE  ReviewInv'
  <2>1. review'.phase = "pairs" /\ review'.case = 1 /\ review'.sample = 0 /\ results' = results
    BY <1>9 DEF Run, BetweenRuns
  <2> QED
    BY <1>2, <1>3, <2>1 DEF ReviewInv, Fresh, InRound
<1>10. CASE BeginRound
  <2>1. CASE MayBegin
    <3>1. /\ review'.phase = "starting" /\ review'.todo = review.todo /\ results' = results
          /\ review'.case = 1 /\ review'.sample = 0 /\ review'.todo # <<>>
      BY <1>7, <1>10, <2>1 DEF BeginRound, ReviewInv, Fresh
    <3>2. /\ Head(review.todo) = <<ThisVariant, ThisRound>>
      BY <1>1, <1>10, PairInHand DEF BeginRound
    <3>3. Fresh'
      BY <2>1, <3>1, <3>2 DEF Fresh, MayBegin, OfPair, ThisVariant, ThisRound
    <3> QED
      BY <1>2, <1>3, <3>1, <3>3 DEF ReviewInv, InRound
  <2>2. CASE ~MayBegin
    BY <1>4, <1>5, <1>10, <2>2 DEF BeginRound
  <2> QED
    BY <2>1, <2>2
<1>11. CASE StartServer
  <2>1. CASE Go("sampling")
    <3>1. /\ review'.phase = "sampling" /\ review'.todo = review.todo /\ results' = results
          /\ review'.case = 1 /\ review'.sample = 0 /\ review'.todo # <<>>
          /\ Head(review.todo) \notin results.completed
          /\ OfPair(Head(review.todo)[1], Head(review.todo)[2]) = {}
      BY <1>7, <1>11, <2>1 DEF StartServer, ReviewInv, Fresh
    <3>2. OfPair(Head(review.todo)[1], Head(review.todo)[2])' = {} /\ Head(review.todo)' = Head(review.todo)
      BY <3>1 DEF OfPair
    <3>3. \A j \in 1..6, k \in Run0 : ~Yet(j, k)'
      BY <3>1 DEF Yet, Run0
    <3>4. RoundInHand'
      BY <3>1, <3>2, <3>3 DEF RoundInHand, EachOnce
    <3> QED
      BY <1>2, <1>3, <3>1, <3>4 DEF ReviewInv, Fresh, InRound
  <2>2. CASE Raise
    BY <1>1, <1>4, <1>6, <1>11, <2>2 DEF StartServer
  <2> QED
    BY <1>11, <2>1, <2>2 DEF StartServer
<1>12. CASE TakeSample
  <2>1. CASE review'.phase = "recording"
    <3>1. RoundInHand' /\ results' = results /\ review'.todo # <<>>
      <4>1. review'.todo = review.todo /\ review.todo # <<>>
        BY <1>1, <1>12 DEF TakeSample, Review
      <4> QED
        BY <1>12, <2>1, <4>1, TakeKeeps DEF TakeSample
    <3> QED
      BY <1>2, <1>3, <2>1, <3>1 DEF ReviewInv, Fresh, InRound
  <2>2. CASE review'.phase # "recording"
    <3>1. review' = [review EXCEPT !.phase = "stopping", !.failed = TRUE] /\ results' = results
      <4>1. review' # [review EXCEPT !.phase = "recording", !.at = tables[ThisVariant][Column[SampledCase]]]
        BY <1>1, <2>2 DEF Review
      <4> QED
        BY <1>12, <4>1 DEF TakeSample
    <3>2. review'.phase = "stopping" /\ review'.todo = review.todo /\ review.todo # <<>>
      BY <1>1, <1>12, <3>1 DEF Review, TakeSample
    <3> QED
      BY <1>4, <3>1, <3>2
  <2> QED
    BY <2>1, <2>2
<1>13. CASE RecordSample
  <2>1. review.phase = "recording" /\ review.todo # <<>> /\ RoundInHand
    BY <1>1, <1>13 DEF RecordSample, ReviewInv, InRound
  <2>2. RoundInHand' /\ review'.phase \in {"sampling", "verifying"} /\ review'.todo # <<>>
    BY <1>1, <1>13, <2>1, RecordKeeps, RecordMoves
  <2>3. results'.completed = results.completed /\ results'.complete = results.complete
    BY <1>1, <1>13, SMTT(60) DEF RecordSample, ReviewType
  <2>4. <<ThisVariant, ThisRound>> \notin results.completed
    BY <1>1, <2>1, PairInHand DEF RoundInHand
  <2>5. \A p \in results.completed : Whole(p)'
    <3>1. results.completed \subseteq Pairs
      BY <1>1 DEF ReviewType
    <3> QED
      BY <1>1, <1>13, <2>1, <2>4, <3>1, WholeStays DEF ReviewInv
  <2> QED
    BY <1>2, <2>2, <2>3, <2>5 DEF ReviewInv, Fresh, InRound
<1>14. CASE Fails
    BY <1>1, <1>4, <1>6, <1>14 DEF Fails
<1>15. CASE VerifyRound
  <2>1. CASE results' = results
    <3>1. review'.phase = "stopping" /\ review'.todo = review.todo /\ review.todo # <<>>
      BY <1>1, <1>6, <1>7, <1>15 DEF VerifyRound
    <3> QED
      BY <1>4, <2>1, <3>1
  <2>2. CASE results' # results
    <3>1. /\ results' = [results EXCEPT !.completed = @ \cup {<<ThisVariant, ThisRound>>}]
          /\ review'.phase = "stopping" /\ review'.todo = review.todo /\ review.todo # <<>>
      BY <1>1, <1>7, <1>15, <2>2 DEF VerifyRound
    <3>2. /\ results'.samples = results.samples /\ results'.complete = results.complete
          /\ results'.completed = results.completed \cup {<<ThisVariant, ThisRound>>}
      BY <1>1, <3>1 DEF ReviewType
    <3>3. results'.completed # results.completed
      BY <1>1, <2>2, <3>1 DEF ReviewType
    <3>4. Whole(<<ThisVariant, ThisRound>>)
      BY <1>15, <3>3, VerifiedIsWhole
    <3>5. PICK q : q = <<ThisVariant, ThisRound>>
      OBVIOUS
    <3>6. \A p \in results'.completed : Whole(p)
      BY <3>2, <3>4 DEF ReviewInv
    <3>7. \A p \in results'.completed : Whole(p)'
      BY <1>1, <3>2, <3>6, WholeStays
    <3>8. results'.complete => results'.completed = Pairs
      BY <1>1, <1>2, <3>2 DEF ReviewInv, ReviewType
    <3> QED
      BY <1>2, <3>1, <3>7, <3>8 DEF ReviewInv, Fresh, InRound
  <2> QED
    BY <2>1, <2>2
<1>16. CASE StopServer
  <2>1. results' = results
    BY <1>16 DEF StopServer
  <2>2. CASE review' = BetweenRuns(review.starts)
    BY <1>4, <1>5, <2>1, <2>2
  <2>3. CASE review' = [review EXCEPT !.phase = "pairs", !.todo = Tail(@), !.case = 1, !.sample = 0]
    <3>1. review'.phase = "pairs" /\ review'.case = 1 /\ review'.sample = 0
      BY <1>1, <2>3 DEF Review
    <3> QED
      BY <1>2, <1>3, <2>1, <3>1 DEF ReviewInv, Fresh, InRound
  <2> QED
    BY <1>16, <2>2, <2>3 DEF StopServer
<1>17. CASE FinishRun
  <2>1. /\ results'.samples = results.samples /\ results'.completed = results.completed
        /\ results'.complete = (Cardinality(results.completed) = Cardinality(Pairs))
        /\ review'.phase = "idle"
    BY <1>1, <1>5, <1>17 DEF FinishRun, ReviewType
  <2>2. \A p \in results.completed : Whole(p)'
    BY <1>1, <2>1, WholeStays DEF ReviewInv
  <2>3. results'.complete => results.completed = Pairs
    <3>1. results.completed \subseteq Pairs
      BY <1>1 DEF ReviewType
    <3> QED
      BY <2>1, <3>1, PairsFinite, FS_Subset
  <2> QED
    BY <1>2, <2>1, <2>2, <2>3 DEF ReviewInv, Fresh, InRound
<1>18. CASE KillRun
    BY <1>4, <1>5, <1>18 DEF KillRun
<1>19. CASE StopByHand
    BY <1>4, <1>19 DEF StopByHand
<1> QED
    BY <1>8, <1>9, <1>10, <1>11, <1>12, <1>13, <1>14, <1>15, <1>16, <1>17, <1>18, <1>19 DEF ReviewNext

(***************************************************************************)
(* For any number of rounds, samples and starts, whatever fails or is       *)
(* killed: a completed pair has each of its samples once, from tables that  *)
(* had seen the updates they should have.                                   *)
(***************************************************************************)
THEOREM CompletedRoundsAreWhole == ReviewSpec => []CompletedIsWhole
<1>1. ReviewInv => CompletedIsWhole
    BY DEF ReviewInv, CompletedIsWhole, Whole, EachOnce
<1> QED
    BY <1>1, ReviewStart, ReviewStep, PTL DEF ReviewSpec

-----------------------------------------------------------------------------
(***************************************************************************)
(* What the figures of some processes come to.                              *)
(***************************************************************************)

\* Figures of processes, and that of a process that may have none.
Readings(f) == DOMAIN f \subseteq Pid /\ \A p \in DOMAIN f : f[p] \in Nat
At(f, p) == IF p \in DOMAIN f THEN f[p] ELSE 0

LEMMA PidFacts ==
    /\ LastPid \in Nat /\ Root \in Pid /\ Reaper \in Pid /\ Root < Reaper /\ Root # Reaper
    /\ \A p \in Pid : p \in Nat
BY SamplerAssumption DEF SamplerAssumption, Pid

LEMMA AtIsNumber ==
    ASSUME NEW f, Readings(f), NEW p
    PROVE  At(f, p) \in Nat
BY DEF Readings, At

\* The running total is that of its recursion.
LEMMA RunningTotals ==
    ASSUME NEW f, Readings(f)
    PROVE  \E u \in [0..LastPid -> Nat] :
               /\ u[0] = 0 /\ \A p \in 1..LastPid : u[p] = u[p - 1] + At(f, p)
               /\ Total(f) = u[LastPid]
<1>1. PICK F : F = [p \in 1..LastPid |-> [x \in Nat |-> x + At(f, p)]]
    OBVIOUS
<1>2. F \in [1..LastPid -> [Nat -> Nat]]
    BY <1>1, AtIsNumber
<1>3. PICK g : Stages(g, LastPid, Nat, 0, F)
    BY <1>2, PidFacts, StagesExist
<1>4. g \in [0..LastPid -> Nat] /\ g[0] = 0 /\ \A p \in 1..LastPid : g[p] = F[p][g[p - 1]]
    BY <1>3 DEF Stages
<1>5. ASSUME NEW p \in 1..LastPid PROVE p \in 0..LastPid /\ p - 1 \in 0..LastPid /\ p # 0
    BY PidFacts
<1>6. \A p \in 1..LastPid : g[p] = g[p - 1] + At(f, p)
    BY <1>1, <1>4, <1>5
<1>7. \A p \in 0..LastPid : g[p] = IF p = 0 THEN 0 ELSE g[p - 1] + At(f, p)
    BY <1>4, <1>6, PidFacts
<1>8. g = [p \in 0..LastPid |-> IF p = 0 THEN 0 ELSE g[p - 1] + At(f, p)]
    BY <1>4, <1>7
<1>9. PICK u : u = RunningTotal(f)
    OBVIOUS
<1>10. u = CHOOSE upTo : upTo = [p \in 0..LastPid |-> IF p = 0 THEN 0 ELSE upTo[p - 1] + At(f, p)]
    BY <1>9 DEF RunningTotal, At
<1>11. u = [p \in 0..LastPid |-> IF p = 0 THEN 0 ELSE u[p - 1] + At(f, p)]
    BY <1>8, <1>10
<1>12. u[0] = 0 /\ \A p \in 1..LastPid : u[p] = u[p - 1] + At(f, p)
    BY <1>5, <1>11, PidFacts
<1> DEFINE T == {p \in 0..LastPid : u[p] \in Nat}
<1>13. 0 \in T
    BY <1>12, PidFacts
<1>14. ASSUME NEW p \in 1..LastPid, p - 1 \in T PROVE p \in T
    BY <1>5, <1>12, <1>14, AtIsNumber
<1>15. 0..LastPid \subseteq T
  <2> HIDE DEF T
  <2> QED
    BY <1>13, <1>14, PidFacts, UpTo
<1>16. u \in [0..LastPid -> Nat]
    BY <1>11, <1>15
<1>17. Total(f) = u[LastPid]
    BY <1>9 DEF Total
<1> QED
    BY <1>12, <1>16, <1>17

LEMMA TotalIsNumber ==
    ASSUME NEW f, Readings(f)
    PROVE  Total(f) \in Nat
<1>1. PICK u \in [0..LastPid -> Nat] : Total(f) = u[LastPid]
    BY RunningTotals
<1> QED
    BY <1>1, PidFacts

\* Figures added process by process add up.
Plus(a, b) == [p \in Pid |-> At(a, p) + At(b, p)]

LEMMA TotalOfPlus ==
    ASSUME NEW a, NEW b, Readings(a), Readings(b)
    PROVE  /\ Readings(Plus(a, b)) /\ \A p \in Pid : At(Plus(a, b), p) = At(a, p) + At(b, p)
           /\ Total(Plus(a, b)) = Total(a) + Total(b)
<1>1. Readings(Plus(a, b)) /\ \A p \in Pid : At(Plus(a, b), p) = At(a, p) + At(b, p)
  <2>1. \A p \in Pid : At(a, p) + At(b, p) \in Nat
    BY AtIsNumber
  <2> QED
    BY <2>1 DEF Plus, Readings, At
<1>2. PICK ua \in [0..LastPid -> Nat] :
          /\ ua[0] = 0 /\ \A p \in 1..LastPid : ua[p] = ua[p - 1] + At(a, p)
          /\ Total(a) = ua[LastPid]
    BY RunningTotals
<1>3. PICK ub \in [0..LastPid -> Nat] :
          /\ ub[0] = 0 /\ \A p \in 1..LastPid : ub[p] = ub[p - 1] + At(b, p)
          /\ Total(b) = ub[LastPid]
    BY RunningTotals
<1>4. PICK us \in [0..LastPid -> Nat] :
          /\ us[0] = 0 /\ \A p \in 1..LastPid : us[p] = us[p - 1] + At(Plus(a, b), p)
          /\ Total(Plus(a, b)) = us[LastPid]
    BY <1>1, RunningTotals
<1> DEFINE T == {p \in 0..LastPid : us[p] = ua[p] + ub[p]}
<1>5. 0 \in T
    BY <1>2, <1>3, <1>4, PidFacts
<1>6. ASSUME NEW p \in 1..LastPid, p - 1 \in T PROVE p \in T
  <2>1. p - 1 \in 0..LastPid /\ p \in 0..LastPid /\ p \in Pid
    BY PidFacts DEF Pid
  <2>2. At(Plus(a, b), p) = At(a, p) + At(b, p)
    BY <1>1, <2>1
  <2>3. PICK x \in Nat, y \in Nat, v \in Nat, w \in Nat :
            x = ua[p - 1] /\ y = ub[p - 1] /\ v = At(a, p) /\ w = At(b, p)
    BY <2>1, AtIsNumber
  <2>4. us[p - 1] = x + y
    BY <1>6, <2>3
  <2>5. ua[p] = x + v /\ ub[p] = y + w
    BY <1>2, <1>3, <2>3
  <2>6. us[p] = (x + y) + (v + w)
    BY <1>4, <2>2, <2>3, <2>4
  <2>7. us[p] = ua[p] + ub[p]
    BY <2>5, <2>6
  <2> QED
    BY <2>1, <2>7
<1>7. 0..LastPid \subseteq T
  <2> HIDE DEF T
  <2> QED
    BY <1>5, <1>6, PidFacts, UpTo
<1>8. LastPid \in T
    BY <1>7, PidFacts
<1> QED
    BY <1>1, <1>2, <1>3, <1>4, <1>8

\* What bounds the figures of every process bounds the total.
LEMMA TotalsCompare ==
    ASSUME NEW a, NEW b, Readings(a), Readings(b), \A p \in Pid : At(a, p) <= At(b, p)
    PROVE  Total(a) <= Total(b)
<1>1. PICK ua \in [0..LastPid -> Nat] :
          /\ ua[0] = 0 /\ \A p \in 1..LastPid : ua[p] = ua[p - 1] + At(a, p)
          /\ Total(a) = ua[LastPid]
    BY RunningTotals
<1>2. PICK ub \in [0..LastPid -> Nat] :
          /\ ub[0] = 0 /\ \A p \in 1..LastPid : ub[p] = ub[p - 1] + At(b, p)
          /\ Total(b) = ub[LastPid]
    BY RunningTotals
<1> DEFINE T == {p \in 0..LastPid : ua[p] <= ub[p]}
<1>3. 0 \in T
    BY <1>1, <1>2, PidFacts
<1>4. ASSUME NEW p \in 1..LastPid, p - 1 \in T PROVE p \in T
  <2>1. p - 1 \in 0..LastPid /\ p \in 0..LastPid /\ p \in Pid
    BY PidFacts DEF Pid
  <2>2. PICK x \in Nat, y \in Nat, v \in Nat, w \in Nat :
            x = ua[p - 1] /\ y = ub[p - 1] /\ v = At(a, p) /\ w = At(b, p)
    BY <2>1, AtIsNumber
  <2>3. x <= y /\ v <= w
    BY <1>4, <2>1, <2>2
  <2>4. ua[p] = x + v /\ ub[p] = y + w
    BY <1>1, <1>2, <2>2
  <2>5. ua[p] <= ub[p]
    BY <2>3, <2>4
  <2> QED
    BY <2>1, <2>5
<1>5. 0..LastPid \subseteq T
  <2> HIDE DEF T
  <2> QED
    BY <1>3, <1>4, PidFacts, UpTo
<1>6. LastPid \in T
    BY <1>5, PidFacts
<1> QED
    BY <1>1, <1>2, <1>6

\* Figures that agree on every process come to the same.
LEMMA TotalsAgree ==
    ASSUME NEW a, NEW b, Readings(a), Readings(b), \A p \in Pid : At(a, p) = At(b, p)
    PROVE  Total(a) = Total(b)
<1>1. \A p \in Pid : At(a, p) <= At(b, p) /\ At(b, p) <= At(a, p)
    BY AtIsNumber
<1>2. Total(a) <= Total(b) /\ Total(b) <= Total(a)
    BY <1>1, TotalsCompare
<1> QED
    BY <1>2, TotalIsNumber

\* No figures come to nothing.
LEMMA TotalOfNone ==
    Readings(Empty) /\ (\A p : At(Empty, p) = 0) /\ Total(Empty) = 0
<1>1. Readings(Empty) /\ \A p : At(Empty, p) = 0
    BY DEF Readings, At, Empty
<1>2. Total(Plus(Empty, Empty)) = Total(Empty) + Total(Empty)
    BY <1>1, TotalOfPlus
<1>3. Total(Plus(Empty, Empty)) = Total(Empty)
    BY <1>1, TotalOfPlus, TotalsAgree
<1> QED
    BY <1>1, <1>2, <1>3, TotalIsNumber

-----------------------------------------------------------------------------
(***************************************************************************)
(* The resource sampler.                                                    *)
(***************************************************************************)

States == {"free", "runs", "zombie", "gone"}
Process == [state : States, parent : Pid, ticks : Nat]
Entry == [parent : Pid, ticks : Nat]

\* What the walk in hand has listed.
Walked == walk.todo \cup DOMAIN walk.table

SamplerType ==
    /\ proc \in [Pid -> Process]
    /\ walk = [todo |-> walk.todo, table |-> walk.table, on |-> walk.on]
    /\ walk.on \in BOOLEAN /\ Walked \subseteq Pid
    /\ walk.table \in [DOMAIN walk.table -> Entry]
    /\ live \in [DOMAIN live -> Nat] /\ Readings(live)
    /\ retired \in Nat /\ sum \in Nat /\ samples \in Nat
    /\ burnt \in [before : Nat, now : Nat]

\* Every process there has a running parent, of a lower pid, up to the root.
KernelTree ==
    /\ proc[Root].state = "runs" /\ proc[Reaper].state = "runs"
    /\ \A p \in Pid : proc[p].state = "free" => proc[p].ticks = 0
    /\ \A p \in Pid : proc[p].state # "free" /\ p # Root =>
         /\ p >= Reaper
         /\ proc[p].parent < p /\ proc[proc[p].parent].state = "runs"

\* The pids are read in their order, ...
InOrder == \A p \in DOMAIN walk.table, q \in walk.todo : p < q

\* ... none that is below one of them and there still was missed, ...
NoneMissed ==
    /\ Root \in Walked
    /\ \A p \in Walked : proc[p].state # "free"
    /\ \A p \in There, q \in Walked : p <= q => p \in Walked

\* ... so that the table holds the parent of whatever it holds.
ParentsRead ==
    \A p \in DOMAIN walk.table \ {Root} :
        walk.table[p].parent \in DOMAIN walk.table /\ walk.table[p].parent < p

\* A process read is not behind its last reading, nor ahead of itself.
ReadSince ==
    /\ \A p \in DOMAIN walk.table : walk.table[p].ticks <= proc[p].ticks
    /\ \A p \in DOMAIN walk.table \cap DOMAIN live : live[p] <= walk.table[p].ticks
    /\ \A p \in DOMAIN live : p \in Walked \/ proc[p].state = "gone"

\* What is retired is of processes that are gone, and is in no reading.
Past(c) ==
    /\ Total(c) = retired
    /\ \A p \in Pid : c[p] + At(live, p) <= proc[p].ticks
    /\ \A p \in Pid : c[p] > 0 => proc[p].state = "gone" /\ (walk.on => p \notin Walked)

\* The ticks burnt before the walk before this one.
Before(b) ==
    /\ Total(b) = burnt.before
    /\ \A p \in Pid : b[p] <= proc[p].ticks
    /\ walk.on => /\ \A p \in DOMAIN live : b[p] <= live[p]
                  /\ \A p \in Walked \ DOMAIN live : b[p] = 0

\* The ticks burnt before the last walk.
Now(n) ==
    /\ Total(n) = burnt.now
    /\ \A p \in Pid : n[p] <= proc[p].ticks
    /\ ~walk.on => /\ \A p \in DOMAIN live : n[p] <= live[p]
                   /\ \A p \in There \ DOMAIN live : n[p] = 0
    /\ walk.on => /\ \A p \in DOMAIN walk.table : n[p] <= walk.table[p].ticks
                  /\ \A p \in There \ Walked : n[p] = 0

SamplerInv ==
    /\ SamplerType /\ KernelTree
    /\ walk.on => InOrder /\ NoneMissed /\ ParentsRead /\ ReadSince
    /\ \A p \in DOMAIN live : proc[p].state # "free"
    /\ sum = retired + Total(live)
    /\ \E c \in [Pid -> Nat] : Past(c)
    /\ \E b \in [Pid -> Nat] : Before(b)
    /\ \E n \in [Pid -> Nat] : Now(n)

\* The steps of the kernel, and what they do to a process.
KernelStep ==
    \/ \E p \in Pid : Burn(p) \/ Exit(p) \/ Reap(p)
    \/ \E p, child \in Pid : Fork(p, child)

KernelMoves ==
    /\ proc' \in [Pid -> Process]
    /\ UNCHANGED <<walk, live, retired, sum, samples, burnt>>
    /\ \A p \in Pid :
         /\ proc[p].ticks <= proc'[p].ticks
         /\ proc[p].state = "gone" => proc'[p].state = "gone"
         /\ proc[p].state # "free" => proc'[p].state # "free"
         /\ p \in There' /\ p \notin There =>
              /\ proc'[p].ticks = 0
              /\ \A q \in Pid : proc[q].state # "free" => q < p

LEMMA KernelKeeps ==
    ASSUME SamplerType, KernelTree, KernelStep
    PROVE  KernelMoves /\ KernelTree'
<1>1. /\ proc \in [Pid -> Process] /\ \A p \in Pid : proc[p] \in Process
      /\ Root \in Pid /\ Reaper \in Pid /\ Root < Reaper /\ \A p \in Pid : p \in Nat
    BY PidFacts DEF SamplerType
<1>2. /\ proc[Root].state = "runs" /\ proc[Reaper].state = "runs"
      /\ \A p \in Pid : proc[p].state = "free" => proc[p].ticks = 0
      /\ \A p \in Pid : proc[p].state # "free" /\ p # Root =>
           /\ p >= Reaper
           /\ proc[p].parent < p /\ proc[proc[p].parent].state = "runs"
    BY DEF KernelTree
<1>3. ASSUME NEW p \in Pid, Burn(p) PROVE KernelMoves /\ KernelTree'
  <2>1. /\ proc' = [proc EXCEPT ![p].ticks = @ + 1] /\ proc[p].state = "runs"
        /\ UNCHANGED <<walk, live, retired, sum, samples, burnt>>
    BY <1>3 DEF Burn
  <2>2. proc[p].ticks \in Nat /\ proc[p].ticks + 1 \in Nat
    BY <1>1 DEF Process
  <2>3. \A q \in Pid : /\ proc'[q].state = proc[q].state /\ proc'[q].parent = proc[q].parent
                       /\ proc'[q].ticks = IF q = p THEN proc[q].ticks + 1 ELSE proc[q].ticks
    BY <1>1, <2>1 DEF Process
  <2>4. proc' \in [Pid -> Process]
    BY <1>1, <2>1, <2>2 DEF Process
  <2>5. There' = There
    BY <2>3 DEF There
  <2>6. \A q \in Pid : proc[q].ticks <= proc'[q].ticks
    BY <1>1, <2>3 DEF Process
  <2>7. KernelMoves
    BY <2>1, <2>3, <2>4, <2>5, <2>6 DEF KernelMoves
  <2>8. KernelTree'
    <3>1. \A q \in Pid : proc[q].parent \in Pid
      BY <1>1 DEF Process
    <3> QED
      BY <1>1, <1>2, <2>1, <2>3, <3>1 DEF KernelTree
  <2> QED
    BY <2>7, <2>8
<1>4. ASSUME NEW p \in Pid, Exit(p) PROVE KernelMoves /\ KernelTree'
  <2>1. /\ proc[p].state = "runs" /\ p # Root /\ p # Reaper
        /\ proc' = [q \in Pid |->
                     IF q = p THEN [proc[q] EXCEPT !.state = "zombie"]
                     ELSE IF proc[q].parent = p THEN [proc[q] EXCEPT !.parent = Reaper]
                     ELSE proc[q]]
        /\ UNCHANGED <<walk, live, retired, sum, samples, burnt>>
    BY <1>4 DEF Exit
  <2>2. \A q \in Pid :
           /\ proc'[q].state = IF q = p THEN "zombie" ELSE proc[q].state
           /\ proc'[q].parent = IF q # p /\ proc[q].parent = p THEN Reaper ELSE proc[q].parent
           /\ proc'[q].ticks = proc[q].ticks
    BY <1>1, <2>1 DEF Process
  <2>3. proc' \in [Pid -> Process]
    BY <1>1, <2>1 DEF Process, States
  <2>4. There' = There
    BY <2>1, <2>2 DEF There
  <2>5. \A q \in Pid : proc[q].ticks <= proc'[q].ticks
    BY <1>1, <2>2 DEF Process
  <2>6. KernelMoves
    BY <2>1, <2>2, <2>3, <2>4, <2>5 DEF KernelMoves
  <2>7. ASSUME NEW q \in Pid, proc'[q].state # "free", q # Root
        PROVE  q >= Reaper /\ proc'[q].parent < q /\ proc'[proc'[q].parent].state = "runs"
    <3>1. proc[q].state # "free"
      BY <2>1, <2>2, <2>7
    <3>2. q >= Reaper /\ proc[q].parent < q /\ proc[proc[q].parent].state = "runs"
      BY <1>2, <2>7, <3>1
    <3>3. CASE q # p /\ proc[q].parent = p
      <4>1. p >= Reaper
        BY <1>2, <2>1
      <4>2. Reaper < q
        BY <1>1, <3>2, <3>3, <4>1
      <4> QED
        BY <1>1, <1>2, <2>1, <2>2, <3>2, <3>3, <4>2
    <3>4. CASE ~(q # p /\ proc[q].parent = p)
      <4>1. proc'[q].parent = proc[q].parent /\ proc[q].parent \in Pid
        BY <1>1, <2>2, <3>4 DEF Process
      <4>2. proc[q].parent # p
        BY <1>1, <3>2, <3>4
      <4> QED
        BY <2>2, <3>2, <4>1, <4>2
    <3> QED
      BY <3>3, <3>4
  <2>8. KernelTree'
    BY <1>1, <1>2, <2>1, <2>2, <2>7 DEF KernelTree
  <2> QED
    BY <2>6, <2>8
<1>5. ASSUME NEW p \in Pid, Reap(p) PROVE KernelMoves /\ KernelTree'
  <2>1. /\ proc' = [proc EXCEPT ![p].state = "gone"] /\ proc[p].state = "zombie"
        /\ UNCHANGED <<walk, live, retired, sum, samples, burnt>>
    BY <1>5 DEF Reap
  <2>2. \A q \in Pid : /\ proc'[q].state = IF q = p THEN "gone" ELSE proc[q].state
                       /\ proc'[q].parent = proc[q].parent /\ proc'[q].ticks = proc[q].ticks
    BY <1>1, <2>1 DEF Process
  <2>3. proc' \in [Pid -> Process]
    BY <1>1, <2>1 DEF Process, States
  <2>4. There' \subseteq There
    BY <2>2 DEF There
  <2>5. \A q \in Pid : proc[q].ticks <= proc'[q].ticks
    BY <1>1, <2>2 DEF Process
  <2>6. KernelMoves
    BY <2>1, <2>2, <2>3, <2>4, <2>5 DEF KernelMoves
  <2>7. \A q \in Pid : proc[q].parent \in Pid
    BY <1>1 DEF Process
  <2>8. KernelTree'
    BY <1>1, <1>2, <2>1, <2>2, <2>7 DEF KernelTree
  <2> QED
    BY <2>6, <2>8
<1>6. ASSUME NEW p \in Pid, NEW child \in Pid, Fork(p, child) PROVE KernelMoves /\ KernelTree'
  <2>1. /\ proc[p].state = "runs" /\ proc[child].state = "free"
        /\ \A q \in Pid : q > child => proc[q].state = "free"
        /\ proc' = [proc EXCEPT ![child] = [state |-> "runs", parent |-> p, ticks |-> 0]]
        /\ UNCHANGED <<walk, live, retired, sum, samples, burnt>>
    BY <1>6 DEF Fork
  <2>2. \A q \in Pid : proc[q].state # "free" => q < child
    BY <1>1, <2>1
  <2>3. \A q \in Pid :
           IF q = child THEN /\ proc'[q].state = "runs" /\ proc'[q].parent = p /\ proc'[q].ticks = 0
                        ELSE proc'[q] = proc[q]
    BY <1>1, <2>1
  <2>4. proc' \in [Pid -> Process]
    BY <1>1, <2>1 DEF Process, States
  <2>5. \A q \in Pid : proc[q].ticks \in Nat /\ proc[q].ticks <= proc'[q].ticks
    BY <1>1, <1>2, <2>1, <2>3 DEF Process
  <2>6. \A q \in Pid : q \in There' /\ q \notin There => q = child
    BY <2>3 DEF There
  <2>7. KernelMoves
    BY <2>1, <2>2, <2>3, <2>4, <2>5, <2>6 DEF KernelMoves
  <2>8. child # Root /\ child # Reaper /\ Reaper < child /\ p < child /\ p # child
    BY <1>1, <1>2, <2>1, <2>2
  <2>9. ASSUME NEW q \in Pid, proc'[q].state # "free", q # Root
        PROVE  q >= Reaper /\ proc'[q].parent < q /\ proc'[proc'[q].parent].state = "runs"
    <3>1. CASE q = child
      BY <1>1, <2>1, <2>3, <2>8, <3>1
    <3>2. CASE q # child
      <4>1. /\ proc'[q] = proc[q] /\ q >= Reaper /\ proc[q].parent < q
            /\ proc[proc[q].parent].state = "runs" /\ proc[q].parent \in Pid
        BY <1>1, <1>2, <2>3, <2>9, <3>2 DEF Process
      <4>2. proc[q].parent # child
        BY <2>1, <4>1
      <4> QED
        BY <2>3, <4>1, <4>2
    <3> QED
      BY <3>1, <3>2
  <2>10. KernelTree'
    BY <1>1, <1>2, <2>3, <2>8, <2>9 DEF KernelTree
  <2> QED
    BY <2>7, <2>10
<1> QED
    BY <1>3, <1>4, <1>5, <1>6 DEF KernelStep

\* What the kernel does disturbs nothing the sampler has read.
LEMMA KernelKeepsReadings ==
    ASSUME SamplerInv, KernelMoves, KernelTree'
    PROVE  SamplerInv'
<1>1. /\ proc' \in [Pid -> Process] /\ walk' = walk /\ live' = live /\ retired' = retired /\ sum' = sum
      /\ samples' = samples /\ burnt' = burnt
    BY DEF KernelMoves
<1>2. \A p \in Pid :
         /\ proc[p].ticks <= proc'[p].ticks
         /\ proc[p].state = "gone" => proc'[p].state = "gone"
         /\ proc[p].state # "free" => proc'[p].state # "free"
         /\ p \in There' /\ p \notin There =>
              /\ proc'[p].ticks = 0
              /\ \A q \in Pid : proc[q].state # "free" => q < p
    BY DEF KernelMoves
<1>3. SamplerType /\ Walked' = Walked /\ Walked \subseteq Pid /\ DOMAIN walk.table \subseteq Walked
      /\ Readings(live) /\ DOMAIN live \subseteq Pid
    BY <1>1 DEF SamplerInv, SamplerType, Walked, Readings
<1>4. /\ \A p \in Pid : p \in Nat /\ proc[p].ticks \in Nat /\ proc'[p].ticks \in Nat
      /\ \A p \in DOMAIN walk.table : walk.table[p].ticks \in Nat
      /\ \A p \in DOMAIN live : live[p] \in Nat
    BY <1>1, <1>3, PidFacts DEF SamplerType, Process, Entry
<1>5. SamplerType'
    BY <1>1, <1>3 DEF SamplerType
<1>6. ASSUME walk.on PROVE InOrder' /\ NoneMissed' /\ ParentsRead' /\ ReadSince'
  <2>1. InOrder /\ NoneMissed /\ ParentsRead /\ ReadSince
    BY <1>6 DEF SamplerInv
  <2>2. InOrder' /\ ParentsRead'
    BY <1>1, <2>1 DEF InOrder, ParentsRead
  <2>3. NoneMissed'
    <3>1. Root \in Walked /\ \A p \in Walked : proc'[p].state # "free"
      BY <1>2, <1>3, <2>1 DEF NoneMissed
    <3>2. ASSUME NEW p \in There', NEW q \in Walked, p <= q PROVE p \in Walked
      <4>1. p \in Pid /\ q \in Pid /\ proc[q].state # "free"
        BY <1>3, <2>1, <3>2 DEF There, NoneMissed
      <4>2. p \in There
        BY <1>2, <1>4, <3>2, <4>1
      <4> QED
        BY <2>1, <3>2, <4>2 DEF NoneMissed
    <3> QED
      BY <1>3, <3>1, <3>2 DEF NoneMissed
  <2>4. ReadSince'
    <3>1. \A p \in DOMAIN walk.table : walk.table[p].ticks <= proc'[p].ticks
      BY <1>2, <1>3, <1>4, <2>1 DEF ReadSince
    <3>2. \A p \in DOMAIN live : p \in Walked \/ proc'[p].state = "gone"
      BY <1>2, <1>3, <2>1 DEF ReadSince
    <3> QED
      BY <1>1, <1>3, <2>1, <3>1, <3>2 DEF ReadSince
  <2> QED
    BY <2>2, <2>3, <2>4
<1>7. \A p \in DOMAIN live : proc'[p].state # "free"
    BY <1>2, <1>3 DEF SamplerInv
<1>8. \E c \in [Pid -> Nat] : Past(c)'
  <2>1. PICK c \in [Pid -> Nat] : Past(c)
    BY DEF SamplerInv
  <2>2. \A p \in Pid : c[p] + At(live, p) <= proc'[p].ticks
    <3>1. \A p \in Pid : c[p] \in Nat /\ At(live, p) \in Nat /\ c[p] + At(live, p) <= proc[p].ticks
      BY <1>3, <2>1, AtIsNumber DEF Past
    <3> QED
      BY <1>2, <1>4, <3>1
  <2>3. \A p \in Pid : c[p] > 0 => proc'[p].state = "gone" /\ (walk.on => p \notin Walked)
    BY <1>2, <2>1 DEF Past
  <2>4. Total(c) = retired
    BY <2>1 DEF Past
  <2>5. Past(c)'
    BY <1>1, <1>3, <2>2, <2>3, <2>4 DEF Past
  <2> QED
    BY <2>5
<1>9. \E b \in [Pid -> Nat] : Before(b)'
  <2>1. PICK b \in [Pid -> Nat] : Before(b)
    BY DEF SamplerInv
  <2>2. \A p \in Pid : b[p] <= proc'[p].ticks
    BY <1>2, <1>4, <2>1 DEF Before
  <2>3. Before(b)'
    BY <1>1, <1>3, <2>1, <2>2 DEF Before
  <2> QED
    BY <2>3
<1>10. \E n \in [Pid -> Nat] : Now(n)'
  <2>1. PICK n \in [Pid -> Nat] : Now(n)
    BY DEF SamplerInv
  <2>2. \A p \in Pid : n[p] <= proc'[p].ticks
    BY <1>2, <1>4, <2>1 DEF Now
  <2>3. \A p \in There' \ There : p \in Pid /\ n[p] = 0
    BY <1>2, <1>4, <2>1, <2>2 DEF There
  <2>4. ~walk.on => \A p \in There' \ DOMAIN live : n[p] = 0
    BY <2>1, <2>3 DEF Now
  <2>5. walk.on => \A p \in There' \ Walked : n[p] = 0
    BY <2>1, <2>3 DEF Now
  <2>6. Now(n)'
    BY <1>1, <1>3, <2>1, <2>2, <2>4, <2>5 DEF Now
  <2> QED
    BY <2>6
<1>11. (sum = retired + Total(live))'
    BY <1>1 DEF SamplerInv
<1> QED
    BY <1>1, <1>5, <1>6, <1>7, <1>8, <1>9, <1>10, <1>11 DEF SamplerInv

\* A walk begins with all processes there, and the figures of the last walk are those before it.
LEMMA ListKeeps ==
    ASSUME SamplerInv, List
    PROVE  SamplerInv'
<1>1. /\ ~walk.on /\ proc' = proc /\ live' = live /\ retired' = retired /\ sum' = sum /\ samples' = samples
      /\ walk' = [todo |-> There, table |-> Empty, on |-> TRUE]
      /\ burnt' = [before |-> burnt.now, now |-> Burnt]
    BY DEF List
<1>2. SamplerType /\ KernelTree /\ There' = There /\ There \subseteq Pid
    BY <1>1 DEF SamplerInv, There
<1>3. /\ walk'.todo = There /\ walk'.table = Empty /\ walk'.on = TRUE /\ DOMAIN Empty = {}
      /\ Walked' = There
    BY <1>1 DEF Walked, Empty
<1>4. Readings(live) /\ DOMAIN live \subseteq Pid
    BY <1>2 DEF SamplerType, Readings
<1>5. PICK t : t = [p \in Pid |-> proc[p].ticks]
    OBVIOUS
<1>6. t \in [Pid -> Nat] /\ (\A p \in Pid : t[p] = proc[p].ticks) /\ Readings(t) /\ Total(t) = Burnt
    BY <1>2, <1>5 DEF SamplerType, Process, Readings, Burnt
<1>7. Burnt \in Nat
    BY <1>6, TotalIsNumber
<1>8. SamplerType'
  <2>1. burnt' \in [before : Nat, now : Nat]
    BY <1>1, <1>2, <1>7 DEF SamplerType
  <2>2. walk'.table \in [DOMAIN walk'.table -> Entry]
    BY <1>3 DEF Empty
  <2>3. walk' = [todo |-> walk'.todo, table |-> walk'.table, on |-> walk'.on]
    BY <1>1
  <2> QED
    BY <1>1, <1>2, <1>3, <2>1, <2>2, <2>3 DEF SamplerType
<1>9. KernelTree'
    BY <1>1, <1>2 DEF KernelTree
<1>10. InOrder' /\ ParentsRead'
    BY <1>3 DEF InOrder, ParentsRead
<1>11. NoneMissed'
  <2>1. Root \in There /\ \A p \in There : proc[p].state # "free"
    BY <1>2, PidFacts DEF There, KernelTree
  <2> QED
    BY <1>1, <1>2, <1>3, <2>1 DEF NoneMissed
<1>12. \A p \in DOMAIN live : p \in There \/ proc[p].state = "gone"
    BY <1>2, <1>4 DEF SamplerInv, SamplerType, There, Process, States
<1>13. ReadSince'
    BY <1>1, <1>3, <1>12 DEF ReadSince
<1>14. \E c \in [Pid -> Nat] : Past(c)'
  <2>1. PICK c \in [Pid -> Nat] : Past(c)
    BY DEF SamplerInv
  <2>2. \A p \in Pid : c[p] > 0 => proc[p].state = "gone" /\ p \notin There
    BY <2>1 DEF Past, There
  <2>3. Past(c)'
    BY <1>1, <1>3, <2>1, <2>2 DEF Past
  <2> QED
    BY <2>3
<1>15. PICK n \in [Pid -> Nat] : Now(n)
    BY DEF SamplerInv
<1>16. Before(n)'
    BY <1>1, <1>3, <1>15 DEF Before, Now
<1>17. Now(t)'
  <2>1. \A p \in Pid : t[p] <= proc[p].ticks
    BY <1>2, <1>6 DEF SamplerType, Process
  <2> QED
    BY <1>1, <1>2, <1>3, <1>6, <2>1 DEF Now
<1>18. (\E b \in [Pid -> Nat] : Before(b)') /\ \E m \in [Pid -> Nat] : Now(m)'
    BY <1>6, <1>16, <1>17
<1> QED
    BY <1>1, <1>3, <1>8, <1>9, <1>10, <1>11, <1>13, <1>14, <1>18 DEF SamplerInv

\* A stat file read, or passed over, leaves what is known of the tree as it should be.
LEMMA ReadKeeps ==
    ASSUME SamplerInv, NEW p \in Pid, ReadStat(p)
    PROVE  SamplerInv'
<1> DEFINE entry == [parent |-> proc[p].parent, ticks |-> proc[p].ticks]
<1>1. /\ walk.on /\ p \in walk.todo /\ \A q \in walk.todo : p <= q
      /\ proc' = proc /\ live' = live /\ retired' = retired /\ sum' = sum /\ samples' = samples
      /\ burnt' = burnt
      /\ walk' = [walk EXCEPT
                   !.todo = @ \ {p},
                   !.table = IF p \in There
                             THEN [q \in DOMAIN @ \cup {p} |-> IF q = p THEN entry ELSE @[q]]
                             ELSE @]
    BY DEF ReadStat, NextPid
<1>2. /\ SamplerType /\ KernelTree /\ InOrder /\ NoneMissed /\ ParentsRead /\ ReadSince
      /\ There' = There /\ There \subseteq Pid
    BY <1>1 DEF SamplerInv, There
<1>3. /\ walk'.on = walk.on /\ walk'.todo = walk.todo \ {p}
      /\ walk'.table = IF p \in There
                       THEN [q \in DOMAIN walk.table \cup {p} |-> IF q = p THEN entry ELSE walk.table[q]]
                       ELSE walk.table
      /\ walk' = [todo |-> walk'.todo, table |-> walk'.table, on |-> walk'.on]
    BY <1>1, <1>2 DEF SamplerType
<1> HIDE DEF entry
<1>4. /\ DOMAIN walk'.table = IF p \in There THEN DOMAIN walk.table \cup {p} ELSE DOMAIN walk.table
      /\ Walked' = IF p \in There THEN Walked ELSE Walked \ {p}
      /\ p \notin DOMAIN walk.table /\ Walked \subseteq Pid
  <2>1. p \notin DOMAIN walk.table
    BY <1>1, <1>2, PidFacts DEF InOrder
  <2> QED
    BY <1>1, <1>2, <1>3, <2>1 DEF Walked, SamplerType
<1>5. /\ \A q \in DOMAIN walk.table : q \in DOMAIN walk'.table /\ walk'.table[q] = walk.table[q]
      /\ p \in There => walk'.table[p] = entry
      /\ \A q \in DOMAIN walk'.table : q \in DOMAIN walk.table \/ (q = p /\ p \in There)
    BY <1>3, <1>4
<1>6. entry \in Entry /\ entry.parent = proc[p].parent /\ entry.ticks = proc[p].ticks /\ proc[p].ticks \in Nat
    BY <1>2 DEF entry, Entry, SamplerType, Process
<1>7. SamplerType'
  <2>1. walk'.table \in [DOMAIN walk'.table -> Entry]
    BY <1>2, <1>3, <1>6 DEF SamplerType
  <2>2. Walked' \subseteq Pid
    BY <1>4
  <2> QED
    BY <1>1, <1>2, <1>3, <2>1, <2>2 DEF SamplerType
<1>8. KernelTree'
    BY <1>1, <1>2 DEF KernelTree
<1>9. p \in Walked /\ DOMAIN walk.table \subseteq Walked /\ walk.todo \subseteq Walked
    BY <1>1 DEF Walked
<1>10. p \notin There => proc[p].state = "gone" /\ p # Root
  <2>1. proc[p].state # "free" /\ proc[p].state \in States
    BY <1>2, <1>9 DEF NoneMissed, SamplerType, Process
  <2> QED
    BY <1>2, <2>1 DEF There, States, KernelTree
<1>11. InOrder'
  <2> SUFFICES ASSUME NEW q \in DOMAIN walk'.table, NEW r \in walk'.todo PROVE q < r
    BY DEF InOrder
  <2>1. r \in walk.todo /\ r # p /\ r \in Nat /\ p \in Nat /\ p < r
    BY <1>1, <1>3, <1>4, <1>9, PidFacts
  <2> QED
    BY <1>2, <1>5, <2>1 DEF InOrder
<1>12. NoneMissed'
  <2>1. Root \in Walked'
    BY <1>2, <1>4, <1>10 DEF NoneMissed
  <2>2. Walked' \subseteq Walked /\ \A q \in Walked : q \in There /\ p # q => q \in Walked'
    BY <1>4
  <2>3. \A q \in There : q \in Walked => q \in Walked'
    BY <1>4
  <2> QED
    BY <1>1, <1>2, <2>1, <2>2, <2>3 DEF NoneMissed
<1>13. ParentsRead'
  <2> SUFFICES ASSUME NEW q \in DOMAIN walk'.table \ {Root}
               PROVE  walk'.table[q].parent \in DOMAIN walk'.table /\ walk'.table[q].parent < q
    BY DEF ParentsRead
  <2>1. CASE q \in DOMAIN walk.table
    BY <1>2, <1>5, <2>1 DEF ParentsRead
  <2>2. CASE q = p /\ p \in There
    <3>1. /\ walk'.table[q].parent = proc[p].parent /\ proc[p].parent \in Pid
          /\ proc[p].parent < p /\ proc[proc[p].parent].state = "runs"
      BY <1>2, <1>5, <1>6, <2>2 DEF KernelTree, SamplerType, Process, There
    <3>2. PICK r \in Pid : r = proc[p].parent
      BY <3>1
    <3>3. r \in There /\ r <= p /\ r < p
      BY <3>1, <3>2, PidFacts DEF There
    <3>4. r \in Walked
      BY <1>2, <1>9, <3>3 DEF NoneMissed
    <3>5. r \notin walk.todo
      BY <1>1, <3>3, PidFacts
    <3>6. r \in DOMAIN walk.table
      BY <3>4, <3>5 DEF Walked
    <3> QED
      BY <1>5, <2>2, <3>1, <3>2, <3>6
  <2> QED
    BY <1>5, <2>1, <2>2
<1>14. PICK c \in [Pid -> Nat] : Past(c)
    BY DEF SamplerInv
<1>15. p \in DOMAIN live => live[p] <= proc[p].ticks
  <2>1. c[p] + At(live, p) <= proc[p].ticks /\ c[p] \in Nat /\ At(live, p) \in Nat
    BY <1>2, <1>14, AtIsNumber DEF Past, SamplerType
  <2> QED
    BY <1>6, <2>1 DEF At
<1>16. ReadSince'
  <2>1. \A q \in DOMAIN walk'.table : walk'.table[q].ticks <= proc[q].ticks
    BY <1>2, <1>5, <1>6 DEF ReadSince
  <2>2. \A q \in DOMAIN walk'.table \cap DOMAIN live : live[q] <= walk'.table[q].ticks
    BY <1>2, <1>5, <1>6, <1>15 DEF ReadSince
  <2>3. \A q \in DOMAIN live : q \in Walked' \/ proc[q].state = "gone"
    BY <1>2, <1>4, <1>10 DEF ReadSince
  <2> QED
    BY <1>1, <2>1, <2>2, <2>3 DEF ReadSince
<1>17. Past(c)'
    BY <1>1, <1>3, <1>4, <1>14 DEF Past
<1>18. PICK b \in [Pid -> Nat] : Before(b)
    BY DEF SamplerInv
<1>19. Before(b)'
    BY <1>1, <1>3, <1>4, <1>18 DEF Before
<1>20. PICK n \in [Pid -> Nat] : Now(n)
    BY DEF SamplerInv
<1>21. Now(n)'
  <2>1. \A q \in DOMAIN walk'.table : n[q] <= walk'.table[q].ticks
    BY <1>1, <1>5, <1>6, <1>20 DEF Now
  <2>2. \A q \in There \ Walked' : n[q] = 0
    BY <1>1, <1>4, <1>20 DEF Now
  <2> QED
    BY <1>1, <1>2, <1>3, <1>20, <2>1, <2>2 DEF Now
<1>22. /\ \E d \in [Pid -> Nat] : Past(d)'
       /\ \E d \in [Pid -> Nat] : Before(d)'
       /\ \E d \in [Pid -> Nat] : Now(d)'
    BY <1>17, <1>19, <1>21
<1>23. (\A q \in DOMAIN live : proc[q].state # "free")' /\ (sum = retired + Total(live))'
    BY <1>1 DEF SamplerInv
<1> QED
    BY <1>7, <1>8, <1>11, <1>12, <1>13, <1>16, <1>22, <1>23 DEF SamplerInv

\* At the end of a walk the tree is all that was read.
LEMMA TreeIsTable ==
    ASSUME SamplerInv, walk.on, walk.todo = {}
    PROVE  Descendants(walk.table, Root) = DOMAIN walk.table
<1>1. /\ NoneMissed /\ ParentsRead /\ Walked = DOMAIN walk.table /\ DOMAIN walk.table \subseteq Pid
      /\ \A p \in Pid : p \in 1..LastPid
    BY DEF SamplerInv, Walked, SamplerType, Pid
<1>2. Root \in DOMAIN walk.table
    BY <1>1 DEF NoneMissed
<1>3. ASSUME NEW S, Root \in S, \A p \in DOMAIN walk.table : walk.table[p].parent \in S => p \in S
      PROVE  DOMAIN walk.table \subseteq S
  <2> DEFINE T == {n \in 0..LastPid : \A p \in DOMAIN walk.table : p <= n => p \in S}
  <2>1. 0 \in T
    BY <1>1, PidFacts
  <2>2. ASSUME NEW n \in 1..LastPid, n - 1 \in T PROVE n \in T
    <3> SUFFICES ASSUME NEW p \in DOMAIN walk.table, p <= n PROVE p \in S
      BY PidFacts
    <3>1. CASE p = Root
      BY <1>3, <3>1
    <3>2. CASE p # Root
      <4>1. PICK q \in DOMAIN walk.table : q = walk.table[p].parent /\ q < p
        BY <1>1, <3>2 DEF ParentsRead
      <4>2. q <= n - 1
        BY <1>1, <4>1, PidFacts
      <4> QED
        BY <1>3, <2>2, <4>1, <4>2
    <3> QED
      BY <3>1, <3>2
  <2>3. 0..LastPid \subseteq T
    <3> HIDE DEF T
    <3> QED
      BY <2>1, <2>2, PidFacts, UpTo
  <2>4. LastPid \in T
    BY <2>3, PidFacts
  <2> QED
    BY <1>1, <2>4
<1>4. DOMAIN walk.table \cup {Root} = DOMAIN walk.table
    BY <1>2
<1>5. DOMAIN walk.table \subseteq Descendants(walk.table, Root)
    BY <1>3 DEF Descendants
<1> QED
    BY <1>4, <1>5 DEF Descendants

\* What leaves the tree, and what has been read of it.
Left == Restrict(live, DOMAIN live \ DOMAIN walk.table)
Ticks == [p \in DOMAIN walk.table |-> walk.table[p].ticks]

\* A sample takes over the readings of the table and retires what was not met again.
LEMMA SampleMoves ==
    ASSUME SamplerInv, Sample
    PROVE  /\ walk.on /\ walk.todo = {} /\ walk' = NoWalk /\ proc' = proc /\ burnt' = burnt
           /\ samples' = samples + 1
           /\ live' = Ticks /\ retired' = retired + Total(Left) /\ sum' = retired' + Total(Ticks)
           /\ Readings(Ticks) /\ Ticks \in [DOMAIN walk.table -> Nat] /\ DOMAIN walk.table \subseteq Pid
           /\ Readings(Left)
           /\ \A p \in Pid : /\ At(Ticks, p) = IF p \in DOMAIN walk.table THEN walk.table[p].ticks ELSE 0
                             /\ At(Left, p) = IF p \in DOMAIN walk.table THEN 0 ELSE At(live, p)
<1>1. walk.on /\ walk.todo = {} /\ walk' = NoWalk /\ proc' = proc /\ burnt' = burnt /\ samples' = samples + 1
    BY DEF Sample
<1>2. Descendants(walk.table, Root) \cap DOMAIN walk.table = DOMAIN walk.table
    BY <1>1, TreeIsTable
<1>3. /\ live' = Ticks /\ retired' = retired + Retire(live, Ticks) /\ sum' = retired' + Total(live')
    BY <1>2 DEF Sample, Ticks
<1>4. DOMAIN Ticks = DOMAIN walk.table /\ Retire(live, Ticks) = Total(Left)
    BY DEF Ticks, Retire, Left
<1>5. /\ DOMAIN walk.table \subseteq Pid /\ walk.table \in [DOMAIN walk.table -> Entry] /\ Readings(live)
    BY DEF SamplerInv, SamplerType, Walked
<1>6. \A p \in DOMAIN walk.table : walk.table[p].ticks \in Nat
    BY <1>5 DEF Entry
<1>7. Ticks \in [DOMAIN walk.table -> Nat] /\ Readings(Ticks)
    BY <1>5, <1>6 DEF Ticks, Readings
<1>8. Left = [p \in DOMAIN live \ DOMAIN walk.table |-> live[p]]
    BY DEF Left, Restrict
<1>9. Readings(Left)
    BY <1>5, <1>8 DEF Readings
<1>10. \A p \in Pid : /\ At(Ticks, p) = IF p \in DOMAIN walk.table THEN walk.table[p].ticks ELSE 0
                      /\ At(Left, p) = IF p \in DOMAIN walk.table THEN 0 ELSE At(live, p)
    BY <1>4, <1>8 DEF At, Ticks
<1> QED
    BY <1>1, <1>3, <1>4, <1>5, <1>7, <1>9, <1>10

LEMMA SampleKeeps ==
    ASSUME SamplerInv, Sample
    PROVE  SamplerInv'
<1>1. /\ walk.on /\ walk.todo = {} /\ walk' = NoWalk /\ proc' = proc /\ burnt' = burnt
      /\ samples' = samples + 1
      /\ live' = Ticks /\ retired' = retired + Total(Left) /\ sum' = retired' + Total(Ticks)
      /\ Readings(Ticks) /\ Ticks \in [DOMAIN walk.table -> Nat] /\ DOMAIN walk.table \subseteq Pid
      /\ Readings(Left)
      /\ \A p \in Pid : /\ At(Ticks, p) = IF p \in DOMAIN walk.table THEN walk.table[p].ticks ELSE 0
                        /\ At(Left, p) = IF p \in DOMAIN walk.table THEN 0 ELSE At(live, p)
    BY SampleMoves
<1>2. /\ SamplerType /\ KernelTree /\ NoneMissed /\ ReadSince /\ There' = There /\ There \subseteq Pid
      /\ Walked = DOMAIN walk.table
    BY <1>1 DEF SamplerInv, There, Walked
<1>3. /\ walk'.todo = {} /\ walk'.table = Empty /\ walk'.on = FALSE /\ DOMAIN Empty = {} /\ Walked' = {}
      /\ walk' = [todo |-> walk'.todo, table |-> walk'.table, on |-> walk'.on]
    BY <1>1 DEF NoWalk, Empty, Walked
<1>4. Total(Left) \in Nat /\ Total(Ticks) \in Nat /\ retired' \in Nat /\ sum' \in Nat /\ samples' \in Nat
    BY <1>1, <1>2, TotalIsNumber DEF SamplerType
<1>5. DOMAIN live' = DOMAIN walk.table /\ \A p \in DOMAIN walk.table : live'[p] = walk.table[p].ticks
    BY <1>1 DEF Ticks
<1>6. SamplerType'
  <2>1. walk'.table \in [DOMAIN walk'.table -> Entry]
    BY <1>3 DEF Empty
  <2>2. live' \in [DOMAIN live' -> Nat] /\ Readings(live)'
    BY <1>1, <1>5 DEF Readings
  <2> QED
    BY <1>1, <1>2, <1>3, <1>4, <2>1, <2>2 DEF SamplerType
<1>7. KernelTree'
    BY <1>1, <1>2 DEF KernelTree
<1>8. \A p \in DOMAIN live' : proc'[p].state # "free"
    BY <1>1, <1>2, <1>5 DEF NoneMissed
<1>9. \E d \in [Pid -> Nat] : Past(d)'
  <2>1. PICK c \in [Pid -> Nat] : Past(c)
    BY DEF SamplerInv
  <2>2. PICK d : d = Plus(c, Left)
    OBVIOUS
  <2>3. Readings(c) /\ \A p \in Pid : At(c, p) = c[p]
    BY <2>1 DEF Readings, At
  <2>4. Total(d) = retired + Total(Left) /\ \A p \in Pid : d[p] = c[p] + At(Left, p)
    BY <1>1, <2>1, <2>2, <2>3, TotalOfPlus DEF Past, Plus
  <2>5. \A p \in Pid : c[p] \in Nat /\ At(Left, p) \in Nat /\ At(live, p) \in Nat /\ proc[p].ticks \in Nat
    BY <1>1, <1>2, <2>1, AtIsNumber DEF SamplerType, Process
  <2>6. d \in [Pid -> Nat]
    BY <2>2, <2>4, <2>5 DEF Plus
  <2>7. ASSUME NEW p \in Pid
        PROVE  d[p] + At(Ticks, p) <= proc[p].ticks /\ (d[p] > 0 => proc[p].state = "gone")
    <3>1. c[p] + At(live, p) <= proc[p].ticks /\ (c[p] > 0 => proc[p].state = "gone" /\ p \notin Walked)
      BY <1>1, <2>1 DEF Past
    <3>2. CASE p \in DOMAIN walk.table
      <4>1. c[p] = 0 /\ At(Left, p) = 0 /\ At(Ticks, p) = walk.table[p].ticks
        BY <1>1, <1>2, <2>5, <3>1, <3>2
      <4>2. walk.table[p].ticks <= proc[p].ticks /\ walk.table[p].ticks \in Nat
        BY <1>1, <1>2, <3>2, <4>1, AtIsNumber DEF ReadSince
      <4> QED
        BY <2>4, <4>1, <4>2
    <3>3. CASE p \notin DOMAIN walk.table
      <4>1. At(Left, p) = At(live, p) /\ At(Ticks, p) = 0
        BY <1>1, <3>3
      <4>2. At(live, p) > 0 => proc[p].state = "gone"
        BY <1>2, <3>3 DEF At, ReadSince
      <4> QED
        BY <2>4, <2>5, <3>1, <4>1, <4>2
    <3> QED
      BY <3>2, <3>3
  <2>8. Past(d)'
    BY <1>1, <1>3, <2>4, <2>7 DEF Past
  <2> QED
    BY <2>6, <2>8
<1>10. \E b \in [Pid -> Nat] : Before(b)'
  <2>1. PICK b \in [Pid -> Nat] : Before(b)
    BY DEF SamplerInv
  <2>2. Before(b)'
    BY <1>1, <1>3, <2>1 DEF Before
  <2> QED
    BY <2>2
<1>11. \E n \in [Pid -> Nat] : Now(n)'
  <2>1. PICK n \in [Pid -> Nat] : Now(n)
    BY DEF SamplerInv
  <2>2. \A p \in DOMAIN live' : n[p] <= live'[p]
    BY <1>1, <1>5, <2>1 DEF Now
  <2>3. \A p \in There \ DOMAIN live' : n[p] = 0
    BY <1>1, <1>2, <1>5, <2>1 DEF Now
  <2>4. Now(n)'
    BY <1>1, <1>2, <1>3, <2>1, <2>2, <2>3 DEF Now
  <2> QED
    BY <2>4
<1>12. sum' = retired' + Total(live')
    BY <1>1
<1> QED
    BY <1>3, <1>6, <1>7, <1>8, <1>9, <1>10, <1>11, <1>12 DEF SamplerInv

LEMMA SamplerStart == SamplerInit => SamplerInv
<1> SUFFICES ASSUME SamplerInit PROVE SamplerInv
    OBVIOUS
<1>1. /\ proc = [p \in Pid |-> [state |-> IF p \in {Root, Reaper} THEN "runs" ELSE "free",
                                parent |-> Root, ticks |-> 0]]
      /\ walk = NoWalk /\ live = Empty /\ retired = 0 /\ sum = 0 /\ samples = 0
      /\ burnt = [before |-> 0, now |-> 0]
    BY DEF SamplerInit
<1>2. DOMAIN Empty = {} /\ Readings(live) /\ (\A p : At(live, p) = 0) /\ Total(live) = 0
    BY <1>1, TotalOfNone DEF Empty
<1>3. /\ walk.todo = {} /\ walk.table = Empty /\ walk.on = FALSE /\ Walked = {}
      /\ walk = [todo |-> walk.todo, table |-> walk.table, on |-> walk.on]
    BY <1>1, <1>2 DEF NoWalk, Walked
<1>4. proc \in [Pid -> Process]
    BY <1>1, PidFacts DEF Process, States
<1>5. SamplerType
  <2>1. walk.table \in [DOMAIN walk.table -> Entry] /\ live \in [DOMAIN live -> Nat]
    BY <1>1, <1>3 DEF Empty
  <2> QED
    BY <1>1, <1>2, <1>3, <1>4, <2>1 DEF SamplerType
<1>6. \A p \in Pid : proc[p].state = (IF p \in {Root, Reaper} THEN "runs" ELSE "free")
                     /\ proc[p].parent = Root /\ proc[p].ticks = 0
    BY <1>1
<1>7. KernelTree
    BY <1>6, PidFacts DEF KernelTree
<1>8. PICK z : z = [p \in Pid |-> 0]
    OBVIOUS
<1>9. z \in [Pid -> Nat] /\ (\A p \in Pid : z[p] = 0) /\ Total(z) = 0
  <2>1. z \in [Pid -> Nat] /\ \A p \in Pid : z[p] = 0
    BY <1>8
  <2>2. Readings(z) /\ \A p \in Pid : At(z, p) = At(Empty, p)
    BY <2>1, TotalOfNone DEF Readings, At
  <2> QED
    BY <2>1, <2>2, TotalOfNone, TotalsAgree
<1>10. Past(z)
    BY <1>1, <1>2, <1>6, <1>9 DEF Past
<1>11. Before(z) /\ Now(z)
  <2>1. DOMAIN live = {} /\ There \subseteq Pid
    BY <1>1, <1>2 DEF There
  <2>2. burnt.before = 0 /\ burnt.now = 0 /\ \A p \in Pid : z[p] <= proc[p].ticks
    BY <1>1, <1>6, <1>9
  <2> QED
    BY <1>3, <1>9, <2>1, <2>2 DEF Before, Now
<1> QED
    BY <1>1, <1>2, <1>3, <1>5, <1>7, <1>9, <1>10, <1>11 DEF SamplerInv

LEMMA SamplerStep == SamplerInv /\ [SamplerNext]_samplerVars => SamplerInv'
<1> SUFFICES ASSUME SamplerInv, [SamplerNext]_samplerVars PROVE SamplerInv'
    OBVIOUS
<1>1. CASE KernelStep
  <2>1. KernelMoves /\ KernelTree'
    BY <1>1, KernelKeeps DEF SamplerInv
  <2> QED
    BY <2>1, KernelKeepsReadings
<1>2. CASE \E p \in Pid : ReadStat(p)
    BY <1>2, ReadKeeps
<1>3. CASE List
    BY <1>3, ListKeeps
<1>4. CASE Sample
    BY <1>4, SampleKeeps
<1>5. CASE UNCHANGED samplerVars
  <2>1. SamplerType' /\ KernelTree' /\ (InOrder' <=> InOrder) /\ (NoneMissed' <=> NoneMissed)
        /\ (ParentsRead' <=> ParentsRead) /\ (ReadSince' <=> ReadSince)
    BY <1>5 DEF SamplerInv, SamplerType, KernelTree, InOrder, NoneMissed, ParentsRead, ReadSince, There,
                Walked, samplerVars, Readings
  <2>2. \A c : (Past(c)' <=> Past(c)) /\ (Before(c)' <=> Before(c)) /\ (Now(c)' <=> Now(c))
    BY <1>5 DEF Past, Before, Now, samplerVars, Walked, There
  <2> QED
    BY <1>5, <2>1, <2>2 DEF SamplerInv, samplerVars
<1> QED
    BY <1>1, <1>2, <1>3, <1>4, <1>5 DEF SamplerNext, KernelStep

LEMMA SamplerInductive == SamplerSpec => []SamplerInv
BY SamplerStart, SamplerStep, PTL DEF SamplerSpec

\* The ticks of all processes, as figures.
LEMMA BurntIsTotal ==
    ASSUME SamplerType
    PROVE  \E t \in [Pid -> Nat] : Readings(t) /\ Total(t) = Burnt /\ \A p \in Pid : At(t, p) = proc[p].ticks
<1>1. PICK t : t = [p \in Pid |-> proc[p].ticks]
    OBVIOUS
<1>2. t \in [Pid -> Nat] /\ \A p \in Pid : t[p] = proc[p].ticks
    BY <1>1 DEF SamplerType, Process
<1> QED
    BY <1>1, <1>2 DEF Readings, At, Burnt

(***************************************************************************)
(* For any number of pids, ticks and samples, in whatever order processes   *)
(* fork, burn, exit and are reaped between two stat files: the sampler never *)
(* adds up more than the processes have burnt.  What it retired was of      *)
(* processes that are gone and are in no walk, which is what reading the    *)
(* pids in their order ensures: of whatever is there the parent is read.    *)
(***************************************************************************)
THEOREM NoTickIsCountedTwice == SamplerSpec => []NoTickTwice
<1>1. SamplerInv => NoTickTwice
  <2> SUFFICES ASSUME SamplerInv PROVE sum <= Burnt
    BY DEF NoTickTwice
  <2>1. PICK c \in [Pid -> Nat] : Past(c)
    BY DEF SamplerInv
  <2>2. PICK t \in [Pid -> Nat] : Readings(t) /\ Total(t) = Burnt /\ \A p \in Pid : At(t, p) = proc[p].ticks
    BY BurntIsTotal DEF SamplerInv
  <2>3. Readings(c) /\ (\A p \in Pid : At(c, p) = c[p]) /\ Readings(live)
    BY <2>1 DEF Readings, At, SamplerInv, SamplerType
  <2>4. \A p \in Pid : At(Plus(c, live), p) <= At(t, p)
    BY <2>1, <2>2, <2>3, TotalOfPlus DEF Past
  <2>5. Total(Plus(c, live)) <= Total(t)
    BY <2>2, <2>3, <2>4, TotalOfPlus, TotalsCompare
  <2>6. Total(Plus(c, live)) = retired + Total(live)
    BY <2>1, <2>3, TotalOfPlus DEF Past
  <2> QED
    BY <2>2, <2>5, <2>6 DEF SamplerInv
<1> QED
    BY <1>1, SamplerInductive, PTL

\* What a sample adds, compared process by process.
LEMMA SampleAdds ==
    ASSUME SamplerInv, Sample
    PROVE  sum <= sum' /\ (sum' - sum) + burnt.before <= Burnt
<1>1. /\ walk.on /\ walk.todo = {} /\ walk' = NoWalk /\ proc' = proc /\ burnt' = burnt
      /\ live' = Ticks /\ retired' = retired + Total(Left) /\ sum' = retired' + Total(Ticks)
      /\ Readings(Ticks) /\ DOMAIN walk.table \subseteq Pid /\ Readings(Left)
      /\ \A p \in Pid : /\ At(Ticks, p) = IF p \in DOMAIN walk.table THEN walk.table[p].ticks ELSE 0
                        /\ At(Left, p) = IF p \in DOMAIN walk.table THEN 0 ELSE At(live, p)
    BY SampleMoves
<1>2. /\ SamplerType /\ ReadSince /\ Walked = DOMAIN walk.table /\ Readings(live)
      /\ sum = retired + Total(live)
    BY <1>1 DEF SamplerInv, SamplerType, Walked
<1>3. PICK b \in [Pid -> Nat] : Before(b)
    BY DEF SamplerInv
<1>4. PICK t \in [Pid -> Nat] : Readings(t) /\ Total(t) = Burnt /\ \A p \in Pid : At(t, p) = proc[p].ticks
    BY <1>2, BurntIsTotal
<1>5. PICK c \in [Pid -> Nat] : Past(c)
    BY DEF SamplerInv
<1>6. Readings(b) /\ (\A p \in Pid : At(b, p) = b[p]) /\ Total(b) = burnt.before
    BY <1>3 DEF Readings, At, Before
<1>7. ASSUME NEW p \in Pid
      PROVE  /\ At(live, p) <= At(Left, p) + At(Ticks, p)
             /\ (At(Left, p) + At(Ticks, p)) + At(b, p) <= At(live, p) + At(t, p)
  <2>1. PICK l \in Nat, k \in Nat, m \in Nat, x \in Nat, s \in Nat :
            l = At(live, p) /\ k = At(Left, p) /\ m = At(Ticks, p) /\ x = At(b, p) /\ s = At(t, p)
    BY <1>1, <1>2, <1>4, <1>6, AtIsNumber
  <2>2. x <= s /\ l <= s
    <3>1. c[p] \in Nat /\ c[p] + At(live, p) <= proc[p].ticks
      BY <1>5 DEF Past
    <3>2. At(t, p) = proc[p].ticks /\ b[p] <= proc[p].ticks /\ At(b, p) = b[p]
      BY <1>3, <1>4, <1>6 DEF Before
    <3> QED
      BY <2>1, <3>1, <3>2
  <2>3. CASE p \in DOMAIN walk.table
    <3>1. k = 0 /\ m = walk.table[p].ticks /\ m <= s
      BY <1>1, <1>2, <1>4, <2>1, <2>3 DEF ReadSince
    <3>2. CASE p \in DOMAIN live
      <4>1. l = live[p] /\ l <= m
        BY <1>2, <2>1, <2>3, <3>1, <3>2 DEF At, ReadSince
      <4>2. x <= l
        BY <1>1, <1>3, <1>6, <2>1, <3>2, <4>1 DEF Before
      <4> QED
        BY <2>1, <3>1, <4>1, <4>2
    <3>3. CASE p \notin DOMAIN live
      <4>1. l = 0 /\ x = 0
        BY <1>1, <1>2, <1>3, <1>6, <2>1, <2>3, <3>3 DEF At, Before
      <4> QED
        BY <2>1, <3>1, <4>1
    <3> QED
      BY <3>2, <3>3
  <2>4. CASE p \notin DOMAIN walk.table
    <3>1. k = l /\ m = 0
      BY <1>1, <2>1, <2>4
    <3> QED
      BY <2>1, <2>2, <3>1
  <2> QED
    BY <2>3, <2>4
<1>8. PICK r : r = Plus(Left, Ticks)
    OBVIOUS
<1>9. Readings(r) /\ Total(r) = Total(Left) + Total(Ticks) /\ \A p \in Pid : At(r, p) = At(Left, p) + At(Ticks, p)
    BY <1>1, <1>8, TotalOfPlus
<1>10. Total(live) <= Total(r)
    BY <1>2, <1>7, <1>9, TotalsCompare
<1>11. Total(Plus(r, b)) <= Total(Plus(live, t))
  <2>1. \A p \in Pid : At(Plus(r, b), p) <= At(Plus(live, t), p)
    BY <1>2, <1>4, <1>6, <1>7, <1>9, TotalOfPlus
  <2> QED
    BY <1>2, <1>4, <1>6, <1>9, <2>1, TotalOfPlus, TotalsCompare
<1>12. Total(r) + burnt.before <= Total(live) + Burnt
    BY <1>2, <1>4, <1>6, <1>9, <1>11, TotalOfPlus
<1>13. /\ Total(Left) \in Nat /\ Total(Ticks) \in Nat /\ Total(live) \in Nat /\ Total(r) \in Nat
       /\ retired \in Nat /\ burnt.before \in Nat /\ Burnt \in Nat
    BY <1>1, <1>2, <1>4, <1>9, TotalIsNumber DEF SamplerType
<1>14. sum = retired + Total(live) /\ sum' = retired + Total(r)
    BY <1>1, <1>2, <1>9, <1>13
<1> QED
    BY <1>10, <1>12, <1>13, <1>14

(***************************************************************************)
(* For any number of pids, ticks and samples: what a sample reports is      *)
(* never negative, and was burnt since the walk before it began, also when  *)
(* a process ended or escaped the walk before.                              *)
(***************************************************************************)
THEOREM SamplesAreRecent == SamplerSpec => SampleIsRecent
<1> DEFINE Recent == /\ sum' >= sum
                     /\ samples' # samples /\ samples > 0 => sum' - sum <= Burnt - burnt.before
<1>1. SamplerInv /\ [SamplerNext]_samplerVars => [Recent]_samplerVars
  <2> SUFFICES ASSUME SamplerInv, SamplerNext PROVE Recent
    OBVIOUS
  <2>1. sum \in Nat /\ burnt.before \in Nat /\ Burnt \in Nat
    <3>1. SamplerType
      BY DEF SamplerInv
    <3> QED
      BY <3>1, BurntIsTotal, TotalIsNumber DEF SamplerType
  <2>2. CASE Sample
    <3>1. sum' \in Nat /\ SamplerInv'
      BY <2>2, SampleKeeps DEF SamplerInv, SamplerType
    <3> QED
      BY <2>1, <2>2, <3>1, SampleAdds
  <2>3. CASE ~Sample
    <3>1. sum' = sum /\ samples' = samples
      BY <2>3 DEF SamplerNext, Burn, Exit, Reap, ReadStat, Fork, List
    <3> QED
      BY <2>1, <3>1, SMTT(60)
  <2> QED
    BY <2>2, <2>3
<1> QED
    BY <1>1, SamplerInductive, PTL DEF SamplerSpec, SampleIsRecent
=============================================================================
