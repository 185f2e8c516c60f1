----------------------------- MODULE MatrixProofs -----------------------------
(***************************************************************************)
(* Proofs about the coverage matrix: what a merge does to the rows, for any *)
(* manifests, attempts, cases and configurations, and that the matrix says  *)
(* what its history says whatever is merged, edited or overwritten.         *)
(***************************************************************************)
EXTENDS MatrixScoping, NumberProofs, FiniteSetTheorems, SequenceTheorems, TLAPS

-----------------------------------------------------------------------------
(***************************************************************************)
(* Histories.                                                               *)
(***************************************************************************)
InOrder(hist) ==
    \A i, j \in DOMAIN hist : i < j =>
        hist[i].at <= hist[j].at /\ hist[i].attempt # hist[j].attempt

LEMMA HistoryIs ==
    ASSUME NEW hist \in Seq(Attempt)
    PROVE  /\ Len(hist) \in Nat /\ DOMAIN hist = 1..Len(hist)
           /\ \A i \in 1..Len(hist) : /\ hist[i] \in Attempt /\ hist[i].at \in Nat
                                      /\ hist[i].outcome \in Outcomes
                                      /\ hist[i].manifest \in Manifest
<1>1. /\ Len(hist) \in Nat /\ DOMAIN hist = 1..Len(hist)
      /\ \A i \in 1..Len(hist) : hist[i] \in Attempt
    BY LenProperties, ElementOfSeq
<1> QED
    BY <1>1 DEF Attempt

\* A sequence with e put at place p.
LEMMA InsertAtIs ==
    ASSUME NEW S, NEW s \in Seq(S), NEW e \in S, NEW p \in 1..(Len(s) + 1)
    PROVE  LET t == InsertAt(s, p, e)
           IN /\ t \in Seq(S) /\ Len(t) = Len(s) + 1
              /\ \A i \in 1..(p - 1) : t[i] = s[i]
              /\ t[p] = e
              /\ \A i \in p..Len(s) : t[i + 1] = s[i]
<1> DEFINE l == Len(s)
           a == SubSeq(s, 1, p - 1)
           b == SubSeq(s, p, l)
<1>1. l \in Nat /\ p \in Nat /\ p - 1 \in Int /\ \A i \in 1..l : s[i] \in S
    BY LenProperties, ElementOfSeq
<1>2. /\ a \in Seq(S) /\ Len(a) = p - 1
      /\ \A i \in 1..(p - 1) : a[i] = s[i]
  <2>1. \A i \in 1..(p - 1) : s[i] \in S
    BY <1>1
  <2>2. /\ a \in Seq(S) /\ Len(a) = IF 1 <= p - 1 THEN p - 1 - 1 + 1 ELSE 0
        /\ \A i \in 1 .. p - 1 - 1 + 1 : a[i] = s[1 + i - 1]
    BY <1>1, <2>1, SubSeqProperties
  <2>3. p - 1 - 1 + 1 = p - 1 /\ (~(1 <= p - 1) => p - 1 = 0)
    BY <1>1
  <2>4. \A i \in 1..(p - 1) : 1 + i - 1 = i
    OBVIOUS
  <2> QED
    BY <2>2, <2>3, <2>4
<1>3. /\ b \in Seq(S) /\ Len(b) = l - p + 1
      /\ \A i \in 1..(l - p + 1) : b[i] = s[p + i - 1]
  <2>1. \A i \in p..l : s[i] \in S
    BY <1>1
  <2>2. /\ b \in Seq(S) /\ Len(b) = IF p <= l THEN l - p + 1 ELSE 0
        /\ \A i \in 1 .. l - p + 1 : b[i] = s[p + i - 1]
    BY <1>1, <2>1, SubSeqProperties
  <2>3. ~(p <= l) => l - p + 1 = 0
    BY <1>1
  <2> QED
    BY <2>2, <2>3
<1>4. <<e>> \in Seq(S) /\ Len(<<e>>) = 1 /\ <<e>>[1] = e
    OBVIOUS
<1> HIDE DEF a, b
<1>5. PICK c : c = a \o <<e>>
    OBVIOUS
<1>6. /\ c \in Seq(S) /\ Len(c) = p
      /\ \A i \in 1..(p - 1) : c[i] = s[i]
      /\ c[p] = e
  <2>1. /\ c \in Seq(S) /\ Len(c) = Len(a) + Len(<<e>>)
        /\ \A i \in 1..(Len(a) + Len(<<e>>)) :
               c[i] = IF i <= Len(a) THEN a[i] ELSE <<e>>[i - Len(a)]
    BY <1>2, <1>4, <1>5, ConcatProperties
  <2>2. Len(a) + Len(<<e>>) = p
    BY <1>1, <1>2, <1>4
  <2>3. \A i \in 1..(p - 1) : i \in 1..p /\ i <= p - 1
    BY <1>1
  <2>4. p \in 1..p /\ ~(p <= p - 1) /\ p - (p - 1) = 1
    BY <1>1
  <2>5. \A i \in 1..(p - 1) : c[i] = s[i]
    BY <1>2, <2>1, <2>2, <2>3
  <2>6. c[p] = e
    BY <1>2, <1>4, <2>1, <2>2, <2>4
  <2> QED
    BY <2>1, <2>2, <2>5, <2>6
<1>7. PICK t : t = c \o b
    OBVIOUS
<1>8. t \in Seq(S) /\ Len(t) = l + 1
  <2>1. t \in Seq(S) /\ Len(t) = Len(c) + Len(b)
    BY <1>3, <1>6, <1>7, ConcatProperties
  <2>2. p + (l - p + 1) = l + 1
    BY <1>1
  <2> QED
    BY <1>3, <1>6, <2>1, <2>2
<1>9. \A i \in 1..p : t[i] = c[i]
    BY <1>1, <1>3, <1>6, <1>7, ConcatProperties
<1>10. \A i \in p..l : t[i + 1] = s[i]
  <2> SUFFICES ASSUME NEW i \in p..l PROVE t[i + 1] = s[i]
    OBVIOUS
  <2>1. /\ i + 1 - p \in 1..(l - p + 1) /\ p + (i + 1 - p) - 1 = i
        /\ i + 1 \in 1..(p + (l - p + 1)) /\ i + 1 > p
    BY <1>1
  <2>2. t[i + 1] = b[i + 1 - p]
    BY <1>1, <1>3, <1>6, <1>7, <2>1, ConcatProperties
  <2> QED
    BY <1>3, <2>1, <2>2
<1>11. InsertAt(s, p, e) = t
    BY <1>5, <1>7 DEF InsertAt, a, b
<1>12. \A i \in 1..(p - 1) : i \in 1..p
    BY <1>1
<1>13. p \in 1..p
    BY <1>1
<1> QED
    BY <1>6, <1>8, <1>9, <1>10, <1>11, <1>12, <1>13

\* History new is hist with x at place p, before the first later attempt.
Placed(new, hist, x, p) ==
    /\ p \in 1..(Len(hist) + 1)
    /\ new \in Seq(Attempt) /\ Len(new) = Len(hist) + 1
    /\ \A i \in 1..(p - 1) : new[i] = hist[i] /\ hist[i].at <= x.at
    /\ new[p] = x
    /\ \A i \in p..Len(hist) : new[i + 1] = hist[i]
    /\ p \in 1..Len(hist) => hist[p].at > x.at

LEMMA InsertedAt ==
    ASSUME NEW hist \in Seq(Attempt), NEW x \in Attempt
    PROVE  \E p : Placed(InsertByTime(hist, x), hist, x, p)
<1> DEFINE l == Len(hist)
           places == {i \in DOMAIN hist : hist[i].at > x.at} \cup {l + 1}
<1>1. l \in Nat /\ DOMAIN hist = 1..l /\ x.at \in Nat /\ \A i \in 1..l : hist[i].at \in Nat
    BY HistoryIs DEF Attempt
<1>2. PICK p : p = Min(places)
    OBVIOUS
<1>3. p \in places /\ \A q \in places : p <= q
  <2>1. places \in SUBSET Nat /\ places # {}
    BY <1>1
  <2>2. \E q \in places : \A r \in places : q <= r
    <3> HIDE DEF places
    <3> QED
      BY <2>1, LeastNumber
  <2> HIDE DEF places
  <2> QED
    BY <1>2, <2>2 DEF Min
<1>4. p \in 1..(l + 1)
    BY <1>1, <1>3
<1>5. \A i \in 1..(p - 1) : hist[i].at <= x.at
  <2> SUFFICES ASSUME NEW i \in 1..(p - 1) PROVE hist[i].at <= x.at
    OBVIOUS
  <2>1. i \in 1..l /\ i < p
    BY <1>1, <1>4
  <2>2. i \notin places
    BY <1>1, <1>3, <1>4, <2>1
  <2>3. ~(hist[i].at > x.at)
    BY <1>1, <2>1, <2>2
  <2> QED
    BY <1>1, <2>1, <2>3
<1>6. p \in 1..l => hist[p].at > x.at
    BY <1>1, <1>3
<1>7. InsertByTime(hist, x) = InsertAt(hist, p, x)
    BY <1>2 DEF InsertByTime
<1>8. PICK new : new = InsertAt(hist, p, x)
    OBVIOUS
<1>9. /\ new \in Seq(Attempt) /\ Len(new) = l + 1
      /\ \A i \in 1..(p - 1) : new[i] = hist[i]
      /\ new[p] = x
      /\ \A i \in p..l : new[i + 1] = hist[i]
  <2>1. p \in 1..(Len(hist) + 1)
    BY <1>4
  <2>2. LET t == InsertAt(hist, p, x)
        IN /\ t \in Seq(Attempt) /\ Len(t) = Len(hist) + 1
           /\ \A i \in 1..(p - 1) : t[i] = hist[i]
           /\ t[p] = x
           /\ \A i \in p..Len(hist) : t[i + 1] = hist[i]
    <3> HIDE DEF l, places
    <3> QED
      BY <2>1, InsertAtIs
  <2> QED
    BY <1>8, <2>2
<1>10. Placed(new, hist, x, p)
    BY <1>4, <1>5, <1>6, <1>9 DEF Placed
<1>11. new = InsertByTime(hist, x)
    BY <1>7, <1>8
<1> HIDE DEF l, places
<1>12. Placed(InsertByTime(hist, x), hist, x, p)
    BY <1>10, <1>11
<1> QED
    BY <1>12

\* An attempt that a history does not have is put into it in order, and nothing is lost.
LEMMA InsertKeepsOrder ==
    ASSUME NEW hist \in Seq(Attempt), NEW x \in Attempt, InOrder(hist),
           x.attempt \notin Attempts(hist)
    PROVE  LET new == InsertByTime(hist, x)
           IN /\ new \in Seq(Attempt) /\ InOrder(new) /\ new # <<>>
              /\ \A i \in DOMAIN hist : \E j \in DOMAIN new : new[j] = hist[i]
              /\ \E j \in DOMAIN new : new[j] = x
              /\ \A j \in DOMAIN new : new[j] = x \/ \E i \in DOMAIN hist : new[j] = hist[i]
              /\ Last(new).attempt = x.attempt => Last(new) = x
              /\ Last(new).attempt # x.attempt => hist # <<>> /\ Last(new) = Last(hist)
<1> DEFINE l == Len(hist)
<1>1. PICK new, p : new = InsertByTime(hist, x) /\ Placed(new, hist, x, p)
    BY InsertedAt
<1>2. /\ l \in Nat /\ DOMAIN hist = 1..l /\ \A i \in 1..l : hist[i].at \in Nat
      /\ x.at \in Nat
    BY HistoryIs DEF Attempt
<1>3. /\ p \in 1..(l + 1) /\ new \in Seq(Attempt) /\ DOMAIN new = 1..(l + 1) /\ Len(new) = l + 1
      /\ new[p] = x
    BY <1>1, <1>2, LenProperties DEF Placed
<1>4. \A j \in 1..(l + 1) :
        \/ j < p /\ j \in 1..l /\ new[j] = hist[j] /\ hist[j].at <= x.at
        \/ j = p
        \/ j > p /\ j - 1 \in 1..l /\ j - 1 >= p /\ new[j] = hist[j - 1]
  <2> SUFFICES ASSUME NEW j \in 1..(l + 1)
               PROVE  \/ j < p /\ j \in 1..l /\ new[j] = hist[j] /\ hist[j].at <= x.at
                      \/ j = p
                      \/ j > p /\ j - 1 \in 1..l /\ j - 1 >= p /\ new[j] = hist[j - 1]
    OBVIOUS
  <2>1. CASE j < p
    <3>1. j \in 1..(p - 1) /\ j \in 1..l
      BY <1>2, <1>3, <2>1
    <3> QED
      BY <1>1, <2>1, <3>1 DEF Placed
  <2>2. CASE j > p
    <3>1. j - 1 \in p..l /\ j - 1 \in 1..l /\ j - 1 >= p /\ j - 1 + 1 = j
      BY <1>2, <1>3, <2>2
    <3>2. \A i \in p..l : new[i + 1] = hist[i]
      BY <1>1 DEF Placed
    <3>3. new[j - 1 + 1] = hist[j - 1]
      BY <3>1, <3>2
    <3> QED
      BY <2>2, <3>1, <3>3
  <2> QED
    BY <1>2, <1>3, <2>1, <2>2
<1>5. \A i \in 1..l : i >= p => hist[i].at > x.at
  <2> SUFFICES ASSUME NEW i \in 1..l, i >= p PROVE hist[i].at > x.at
    OBVIOUS
  <2>1. p \in 1..l /\ hist[p].at > x.at
    BY <1>1, <1>2, <1>3 DEF Placed
  <2>2. i = p \/ hist[p].at <= hist[i].at
    BY <1>2, <2>1 DEF InOrder
  <2> QED
    BY <1>2, <2>1, <2>2
<1>6. \A i \in 1..l : hist[i].attempt # x.attempt
    BY <1>2 DEF Attempts
<1>7. InOrder(new)
  <2> SUFFICES ASSUME NEW i \in 1..(l + 1), NEW j \in 1..(l + 1), i < j
               PROVE  new[i].at <= new[j].at /\ new[i].attempt # new[j].attempt
    BY <1>3 DEF InOrder
  <2>1. CASE j < p
    <3>1. i < p
      BY <1>3, <2>1
    <3>2. /\ i \in DOMAIN hist /\ j \in DOMAIN hist
          /\ new[i] = hist[i] /\ new[j] = hist[j]
      BY <1>2, <1>3, <1>4, <2>1, <3>1
    <3> QED
      BY <3>2 DEF InOrder
  <2>2. CASE j = p
    <3>1. i < p
      BY <2>2
    <3> QED
      BY <1>3, <1>4, <1>6, <2>2, <3>1
  <2>3. CASE j > p
    <3>1. j - 1 \in 1..l /\ j - 1 >= p /\ new[j] = hist[j - 1]
      BY <1>3, <1>4, <2>3
    <3>2. CASE i < p
      <4>1. i \in 1..l /\ new[i] = hist[i] /\ i < j - 1
        BY <1>3, <1>4, <3>1, <3>2
      <4> QED
        BY <1>2, <3>1, <4>1 DEF InOrder
    <3>3. CASE i = p
      <4>1. new[i] = x
        BY <1>3, <3>3
      <4>2. hist[j - 1].at > x.at /\ hist[j - 1].at \in Nat /\ hist[j - 1].attempt # x.attempt
        BY <1>2, <1>5, <1>6, <3>1
      <4>3. x.at <= hist[j - 1].at
        BY <1>2, <4>2
      <4> QED
        BY <3>1, <4>1, <4>2, <4>3
    <3>4. CASE i > p
      <4>1. i - 1 \in 1..l /\ new[i] = hist[i - 1] /\ i - 1 < j - 1
        BY <1>3, <1>4, <3>4
      <4> QED
        BY <1>2, <3>1, <4>1 DEF InOrder
    <3> QED
      BY <1>3, <3>2, <3>3, <3>4
  <2> QED
    BY <1>3, <2>1, <2>2, <2>3
<1>8. ASSUME NEW i \in 1..l PROVE \E j \in 1..(l + 1) : new[j] = hist[i]
  <2>1. CASE i < p
    <3>1. i \in 1..(l + 1) /\ new[i] = hist[i]
      BY <1>2, <1>3, <1>4, <2>1
    <3> QED
      BY <3>1
  <2>2. CASE i >= p
    <3>1. i + 1 \in 1..(l + 1) /\ i + 1 > p /\ i + 1 - 1 = i
      BY <1>2, <1>3, <2>2
    <3>2. new[i + 1] = hist[i]
      BY <1>3, <1>4, <3>1
    <3> QED
      BY <3>1, <3>2
  <2> QED
    BY <1>3, <2>1, <2>2
<1>9. ASSUME NEW j \in 1..(l + 1) PROVE new[j] = x \/ \E i \in 1..l : new[j] = hist[i]
    BY <1>3, <1>4
<1>10. Last(new) = new[l + 1] /\ l + 1 \in 1..(l + 1) /\ Last(hist) = hist[l]
    BY <1>2, <1>3 DEF Last
<1>11. p = l + 1 => Last(new) = x
    BY <1>3, <1>10
<1>12. p # l + 1 => l \in 1..l /\ Last(new) = hist[l]
  <2> SUFFICES ASSUME p # l + 1 PROVE l \in 1..l /\ Last(new) = hist[l]
    OBVIOUS
  <2>1. l + 1 > p /\ l + 1 - 1 = l
    BY <1>2, <1>3
  <2> QED
    BY <1>4, <1>10, <2>1
<1>13. Last(new).attempt = x.attempt => Last(new) = x
    BY <1>6, <1>11, <1>12
<1>14. Last(new).attempt # x.attempt => hist # <<>> /\ Last(new) = Last(hist)
  <2>1. l \in 1..l => hist # <<>>
    BY <1>2
  <2> QED
    BY <1>10, <1>11, <1>12, <2>1
<1>15. new # <<>>
    BY <1>2, <1>3
<1> QED
    BY <1>1, <1>2, <1>3, <1>7, <1>8, <1>9, <1>13, <1>14, <1>15

-----------------------------------------------------------------------------
(***************************************************************************)
(* Rows.                                                                    *)
(***************************************************************************)
LEMMA GapKinds ==
    ASSUME NEW outcome \in Outcomes, NEW ev \in Evidence, NEW req, NEW target
    PROVE  /\ ProvisionalGapKind(outcome, ev, req, target) \in Gaps
           /\ ProvisionalGapKind(outcome, ev, req, target) = "none" =>
                outcome = "PASS" /\ ev \in {"proven", "reused"}
    BY DEF ProvisionalGapKind, Outcomes, Gaps, Evidence

LEMMA RowIs ==
    ASSUME NEW row \in Row
    PROVE  /\ row.hist \in Seq(Attempt) /\ row.run \in Manifest /\ row.ev \in Evidence
           /\ row.latest \in Outcomes /\ row.ever \in BOOLEAN /\ row.gap \in Gaps
           /\ row.target \in {"unknown", "engine", "harness"} /\ row.hand \in BOOLEAN
    BY DEF Row

LEMMA EntryIs ==
    ASSUME NEW m \in Manifest, NEW i \in DOMAIN Entries[m]
    PROVE  /\ Entries[m][i] \in Entry
           /\ Entries[m][i].attempt \in Nat /\ Entries[m][i].ev \in Evidence
           /\ Entries[m][i].at \in Nat
           /\ Entries[m][i].outcome # "null" => Entries[m][i].outcome \in Outcomes
<1>1. Entries[m] \in Seq(Entry)
    BY MatrixAssumption
<1>2. Entries[m][i] \in Entry
    BY <1>1, LenProperties, ElementOfSeq
<1> QED
    BY <1>2 DEF Entry

LEMMA FailuresIsNat ==
    ASSUME NEW hist \in Seq(Attempt)
    PROVE  Failures(hist) \in Nat
<1>1. IsFiniteSet(DOMAIN hist)
    BY HistoryIs, FS_Interval
<1>2. IsFiniteSet({i \in DOMAIN hist : hist[i].outcome = "FAIL"})
    BY <1>1, FS_Subset
<1> QED
    BY <1>2, FS_CardinalityType DEF Failures

HasFail(hist) == \E i \in DOMAIN hist : hist[i].outcome = "FAIL"

\* A row an attempt may be applied to: one of the matrix, or a new one without a history.
Ready(row) ==
    /\ row \in Row /\ InOrder(row.hist)
    /\ row.ever <=> HasFail(row.hist)
    /\ row.hist # <<>> => FollowsHistory(row)

\* Row new is row after attempt e was applied.
Took(row, new, e) ==
    /\ new \in Row /\ FollowsHistory(new)
    /\ \A i \in DOMAIN row.hist : \E j \in DOMAIN new.hist : new.hist[j] = row.hist[i]
    /\ row.ever => new.ever
    /\ new.hand = row.hand
    /\ row.gap # "none" => new.gap = row.gap
    /\ new = row \/ (new.gap = "none" => Earned(new))
    /\ e.attempt \in Attempts(new.hist)

LEMMA FollowsIsReady ==
    ASSUME NEW row \in Row, FollowsHistory(row)
    PROVE  Ready(row)
    BY DEF Ready, FollowsHistory, InOrder, HasFail

LEMMA NewRowIsReady ==
    ASSUME NEW m \in Manifest, NEW i \in DOMAIN Entries[m], NEW req,
           Entries[m][i].outcome # "null"
    PROVE  LET row == NewRow(m, Entries[m][i], req)
           IN Ready(row) /\ row.hand = FALSE
<1>1. PICK e : e = Entries[m][i]
    OBVIOUS
<1>2. e.outcome \in Outcomes /\ e.ev \in Evidence
    BY <1>1, EntryIs
<1>3. PICK gap \in Gaps : gap = ProvisionalGapKind(e.outcome, e.ev, req, "unknown")
    BY <1>2, GapKinds
<1>4. PICK row : row = NewRow(m, e, req)
    OBVIOUS
<1>5. row = [hist |-> <<>>, run |-> m, ev |-> e.ev, latest |-> e.outcome, ever |-> FALSE,
             failures |-> 0, intermittent |-> FALSE, gap |-> gap,
             target |-> "unknown", hand |-> FALSE]
    BY <1>3, <1>4 DEF NewRow
<1>6. <<>> \in Seq(Attempt) /\ DOMAIN <<>> = {}
    BY EmptySeq
<1>7. row \in Row
    BY <1>2, <1>5, <1>6 DEF Row
<1>8. row.hist = <<>> /\ row.ever = FALSE /\ row.hand = FALSE
    BY <1>5
<1>9. Ready(row)
    BY <1>6, <1>7, <1>8 DEF Ready, InOrder, HasFail
<1> QED
    BY <1>1, <1>4, <1>8, <1>9

LEMMA ApplyTakes ==
    ASSUME NEW m \in Manifest, NEW i \in DOMAIN Entries[m], NEW req,
           Entries[m][i].outcome # "null", NEW row, Ready(row)
    PROVE  Took(row, ApplyAttempt(row, m, Entries[m][i], req), Entries[m][i])
<1>1. PICK e : e = Entries[m][i]
    OBVIOUS
<1>2. e.outcome \in Outcomes /\ e.ev \in Evidence /\ e.attempt \in Nat /\ e.at \in Nat
    BY <1>1, EntryIs
<1>3. row \in Row /\ InOrder(row.hist) /\ (row.ever <=> HasFail(row.hist))
    BY DEF Ready
<1>4. PICK old : old = row.hist
    OBVIOUS
<1>5. old \in Seq(Attempt) /\ InOrder(old)
    BY <1>3, <1>4, RowIs
<1>6. CASE e.attempt \in Attempts(old)
  <2>1. ApplyAttempt(row, m, e, req) = row
    BY <1>4, <1>6 DEF ApplyAttempt
  <2>2. old # <<>>
    BY <1>6, EmptySeq DEF Attempts
  <2>3. FollowsHistory(row)
    BY <1>4, <2>2 DEF Ready
  <2>4. Took(row, row, e)
    BY <1>3, <1>4, <1>6, <2>3 DEF Took
  <2> QED
    BY <1>1, <2>1, <2>4
<1>7. CASE e.attempt \notin Attempts(old)
  <2>1. PICK x : x = [attempt |-> e.attempt, manifest |-> m, outcome |-> e.outcome, at |-> e.at]
    OBVIOUS
  <2>2. /\ x \in Attempt /\ x.attempt = e.attempt /\ x.manifest = m
        /\ x.outcome = e.outcome
    BY <1>2, <2>1 DEF Attempt
  <2>3. PICK hist : hist = InsertByTime(old, x)
    OBVIOUS
  <2>4. /\ hist \in Seq(Attempt) /\ InOrder(hist) /\ hist # <<>>
        /\ \A n \in DOMAIN old : \E j \in DOMAIN hist : hist[j] = old[n]
        /\ \E j \in DOMAIN hist : hist[j] = x
        /\ \A j \in DOMAIN hist : hist[j] = x \/ \E n \in DOMAIN old : hist[j] = old[n]
        /\ Last(hist).attempt = x.attempt => Last(hist) = x
        /\ Last(hist).attempt # x.attempt => old # <<>> /\ Last(hist) = Last(old)
    BY <1>5, <1>7, <2>2, <2>3, InsertKeepsOrder
  <2>5. PICK isLatest \in BOOLEAN : isLatest <=> Last(hist).attempt = e.attempt
    OBVIOUS
  <2>6. PICK latest : latest = IF isLatest THEN e.outcome ELSE row.latest
    OBVIOUS
  <2>7. PICK ev : ev = IF isLatest THEN e.ev ELSE row.ev
    OBVIOUS
  <2>8. PICK run : run = IF isLatest THEN m ELSE row.run
    OBVIOUS
  <2>9. latest \in Outcomes /\ ev \in Evidence /\ run \in Manifest
    BY <1>2, <1>3, <2>6, <2>7, <2>8, RowIs
  <2>10. PICK computed : computed = ProvisionalGapKind(latest, ev, req, row.target)
    OBVIOUS
  <2>11. /\ computed \in Gaps
         /\ computed = "none" => latest = "PASS" /\ ev \in {"proven", "reused"}
    BY <2>9, <2>10, GapKinds
  <2>12. PICK failures \in Nat : failures = Failures(hist)
    BY <2>4, FailuresIsNat
  <2>13. PICK intermittent \in BOOLEAN : intermittent <=> failures > 0 /\ HasPass(hist)
    OBVIOUS
  <2>14. PICK ever \in BOOLEAN : ever <=> row.ever \/ e.outcome = "FAIL"
    OBVIOUS
  <2>15. PICK new : new = ApplyAttempt(row, m, e, req)
    OBVIOUS
  <2>16. new = [row EXCEPT !.hist = hist, !.run = run, !.ev = ev, !.latest = latest,
                           !.ever = ever, !.failures = failures,
                           !.intermittent = intermittent,
                           !.gap = MergedGap(row.gap, computed)]
    <3>1. (row.ever \/ e.outcome = "FAIL") = ever
      BY <1>3, <2>14, RowIs
    <3>2. (Failures(hist) > 0 /\ HasPass(hist)) = intermittent
      BY <2>12, <2>13
    <3>3. (Last(hist).attempt = e.attempt) = isLatest
      BY <2>5
    <3> QED
      BY ZenonT(60), <1>4, <1>7, <2>1, <2>3, <2>6, <2>7, <2>8, <2>10, <2>12, <2>15, <3>1, <3>2, <3>3
      DEF ApplyAttempt
  <2>17. PICK gap \in Gaps : gap = MergedGap(row.gap, computed)
    BY <1>3, <2>11, RowIs DEF MergedGap
  <2>18. /\ new \in Row /\ new.hist = hist /\ new.run = run /\ new.ev = ev /\ new.latest = latest
         /\ new.ever = ever /\ new.failures = failures /\ new.intermittent = intermittent
         /\ new.gap = gap /\ new.hand = row.hand
    BY <1>3, <2>4, <2>9, <2>16, <2>17 DEF Row
  <2>19. latest = Last(hist).outcome /\ run = Last(hist).manifest
    <3>1. CASE isLatest
      BY <2>2, <2>4, <2>5, <2>6, <2>8, <3>1
    <3>2. CASE ~isLatest
      <4>1. old # <<>> /\ Last(hist) = Last(old)
        BY <2>2, <2>4, <2>5, <3>2
      <4>2. row.latest = Last(old).outcome /\ row.run = Last(old).manifest
        BY <1>4, <4>1 DEF Ready, FollowsHistory
      <4> QED
        BY <2>6, <2>8, <3>2, <4>1, <4>2
    <3> QED
      BY <3>1, <3>2
  <2>20. \E n \in DOMAIN Entries[run] :
           Entries[run][n].attempt = Last(hist).attempt /\ Entries[run][n].ev = ev
    <3>1. CASE isLatest
      BY <1>1, <2>5, <2>7, <2>8, <3>1
    <3>2. CASE ~isLatest
      <4>1. old # <<>> /\ Last(hist) = Last(old)
        BY <2>2, <2>4, <2>5, <3>2
      <4>2. \E n \in DOMAIN Entries[row.run] :
              /\ Entries[row.run][n].attempt = Last(old).attempt
              /\ Entries[row.run][n].ev = row.ev
        BY <1>4, <4>1 DEF Ready, FollowsHistory
      <4> QED
        BY <2>7, <2>8, <3>2, <4>1, <4>2
    <3> QED
      BY <3>1, <3>2
  <2>21. ever <=> \E n \in DOMAIN hist : hist[n].outcome = "FAIL"
    BY <1>3, <1>4, <2>2, <2>4, <2>14 DEF HasFail
  <2>22. FollowsHistory(new)
    BY <2>4, <2>12, <2>13, <2>18, <2>19, <2>20, <2>21 DEF FollowsHistory, InOrder
  <2>23. new.gap = "none" => Earned(new)
    BY <2>11, <2>17, <2>18 DEF MergedGap, Earned
  <2>24. row.gap # "none" => new.gap = row.gap
    BY <2>17, <2>18 DEF MergedGap
  <2>25. e.attempt \in Attempts(new.hist)
    BY <2>2, <2>4, <2>18 DEF Attempts
  <2>26. row.ever => new.ever
    BY <2>14, <2>18
  <2>27. \A n \in DOMAIN row.hist : \E j \in DOMAIN new.hist : new.hist[j] = row.hist[n]
    BY <1>4, <2>4, <2>18
  <2>28. Took(row, new, e)
    BY <2>18, <2>22, <2>23, <2>24, <2>25, <2>26, <2>27 DEF Took
  <2> QED
    BY <1>1, <2>15, <2>28
<1> QED
    BY <1>4, <1>6, <1>7

-----------------------------------------------------------------------------
(***************************************************************************)
(* Merges.                                                                  *)
(***************************************************************************)
\* The matrices whose rows say what their histories say.
GoodRows == {rs \in [Key -> Row \cup {NoRow}] :
               \A k \in Key : rs[k] # NoRow => FollowsHistory(rs[k])}

\* Row b is row a after some merges.
GrownRow(a, b) ==
    /\ a # NoRow =>
         /\ b # NoRow
         /\ \A i \in DOMAIN a.hist : \E j \in DOMAIN b.hist : b.hist[j] = a.hist[i]
         /\ a.ever => b.ever
         /\ a.gap # "none" => b.gap = a.gap
         /\ b.hand = a.hand
         /\ a.hand => b = a
    /\ a = NoRow /\ b # NoRow => b.hand = FALSE
    /\ b # NoRow => b = a \/ (b.gap = "none" => Earned(b))

Grown(rs, new) == \A k \in Key : GrownRow(rs[k], new[k])

\* Attempt e of manifest m is in each of its rows that a merge may write.
Reached(rs, taken, m, e) ==
    e.outcome # "null" =>
        \A k \in KeysOf(m, e) :
            \/ Suppressed(k, rs, taken)
            \/ rs[k] # NoRow /\ e.attempt \in Attempts(rs[k].hist)

LEMMA GoodRowIs ==
    ASSUME NEW rs \in GoodRows, NEW k \in Key, rs[k] # NoRow
    PROVE  rs[k] \in Row /\ FollowsHistory(rs[k])
    BY DEF GoodRows

LEMMA GrownRowSame == ASSUME NEW a PROVE GrownRow(a, a)
    BY DEF GrownRow

LEMMA GrownRowAgain ==
    ASSUME NEW a, NEW b, NEW c, GrownRow(a, b), GrownRow(b, c)
    PROVE  GrownRow(a, c)
<1>1. CASE a # NoRow
  <2>1. b # NoRow /\ c # NoRow
    BY <1>1 DEF GrownRow
  <2>2. \A i \in DOMAIN a.hist : \E j \in DOMAIN c.hist : c.hist[j] = a.hist[i]
    <3> SUFFICES ASSUME NEW i \in DOMAIN a.hist
                 PROVE  \E j \in DOMAIN c.hist : c.hist[j] = a.hist[i]
      OBVIOUS
    <3>1. PICK n \in DOMAIN b.hist : b.hist[n] = a.hist[i]
      BY <1>1 DEF GrownRow
    <3>2. \E j \in DOMAIN c.hist : c.hist[j] = b.hist[n]
      BY <2>1 DEF GrownRow
    <3> QED
      BY <3>1, <3>2
  <2>3. (a.ever => c.ever) /\ (a.gap # "none" => c.gap = a.gap) /\ c.hand = a.hand
    BY <1>1, <2>1 DEF GrownRow
  <2>4. a.hand => c = a
    BY <1>1, <2>1 DEF GrownRow
  <2>5. c = a \/ (c.gap = "none" => Earned(c))
    BY <2>1 DEF GrownRow
  <2> QED
    BY <1>1, <2>1, <2>2, <2>3, <2>4, <2>5 DEF GrownRow
<1>2. CASE a = NoRow
  <2>1. c # NoRow => c.hand = FALSE
    BY <1>2 DEF GrownRow
  <2>2. c # NoRow => c = a \/ (c.gap = "none" => Earned(c))
    BY <1>2 DEF GrownRow
  <2> QED
    BY <1>2, <2>1, <2>2 DEF GrownRow
<1> QED
    BY <1>1, <1>2

LEMMA GrownAgain ==
    ASSUME NEW a, NEW b, NEW c, Grown(a, b), Grown(b, c)
    PROVE  Grown(a, c)
    BY GrownRowAgain DEF Grown

LEMMA ReachedStays ==
    ASSUME NEW rs, NEW new, Grown(rs, new), NEW taken, NEW m, NEW e, Reached(rs, taken, m, e)
    PROVE  Reached(new, taken, m, e)
<1> SUFFICES ASSUME e.outcome # "null", NEW k \in KeysOf(m, e), <<k.req, k.case>> \notin taken
             PROVE  HandOwned(k, new) \/ (new[k] # NoRow /\ e.attempt \in Attempts(new[k].hist))
    BY DEF Reached, Suppressed
<1>1. GrownRow(rs[k], new[k])
    BY DEF Grown, KeysOf
<1>2. HandOwned(k, rs) \/ (rs[k] # NoRow /\ e.attempt \in Attempts(rs[k].hist))
    BY DEF Reached, Suppressed
<1>3. CASE HandOwned(k, rs)
    BY <1>1, <1>3 DEF HandOwned, GrownRow
<1>4. CASE rs[k] # NoRow /\ e.attempt \in Attempts(rs[k].hist)
  <2>1. PICK i \in DOMAIN rs[k].hist : rs[k].hist[i].attempt = e.attempt
    BY <1>4 DEF Attempts
  <2>2. new[k] # NoRow /\ \E j \in DOMAIN new[k].hist : new[k].hist[j] = rs[k].hist[i]
    BY <1>1, <1>4 DEF GrownRow
  <2> QED
    BY <2>1, <2>2 DEF Attempts
<1> QED
    BY <1>2, <1>3, <1>4

\* One attempt, applied to every row it belongs to.
LEMMA EntryGrows ==
    ASSUME NEW rs \in GoodRows, NEW taken, NEW m \in Manifest, NEW i \in DOMAIN Entries[m]
    PROVE  LET new == MergeEntry(rs, taken, m, Entries[m][i])
           IN new \in GoodRows /\ Grown(rs, new) /\ Reached(new, taken, m, Entries[m][i])
<1>1. PICK e : e = Entries[m][i]
    OBVIOUS
<1>2. PICK new : new = MergeEntry(rs, taken, m, e)
    OBVIOUS
<1> DEFINE Left(k) == e.outcome = "null" \/ k \notin KeysOf(m, e) \/ Suppressed(k, rs, taken)
<1>3. /\ new = [k \in Key |-> new[k]]
      /\ \A k \in Key : new[k] =
           IF Left(k) THEN rs[k]
           ELSE ApplyAttempt(IF rs[k] = NoRow THEN NewRow(m, e, k.req) ELSE rs[k], m, e, k.req)
    BY <1>2 DEF MergeEntry
<1>4. ASSUME NEW k \in Key
      PROVE  /\ new[k] \in Row \cup {NoRow}
             /\ new[k] # NoRow => FollowsHistory(new[k])
             /\ GrownRow(rs[k], new[k])
             /\ ~Left(k) => new[k] # NoRow /\ e.attempt \in Attempts(new[k].hist)
             /\ Left(k) => new[k] = rs[k]
  <2>1. CASE Left(k)
    <3>1. new[k] = rs[k]
      BY <1>3, <2>1
    <3>2. rs[k] \in Row \cup {NoRow} /\ (rs[k] # NoRow => FollowsHistory(rs[k]))
      BY DEF GoodRows
    <3> HIDE DEF Left
    <3> QED
      BY <2>1, <3>1, <3>2, GrownRowSame
  <2>2. CASE ~Left(k)
    <3>1. e.outcome # "null" /\ ~HandOwned(k, rs)
      BY <2>2 DEF Suppressed
    <3>2. PICK row : row = IF rs[k] = NoRow THEN NewRow(m, e, k.req) ELSE rs[k]
      OBVIOUS
    <3>3. Ready(row) /\ (rs[k] = NoRow => row.hand = FALSE) /\ (rs[k] # NoRow => row = rs[k])
      <4>1. CASE rs[k] = NoRow
        BY <1>1, <3>1, <3>2, <4>1, NewRowIsReady
      <4>2. CASE rs[k] # NoRow
        BY <3>2, <4>2, GoodRowIs, FollowsIsReady
      <4> QED
        BY <4>1, <4>2
    <3>4. new[k] = ApplyAttempt(row, m, e, k.req)
      BY <1>3, <2>2, <3>2
    <3>5. PICK r : r = new[k]
      OBVIOUS
    <3>6. Took(row, r, e)
      BY <1>1, <3>1, <3>3, <3>4, <3>5, ApplyTakes
    <3>7. r \in Row /\ FollowsHistory(r) /\ r # NoRow /\ e.attempt \in Attempts(r.hist)
      BY <3>6, NoRowAssumption DEF Took
    <3>8. GrownRow(rs[k], r)
      <4>1. CASE rs[k] = NoRow
        <5>1. row.hand = FALSE /\ r.hand = FALSE
          BY <3>3, <3>6, <4>1 DEF Took
        <5>2. r.gap = "none" => Earned(r)
          <6>1. e.outcome \in Outcomes /\ e.ev \in Evidence
            BY <1>1, <3>1, EntryIs
          <6>2. r = row => (r.gap = "none" => Earned(r))
            <7>1. row = NewRow(m, e, k.req)
              BY <3>2, <4>1
            <7>2. /\ row.latest = e.outcome /\ row.ev = e.ev
                  /\ row.gap = ProvisionalGapKind(e.outcome, e.ev, k.req, "unknown")
              BY <7>1 DEF NewRow
            <7> QED
              BY <6>1, <7>2, GapKinds DEF Earned
          <6> QED
            BY <3>6, <6>2 DEF Took
        <5> QED
          BY <3>7, <4>1, <5>1, <5>2 DEF GrownRow
      <4>2. CASE rs[k] # NoRow
        <5>1. row = rs[k] /\ ~row.hand
          BY <3>1, <3>3, <4>2 DEF HandOwned
        <5> QED
          BY <3>6, <3>7, <4>2, <5>1 DEF GrownRow, Took
      <4> QED
        BY <4>1, <4>2
    <3> HIDE DEF Left
    <3> QED
      BY <2>2, <3>5, <3>7, <3>8
  <2> QED
    BY <2>1, <2>2
<1>5. new \in GoodRows
  <2>1. new \in [Key -> Row \cup {NoRow}]
    BY <1>3, <1>4
  <2> QED
    BY <1>4, <2>1 DEF GoodRows
<1>6. Grown(rs, new)
    BY <1>4 DEF Grown
<1>7. Reached(new, taken, m, e)
  <2> SUFFICES ASSUME e.outcome # "null", NEW k \in KeysOf(m, e)
               PROVE  \/ Suppressed(k, new, taken)
                      \/ new[k] # NoRow /\ e.attempt \in Attempts(new[k].hist)
    BY DEF Reached
  <2>1. k \in Key
    BY DEF KeysOf
  <2>2. CASE Left(k)
    <3>1. new[k] = rs[k] /\ Suppressed(k, rs, taken)
      BY <1>4, <2>1, <2>2
    <3> QED
      BY <3>1 DEF Suppressed, HandOwned
  <2>3. CASE ~Left(k)
    BY <1>4, <2>1, <2>3
  <2> QED
    BY <2>2, <2>3
<1> QED
    BY <1>1, <1>2, <1>5, <1>6, <1>7

\* An attempt that all its rows have changes none.
LEMMA EntryIdle ==
    ASSUME NEW rs \in GoodRows, NEW taken, NEW m, NEW e, Reached(rs, taken, m, e)
    PROVE  MergeEntry(rs, taken, m, e) = rs
<1>1. ASSUME NEW k \in Key
      PROVE  rs[k] = IF e.outcome = "null" \/ k \notin KeysOf(m, e) \/ Suppressed(k, rs, taken)
                     THEN rs[k]
                     ELSE ApplyAttempt(IF rs[k] = NoRow THEN NewRow(m, e, k.req) ELSE rs[k],
                                       m, e, k.req)
  <2> SUFFICES ASSUME e.outcome # "null", k \in KeysOf(m, e), ~Suppressed(k, rs, taken)
               PROVE  rs[k] = ApplyAttempt(IF rs[k] = NoRow THEN NewRow(m, e, k.req) ELSE rs[k],
                                           m, e, k.req)
    OBVIOUS
  <2>1. rs[k] # NoRow /\ e.attempt \in Attempts(rs[k].hist)
    BY DEF Reached
  <2> QED
    BY <2>1 DEF ApplyAttempt
<1>2. rs = [k \in Key |-> rs[k]]
    BY DEF GoodRows
<1> QED
    BY <1>1, <1>2 DEF MergeEntry

\* The stages of the recursion over the attempts of a manifest.
LEMMA EntriesStages ==
    ASSUME NEW rs \in GoodRows, NEW taken, NEW m \in Manifest
    PROVE  LET f == AfterEntries(rs, taken, m)
           IN /\ f[0] = rs
              /\ \A n \in 1..Len(Entries[m]) :
                   f[n] = MergeEntry(f[n - 1], taken, m, Entries[m][n])
<1>1. PICK l : l = Len(Entries[m])
    OBVIOUS
<1>2. l \in Nat /\ DOMAIN Entries[m] = 1..l
    BY <1>1, MatrixAssumption, LenProperties
<1>3. PICK F : F = [n \in 1..l |-> [r \in GoodRows |-> MergeEntry(r, taken, m, Entries[m][n])]]
    OBVIOUS
<1>4. \A n \in 1..l : \A r \in GoodRows : MergeEntry(r, taken, m, Entries[m][n]) \in GoodRows
    BY <1>2, EntryGrows
<1>5. F \in [1..l -> [GoodRows -> GoodRows]]
    BY <1>3, <1>4
<1>6. PICK g : Stages(g, l, GoodRows, rs, F)
    BY <1>2, <1>5, StagesExist
<1>7. /\ g \in [0..l -> GoodRows] /\ g[0] = rs
      /\ \A n \in 1..l : g[n] = F[n][g[n - 1]]
    BY <1>6 DEF Stages
<1>8. \A n \in 0..l : g[n] = IF n = 0 THEN rs ELSE MergeEntry(g[n - 1], taken, m, Entries[m][n])
  <2> SUFFICES ASSUME NEW n \in 0..l, n # 0
               PROVE  g[n] = MergeEntry(g[n - 1], taken, m, Entries[m][n])
    BY <1>7
  <2>1. n \in 1..l /\ n - 1 \in 0..l
    BY <1>2
  <2> QED
    BY <1>3, <1>7, <2>1
<1>9. g = [n \in 0..l |-> IF n = 0 THEN rs ELSE MergeEntry(g[n - 1], taken, m, Entries[m][n])]
    BY <1>7, <1>8
<1>10. PICK f : f = AfterEntries(rs, taken, m)
    OBVIOUS
<1>11. f = CHOOSE after : after = [n \in 0..l |-> IF n = 0 THEN rs
                                        ELSE MergeEntry(after[n - 1], taken, m, Entries[m][n])]
    BY <1>1, <1>10 DEF AfterEntries
<1>12. f = [n \in 0..l |-> IF n = 0 THEN rs ELSE MergeEntry(f[n - 1], taken, m, Entries[m][n])]
    BY <1>9, <1>11
<1>13. f[0] = rs
    BY <1>2, <1>12
<1>14. \A n \in 1..l : n \in 0..l /\ n # 0
    BY <1>2
<1>15. \A n \in 1..l : f[n] = MergeEntry(f[n - 1], taken, m, Entries[m][n])
    BY <1>12, <1>14
<1> QED
    BY <1>1, <1>10, <1>13, <1>15

LEMMA ManifestGrows ==
    ASSUME NEW rs \in GoodRows, NEW taken, NEW m \in Manifest
    PROVE  LET new == MergeManifest(rs, taken, m)
           IN /\ new \in GoodRows /\ Grown(rs, new)
              /\ \A i \in DOMAIN Entries[m] : Reached(new, taken, m, Entries[m][i])
<1>1. PICK l : l = Len(Entries[m])
    OBVIOUS
<1>2. l \in Nat /\ DOMAIN Entries[m] = 1..l
    BY <1>1, MatrixAssumption, LenProperties
<1>3. PICK f : f = AfterEntries(rs, taken, m)
    OBVIOUS
<1>4. f[0] = rs /\ \A n \in 1..l : f[n] = MergeEntry(f[n - 1], taken, m, Entries[m][n])
    BY <1>1, <1>3, EntriesStages
<1> DEFINE Good(n) == /\ f[n] \in GoodRows /\ Grown(rs, f[n])
                      /\ \A i \in 1..n : Reached(f[n], taken, m, Entries[m][i])
           T == {n \in 0..l : Good(n)}
<1>5. 0 \in T
  <2>1. Grown(rs, rs)
    BY GrownRowSame DEF Grown
  <2> QED
    BY <1>2, <1>4, <2>1
<1>6. ASSUME NEW n \in 1..l, n - 1 \in T PROVE n \in T
  <2>1. PICK old : old = f[n - 1]
    OBVIOUS
  <2>2. /\ old \in GoodRows /\ Grown(rs, old)
        /\ \A i \in 1..(n - 1) : Reached(old, taken, m, Entries[m][i])
    BY <1>6, <2>1
  <2>3. PICK new : new = f[n]
    OBVIOUS
  <2>4. new = MergeEntry(old, taken, m, Entries[m][n])
    BY <1>4, <2>1, <2>3
  <2>5. new \in GoodRows /\ Grown(old, new) /\ Reached(new, taken, m, Entries[m][n])
    BY <1>2, <2>2, <2>4, EntryGrows
  <2>6. Grown(rs, new)
    BY <2>2, <2>5, GrownAgain
  <2>7. ASSUME NEW i \in 1..n PROVE Reached(new, taken, m, Entries[m][i])
    <3>1. CASE i = n
      BY <2>5, <3>1
    <3>2. CASE i # n
      <4>1. i \in 1..(n - 1)
        BY <3>2
      <4> QED
        BY <2>2, <2>5, <4>1, ReachedStays
    <3> QED
      BY <3>1, <3>2
  <2>8. n \in 0..l
    BY <1>2
  <2> QED
    BY <2>3, <2>5, <2>6, <2>7, <2>8
<1>7. 0..l \subseteq T
  <2> HIDE DEF T
  <2> QED
    BY <1>2, <1>5, <1>6, UpTo
<1>8. Good(l)
    BY <1>2, <1>7
<1>9. MergeManifest(rs, taken, m) = f[l]
    BY <1>1, <1>3 DEF MergeManifest
<1> QED
    BY <1>2, <1>8, <1>9

\* A manifest all of whose attempts are in the matrix changes nothing.
LEMMA ManifestIdle ==
    ASSUME NEW rs \in GoodRows, NEW taken, NEW m \in Manifest,
           \A i \in DOMAIN Entries[m] : Reached(rs, taken, m, Entries[m][i])
    PROVE  MergeManifest(rs, taken, m) = rs
<1>1. PICK l : l = Len(Entries[m])
    OBVIOUS
<1>2. l \in Nat /\ DOMAIN Entries[m] = 1..l
    BY <1>1, MatrixAssumption, LenProperties
<1>3. PICK f : f = AfterEntries(rs, taken, m)
    OBVIOUS
<1>4. f[0] = rs /\ \A n \in 1..l : f[n] = MergeEntry(f[n - 1], taken, m, Entries[m][n])
    BY <1>1, <1>3, EntriesStages
<1> DEFINE T == {n \in 0..l : f[n] = rs}
<1>5. 0 \in T
    BY <1>2, <1>4
<1>6. ASSUME NEW n \in 1..l, n - 1 \in T PROVE n \in T
  <2>1. f[n] = MergeEntry(rs, taken, m, Entries[m][n])
    BY <1>4, <1>6
  <2>2. f[n] = rs
    BY <1>2, <2>1, EntryIdle
  <2> QED
    BY <1>2, <2>2
<1>7. 0..l \subseteq T
  <2> HIDE DEF T
  <2> QED
    BY <1>2, <1>5, <1>6, UpTo
<1>8. f[l] = rs
    BY <1>2, <1>7
<1> QED
    BY <1>1, <1>3, <1>8 DEF MergeManifest

LEMMA ManifestsNumbered ==
    /\ Cardinality(Manifest) \in Nat
    /\ Manifest = 1 .. Cardinality(Manifest)
    BY MatrixAssumption, FS_CardinalityType

\* The stages of the recursion over the manifests.
LEMMA ManifestsStages ==
    ASSUME NEW rs \in GoodRows, NEW taken, NEW ms \in SUBSET Manifest
    PROVE  LET f == AfterManifests(rs, taken, ms)
           IN /\ f[0] = rs
              /\ \A n \in Manifest :
                   f[n] = IF n \in ms THEN MergeManifest(f[n - 1], taken, n) ELSE f[n - 1]
<1>1. PICK l : l = Cardinality(Manifest)
    OBVIOUS
<1>2. l \in Nat /\ Manifest = 1..l
    BY <1>1, ManifestsNumbered
<1>3. PICK F : F = [n \in 1..l |-> [r \in GoodRows |->
                                       IF n \in ms THEN MergeManifest(r, taken, n) ELSE r]]
    OBVIOUS
<1>4. \A n \in 1..l : \A r \in GoodRows : MergeManifest(r, taken, n) \in GoodRows
    BY <1>2, ManifestGrows
<1>5. F \in [1..l -> [GoodRows -> GoodRows]]
    BY <1>3, <1>4
<1>6. PICK g : Stages(g, l, GoodRows, rs, F)
    BY <1>2, <1>5, StagesExist
<1>7. /\ g \in [0..l -> GoodRows] /\ g[0] = rs
      /\ \A n \in 1..l : g[n] = F[n][g[n - 1]]
    BY <1>6 DEF Stages
<1>8. \A n \in 0..l : g[n] = IF n = 0 THEN rs
                             ELSE IF n \in ms THEN MergeManifest(g[n - 1], taken, n) ELSE g[n - 1]
  <2> SUFFICES ASSUME NEW n \in 0..l, n # 0
               PROVE  g[n] = IF n \in ms THEN MergeManifest(g[n - 1], taken, n) ELSE g[n - 1]
    BY <1>7
  <2>1. n \in 1..l /\ n - 1 \in 0..l
    BY <1>2
  <2> QED
    BY <1>3, <1>7, <2>1
<1>9. g = [n \in 0..l |-> IF n = 0 THEN rs
                          ELSE IF n \in ms THEN MergeManifest(g[n - 1], taken, n) ELSE g[n - 1]]
    BY <1>7, <1>8
<1>10. PICK f : f = AfterManifests(rs, taken, ms)
    OBVIOUS
<1>11. f = CHOOSE after : after =
             [n \in 0..l |-> IF n = 0 THEN rs
                             ELSE IF n \in ms THEN MergeManifest(after[n - 1], taken, n)
                                  ELSE after[n - 1]]
    BY <1>1, <1>10 DEF AfterManifests
<1>12. f = [n \in 0..l |-> IF n = 0 THEN rs
                           ELSE IF n \in ms THEN MergeManifest(f[n - 1], taken, n) ELSE f[n - 1]]
    BY <1>9, <1>11
<1>13. f[0] = rs
    BY <1>2, <1>12
<1>14. \A n \in 1..l : n \in 0..l /\ n # 0
    BY <1>2
<1>15. \A n \in 1..l : f[n] = IF n \in ms THEN MergeManifest(f[n - 1], taken, n) ELSE f[n - 1]
    BY <1>12, <1>14
<1> QED
    BY <1>2, <1>10, <1>13, <1>15

(***************************************************************************)
(* A merge of any manifests: rows only grow, and every attempt of every one *)
(* of the manifests is in each of its rows that the merge may write.        *)
(***************************************************************************)
LEMMA MergeGrows ==
    ASSUME NEW rs \in GoodRows, NEW taken, NEW ms \in SUBSET Manifest
    PROVE  LET new == MergeAll(rs, taken, ms)
           IN /\ new \in GoodRows /\ Grown(rs, new)
              /\ \A m \in ms : \A i \in DOMAIN Entries[m] : Reached(new, taken, m, Entries[m][i])
<1>1. PICK l : l = Cardinality(Manifest)
    OBVIOUS
<1>2. l \in Nat /\ Manifest = 1..l
    BY <1>1, ManifestsNumbered
<1>3. PICK f : f = AfterManifests(rs, taken, ms)
    OBVIOUS
<1>4. /\ f[0] = rs
      /\ \A n \in 1..l : f[n] = IF n \in ms THEN MergeManifest(f[n - 1], taken, n) ELSE f[n - 1]
    BY <1>2, <1>3, ManifestsStages
<1> DEFINE All(r, m) == \A i \in DOMAIN Entries[m] : Reached(r, taken, m, Entries[m][i])
           Good(n) == /\ f[n] \in GoodRows /\ Grown(rs, f[n])
                      /\ \A m \in 1..n : m \in ms => All(f[n], m)
           T == {n \in 0..l : Good(n)}
<1>5. 0 \in T
  <2>1. Grown(rs, rs)
    BY GrownRowSame DEF Grown
  <2> QED
    BY <1>2, <1>4, <2>1
<1>6. ASSUME NEW n \in 1..l, n - 1 \in T PROVE n \in T
  <2>1. PICK old : old = f[n - 1]
    OBVIOUS
  <2>2. old \in GoodRows /\ Grown(rs, old) /\ \A m \in 1..(n - 1) : m \in ms => All(old, m)
    BY <1>6, <2>1
  <2>3. PICK new : new = f[n]
    OBVIOUS
  <2>4. new = IF n \in ms THEN MergeManifest(old, taken, n) ELSE old
    BY <1>4, <2>1, <2>3
  <2>5. new \in GoodRows /\ Grown(old, new) /\ (n \in ms => All(new, n))
    <3>1. CASE n \in ms
      BY <1>2, <2>2, <2>4, <3>1, ManifestGrows
    <3>2. CASE n \notin ms
      BY <2>2, <2>4, <3>2, GrownRowSame DEF Grown
    <3> QED
      BY <3>1, <3>2
  <2>6. Grown(rs, new)
    BY <2>2, <2>5, GrownAgain
  <2>7. ASSUME NEW m \in 1..n, m \in ms PROVE All(new, m)
    <3>1. CASE m = n
      BY <2>5, <2>7, <3>1
    <3>2. CASE m # n
      <4>1. m \in 1..(n - 1)
        BY <3>2
      <4>2. All(old, m)
        BY <2>2, <2>7, <4>1
      <4> QED
        BY <2>5, <4>2, ReachedStays
    <3> QED
      BY <3>1, <3>2
  <2>8. n \in 0..l
    BY <1>2
  <2> HIDE DEF All
  <2> QED
    BY <2>3, <2>5, <2>6, <2>7, <2>8
<1>7. 0..l \subseteq T
  <2> HIDE DEF T
  <2> QED
    BY <1>2, <1>5, <1>6, UpTo
<1>8. Good(l)
    BY <1>2, <1>7
<1>9. MergeAll(rs, taken, ms) = f[l]
    BY <1>1, <1>3 DEF MergeAll
<1> QED
    BY <1>2, <1>8, <1>9

-----------------------------------------------------------------------------
(***************************************************************************)
(* The matrix in the file, and the one a merge in hand has loaded.          *)
(***************************************************************************)
\* What is kept of a row, to which an adopted "none" may be put or not.
RowStands(row, given, eds) ==
    row # NoRow =>
        /\ row.gap = "none" => Earned(row) \/ given
        /\ row.hand => eds > 0

\* The parts of a matrix, after eds edits, when "none" was adopted for the keys in nones and
\* the manifests of rep were reported.
FileSound(rs, taken, claims, ms, nones, eds, rep) ==
    /\ rs \in GoodRows
    /\ taken \in SUBSET (Req \X Case) /\ claims \in SUBSET Req
    /\ ms \in SUBSET rep
    /\ \A m \in ms : \A i \in DOMAIN Entries[m] : Reached(rs, taken, m, Entries[m][i])
    /\ \A k \in Key : RowStands(rs[k], k \in nones, eds)

Sound ==
    /\ FileSound(rows, withdrawn, claimRows, merged, adopted, edits, reported)
    /\ slow # NoMerge => FileSound(slow.rows, slow.withdrawn, slow.claimRows, slow.merged,
                                   adopted, edits, reported)
    /\ slow.ms \in SUBSET Manifest
    /\ edits \in 0..MaxEdits
    /\ reported \in SUBSET Manifest
    /\ handGap \in [Key -> Gaps \cup {"unset"}] /\ adopted \in SUBSET Key

LEMMA SoundIsKept ==
    ASSUME NEW f, edits \in Nat
    PROVE  FileType(f) /\ Kept(f)
             <=> FileSound(f.rows, f.withdrawn, f.claimRows, f.merged, adopted, edits, reported)
<1>1. ASSUME FileType(f), Kept(f)
      PROVE  FileSound(f.rows, f.withdrawn, f.claimRows, f.merged, adopted, edits, reported)
  <2>1. f.rows \in GoodRows
    BY <1>1 DEF GoodRows, FileType, Kept, RowKept
  <2>2. \A m \in f.merged : \A i \in DOMAIN Entries[m] :
          Reached(f.rows, f.withdrawn, m, Entries[m][i])
    <3> SUFFICES ASSUME NEW m \in f.merged, NEW i \in DOMAIN Entries[m]
                 PROVE  Reached(f.rows, f.withdrawn, m, Entries[m][i])
      OBVIOUS
    <3>1. EntryIn(f.rows, f.withdrawn, m, Entries[m][i])
      BY <1>1 DEF Kept, AccountedIn
    <3> QED
      BY <3>1 DEF EntryIn, Reached, Suppressed
  <2>3. \A k \in Key : RowStands(f.rows[k], k \in adopted, edits)
    BY <1>1 DEF Kept, RowKept, RowStands
  <2> QED
    BY <1>1, <2>1, <2>2, <2>3 DEF FileSound, FileType
<1>2. ASSUME FileSound(f.rows, f.withdrawn, f.claimRows, f.merged, adopted, edits, reported)
      PROVE  FileType(f) /\ Kept(f)
  <2>1. FileType(f)
    BY <1>2 DEF FileSound, FileType, GoodRows
  <2>2. \A k \in Key : RowKept(f, k)
    BY <1>2 DEF FileSound, GoodRows, RowStands, RowKept
  <2>3. AccountedIn(f.rows, f.withdrawn, f.merged)
    <3> SUFFICES ASSUME NEW m \in f.merged, NEW i \in DOMAIN Entries[m]
                 PROVE  EntryIn(f.rows, f.withdrawn, m, Entries[m][i])
      BY DEF AccountedIn
    <3>1. PICK e : e = Entries[m][i]
      OBVIOUS
    <3> SUFFICES ASSUME e.outcome # "null", NEW k \in KeysOf(m, e), <<k.req, k.case>> \notin f.withdrawn
                 PROVE  \/ f.rows[k] # NoRow /\ e.attempt \in Attempts(f.rows[k].hist)
                        \/ HandOwned(k, f.rows) /\ edits > 0
      BY <3>1 DEF EntryIn
    <3>2. k \in Key
      BY DEF KeysOf
    <3>3. Reached(f.rows, f.withdrawn, m, e)
      BY <1>2, <3>1 DEF FileSound
    <3>4. \/ HandOwned(k, f.rows)
          \/ f.rows[k] # NoRow /\ e.attempt \in Attempts(f.rows[k].hist)
      BY <3>3 DEF Reached, Suppressed
    <3>5. HandOwned(k, f.rows) => edits > 0
      BY <1>2, <3>2 DEF FileSound, RowStands, HandOwned
    <3> QED
      BY <3>4, <3>5
  <2> QED
    BY <2>1, <2>2, <2>3 DEF Kept
<1> QED
    BY <1>1, <1>2

LEMMA SoundIsIndInv == Sound <=> IndInv
<1>1. edits \in 0..MaxEdits => edits \in Nat
    BY MatrixAssumption
<1>2. /\ InFile.rows = rows /\ InFile.withdrawn = withdrawn /\ InFile.claimRows = claimRows
      /\ InFile.merged = merged
    BY DEF InFile
<1>3. edits \in Nat =>
        (FileType(InFile) /\ Kept(InFile)
           <=> FileSound(rows, withdrawn, claimRows, merged, adopted, edits, reported))
    BY <1>2, SoundIsKept
<1>4. edits \in Nat =>
        (FileType(slow) /\ Kept(slow)
           <=> FileSound(slow.rows, slow.withdrawn, slow.claimRows, slow.merged, adopted,
                         edits, reported))
    BY SoundIsKept
<1> QED
    BY <1>1, <1>3, <1>4 DEF Sound, IndInv, TypeOK

\* More edits, adoptions and reports take nothing from a matrix.
LEMMA SoundLater ==
    ASSUME NEW rs, NEW taken, NEW claims, NEW ms, NEW nones, NEW eds \in Nat, NEW rep,
           NEW nones2, NEW eds2 \in Nat, NEW rep2,
           nones \subseteq nones2, eds <= eds2, rep \subseteq rep2,
           FileSound(rs, taken, claims, ms, nones, eds, rep)
    PROVE  FileSound(rs, taken, claims, ms, nones2, eds2, rep2)
<1>1. ASSUME NEW k \in Key PROVE RowStands(rs[k], k \in nones2, eds2)
  <2>1. RowStands(rs[k], k \in nones, eds)
    BY DEF FileSound
  <2>2. (eds > 0 => eds2 > 0) /\ (k \in nones => k \in nones2)
    OBVIOUS
  <2> QED
    BY <2>1, <2>2 DEF RowStands
<1> QED
    BY <1>1 DEF FileSound

LEMMA StandsWhenGrown ==
    ASSUME NEW a, NEW b, GrownRow(a, b), NEW given, NEW eds, RowStands(a, given, eds)
    PROVE  RowStands(b, given, eds)
<1>1. CASE a = NoRow
    BY <1>1 DEF GrownRow, RowStands
<1>2. CASE a # NoRow
  <2>1. /\ b # NoRow /\ b.hand = a.hand /\ (a.gap # "none" => b.gap = a.gap)
        /\ b = a \/ (b.gap = "none" => Earned(b))
    BY <1>2 DEF GrownRow
  <2>2. b.gap = "none" => Earned(b) \/ given
    BY <1>2, <2>1 DEF RowStands
  <2>3. b.hand => eds > 0
    BY <1>2, <2>1 DEF RowStands
  <2> QED
    BY <2>2, <2>3 DEF RowStands
<1> QED
    BY <1>1, <1>2

\* A merge writes a sound matrix if it loaded one.
LEMMA SoundWhenMerged ==
    ASSUME NEW rs, NEW taken, NEW claims, NEW ms, NEW nones, NEW eds, NEW rep,
           FileSound(rs, taken, claims, ms, nones, eds, rep), NEW more \in SUBSET Manifest
    PROVE  FileSound(MergeAll(rs, taken, more), taken, claims, ms \cup more, nones, eds,
                     rep \cup more)
<1>1. rs \in GoodRows
    BY DEF FileSound
<1>2. PICK new : new = MergeAll(rs, taken, more)
    OBVIOUS
<1>3. /\ new \in GoodRows /\ Grown(rs, new)
      /\ \A m \in more : \A i \in DOMAIN Entries[m] : Reached(new, taken, m, Entries[m][i])
    BY <1>1, <1>2, MergeGrows
<1>4. ASSUME NEW k \in Key PROVE RowStands(new[k], k \in nones, eds)
  <2>1. GrownRow(rs[k], new[k]) /\ RowStands(rs[k], k \in nones, eds)
    BY <1>3 DEF Grown, FileSound
  <2> QED
    BY <2>1, StandsWhenGrown
<1>5. ASSUME NEW m \in ms \cup more, NEW i \in DOMAIN Entries[m]
      PROVE  Reached(new, taken, m, Entries[m][i])
  <2>1. CASE m \in more
    BY <1>3, <2>1
  <2>2. CASE m \in ms
    <3>1. Reached(rs, taken, m, Entries[m][i])
      BY <2>2 DEF FileSound
    <3> QED
      BY <1>3, <3>1, ReachedStays
  <2> QED
    BY <2>1, <2>2
<1>6. FileSound(new, taken, claims, ms \cup more, nones, eds, rep \cup more)
    BY <1>3, <1>4, <1>5 DEF FileSound
<1> QED
    BY <1>2, <1>6

\* Row b is row a after an edit that leaves its history alone.
EditedRow(a, b) ==
    /\ a = NoRow => b = NoRow
    /\ a # NoRow =>
         /\ b \in Row
         /\ b.hist = a.hist /\ b.run = a.run /\ b.ev = a.ev /\ b.latest = a.latest
         /\ b.ever = a.ever /\ b.failures = a.failures /\ b.intermittent = a.intermittent
         /\ a.hand => b.hand

LEMMA SoundWhenEdited ==
    ASSUME NEW rs, NEW taken, NEW claims, NEW ms, NEW nones, NEW eds, NEW rep,
           FileSound(rs, taken, claims, ms, nones, eds, rep),
           NEW new \in [Key -> Row \cup {NoRow}], NEW nones2, NEW eds2,
           \A k \in Key : EditedRow(rs[k], new[k]) /\ RowStands(new[k], k \in nones2, eds2)
    PROVE  FileSound(new, taken, claims, ms, nones2, eds2, rep)
<1>1. ASSUME NEW k \in Key, new[k] # NoRow PROVE FollowsHistory(new[k])
  <2>1. rs[k] # NoRow /\ FollowsHistory(rs[k]) /\ EditedRow(rs[k], new[k])
    BY <1>1 DEF FileSound, GoodRows, EditedRow
  <2>2. PICK a, b : a = rs[k] /\ b = new[k]
    OBVIOUS
  <2>3. /\ b.hist = a.hist /\ b.run = a.run /\ b.ev = a.ev /\ b.latest = a.latest
        /\ b.ever = a.ever /\ b.failures = a.failures /\ b.intermittent = a.intermittent
    BY <2>1, <2>2 DEF EditedRow
  <2>4. FollowsHistory(a) => FollowsHistory(b)
    BY <2>3 DEF FollowsHistory
  <2> QED
    BY <2>1, <2>2, <2>4
<1>2. new \in GoodRows
    BY <1>1 DEF GoodRows
<1>3. ASSUME NEW m \in ms, NEW i \in DOMAIN Entries[m]
      PROVE  Reached(new, taken, m, Entries[m][i])
  <2>1. PICK e : e = Entries[m][i]
    OBVIOUS
  <2>2. Reached(rs, taken, m, e)
    BY <2>1 DEF FileSound
  <2>3. ASSUME e.outcome # "null", NEW k \in KeysOf(m, e)
        PROVE  \/ Suppressed(k, new, taken)
               \/ new[k] # NoRow /\ e.attempt \in Attempts(new[k].hist)
    <3>1. k \in Key
      BY DEF KeysOf
    <3>2. EditedRow(rs[k], new[k]) /\ (rs[k] # NoRow => new[k] # NoRow)
      BY <3>1, NoRowAssumption DEF EditedRow
    <3>3. \/ Suppressed(k, rs, taken)
          \/ rs[k] # NoRow /\ e.attempt \in Attempts(rs[k].hist)
      BY <2>2, <2>3 DEF Reached
    <3>4. Suppressed(k, rs, taken) => Suppressed(k, new, taken)
      BY <3>2 DEF Suppressed, HandOwned, EditedRow
    <3>5. rs[k] # NoRow => new[k].hist = rs[k].hist
      BY <3>2 DEF EditedRow
    <3> QED
      BY <3>2, <3>3, <3>4, <3>5
  <2>4. Reached(new, taken, m, e)
    BY <2>3 DEF Reached
  <2> QED
    BY <2>1, <2>4
<1> QED
    BY <1>2, <1>3 DEF FileSound

\* The edits of a row.
LEMMA RowEdits ==
    ASSUME NEW row \in Row
    PROVE  /\ \A gap \in Gaps : /\ EditedRow(row, [row EXCEPT !.gap = gap])
                                /\ [row EXCEPT !.gap = gap].gap = gap
                                /\ [row EXCEPT !.gap = gap].hand = row.hand
           /\ \A target \in {"unknown", "engine", "harness"} :
                /\ EditedRow(row, [row EXCEPT !.target = target])
                /\ [row EXCEPT !.target = target].gap = row.gap
                /\ [row EXCEPT !.target = target].hand = row.hand
           /\ EditedRow(row, [row EXCEPT !.hand = TRUE])
           /\ [row EXCEPT !.hand = TRUE].gap = row.gap
<1>1. \A gap \in Gaps : [row EXCEPT !.gap = gap] \in Row
    BY DEF Row
<1>2. \A target \in {"unknown", "engine", "harness"} : [row EXCEPT !.target = target] \in Row
    BY DEF Row
<1>3. [row EXCEPT !.hand = TRUE] \in Row
    BY DEF Row
<1>4. row # NoRow
    BY NoRowAssumption
<1>5. \A gap \in Gaps : /\ EditedRow(row, [row EXCEPT !.gap = gap])
                        /\ [row EXCEPT !.gap = gap].gap = gap
                        /\ [row EXCEPT !.gap = gap].hand = row.hand
    BY <1>1, <1>4 DEF EditedRow, Row
<1>6. \A target \in {"unknown", "engine", "harness"} :
        /\ EditedRow(row, [row EXCEPT !.target = target])
        /\ [row EXCEPT !.target = target].gap = row.gap
        /\ [row EXCEPT !.target = target].hand = row.hand
    BY <1>2, <1>4 DEF EditedRow, Row
<1>7. EditedRow(row, [row EXCEPT !.hand = TRUE]) /\ [row EXCEPT !.hand = TRUE].gap = row.gap
    BY <1>3, <1>4 DEF EditedRow, Row
<1> QED
    BY <1>5, <1>6, <1>7

LEMMA SameIsEdited ==
    ASSUME NEW rs \in GoodRows, NEW k \in Key
    PROVE  EditedRow(rs[k], rs[k])
    BY DEF EditedRow, GoodRows

\* Of a row whose gap kind an edit leaves alone, what stood of it stands.
LEMMA StandsWhenEdited ==
    ASSUME NEW a, NEW b, NEW given, NEW eds, NEW eds2, EditedRow(a, b), RowStands(a, given, eds),
           a # NoRow => /\ b.gap = a.gap
                        /\ b.hand => eds2 > 0
    PROVE  RowStands(b, given, eds2)
<1>1. CASE a = NoRow
    BY <1>1 DEF EditedRow, RowStands
<1>2. CASE a # NoRow
  <2>1. b # NoRow /\ b.gap = a.gap /\ b.latest = a.latest /\ b.ev = a.ev
    BY <1>2, NoRowAssumption DEF EditedRow
  <2> QED
    BY <1>2, <2>1 DEF RowStands, Earned
<1> QED
    BY <1>1, <1>2

\* An edit of the row of one key, whose gap kind it leaves alone.
LEMMA SoundWhenRowEdited ==
    ASSUME NEW rs, NEW taken, NEW claims, NEW ms, NEW nones, NEW eds \in Nat, NEW rep,
           FileSound(rs, taken, claims, ms, nones, eds, rep),
           NEW eds2 \in Nat, eds <= eds2,
           NEW k \in Key, rs[k] # NoRow, NEW b, EditedRow(rs[k], b), b.gap = rs[k].gap,
           b.hand => rs[k].hand \/ eds2 > 0
    PROVE  FileSound([rs EXCEPT ![k] = b], taken, claims, ms, nones, eds2, rep)
<1>1. rs \in GoodRows
    BY DEF FileSound
<1>2. b \in Row
    BY DEF EditedRow
<1>3. PICK new : new = [rs EXCEPT ![k] = b]
    OBVIOUS
<1>4. new \in [Key -> Row \cup {NoRow}] /\ \A j \in Key : new[j] = IF j = k THEN b ELSE rs[j]
    BY <1>1, <1>2, <1>3 DEF GoodRows
<1>5. ASSUME NEW j \in Key
      PROVE  EditedRow(rs[j], new[j]) /\ RowStands(new[j], j \in nones, eds2)
  <2>1. RowStands(rs[j], j \in nones, eds)
    BY DEF FileSound
  <2>2. EditedRow(rs[j], new[j])
    BY <1>1, <1>4, SameIsEdited
  <2>3. rs[j] # NoRow => new[j].gap = rs[j].gap
    BY <1>4
  <2>4. eds > 0 => eds2 > 0
    OBVIOUS
  <2>5. rs[j] # NoRow => (rs[j].hand => eds > 0)
    BY <2>1 DEF RowStands
  <2>6. rs[j] # NoRow => (new[j].hand => eds2 > 0)
    BY <1>4, <2>4, <2>5
  <2> QED
    BY <2>1, <2>2, <2>3, <2>6, StandsWhenEdited
<1>6. FileSound(new, taken, claims, ms, nones, eds2, rep)
    BY <1>1, <1>4, <1>5, SoundWhenEdited
<1> QED
    BY <1>3, <1>6

\* Gap kinds put into some rows by no merge, "none" only for the keys in nones.
GapsSet(rs, new, nones) ==
    \A k \in Key : \/ new[k] = rs[k]
                   \/ /\ rs[k] # NoRow /\ EditedRow(rs[k], new[k]) /\ new[k].hand = rs[k].hand
                      /\ new[k].gap = "none" => k \in nones

LEMMA SoundWhenGapsSet ==
    ASSUME NEW rs, NEW taken, NEW claims, NEW ms, NEW nones, NEW eds \in Nat, NEW rep,
           FileSound(rs, taken, claims, ms, nones, eds, rep),
           NEW eds2 \in Nat, eds <= eds2, NEW nones2, nones \subseteq nones2,
           NEW new \in [Key -> Row \cup {NoRow}], GapsSet(rs, new, nones2)
    PROVE  FileSound(new, taken, claims, ms, nones2, eds2, rep)
<1>1. rs \in GoodRows
    BY DEF FileSound
<1>2. FileSound(rs, taken, claims, ms, nones2, eds2, rep)
    BY SoundLater
<1>3. ASSUME NEW k \in Key
      PROVE  EditedRow(rs[k], new[k]) /\ RowStands(new[k], k \in nones2, eds2)
  <2>1. RowStands(rs[k], k \in nones2, eds2)
    BY <1>2 DEF FileSound
  <2>2. CASE /\ rs[k] # NoRow /\ EditedRow(rs[k], new[k]) /\ new[k].hand = rs[k].hand
             /\ new[k].gap = "none" => k \in nones2
    <3>1. new[k].hand => eds2 > 0
      BY <2>1, <2>2 DEF RowStands
    <3> QED
      BY <2>2, <3>1 DEF RowStands
  <2>3. CASE new[k] = rs[k]
    BY <1>1, <2>1, <2>3, SameIsEdited
  <2> QED
    BY <2>2, <2>3 DEF GapsSet
<1> QED
    BY <1>2, <1>3, SoundWhenEdited

-----------------------------------------------------------------------------
(***************************************************************************)
(* The inductive invariant.                                                 *)
(***************************************************************************)
LEMMA NoRowsAreSound ==
    ASSUME NEW eds, NEW rep
    PROVE  FileSound([k \in Key |-> NoRow], {}, {}, {}, {}, eds, rep)
<1>1. [k \in Key |-> NoRow] \in GoodRows
    BY DEF GoodRows
<1> QED
    BY <1>1 DEF FileSound, RowStands

LEMMA InitSound == Init => Sound
<1> SUFFICES ASSUME Init PROVE Sound
    OBVIOUS
<1>1. FileSound(rows, withdrawn, claimRows, merged, adopted, edits, reported)
    BY NoRowsAreSound DEF Init
<1>2. slow = NoMerge /\ slow.ms = {}
    BY DEF Init, NoMerge
<1>3. edits = 0 /\ 0 \in 0..MaxEdits /\ reported = {}
    BY MatrixAssumption DEF Init
<1>4. handGap \in [Key -> Gaps \cup {"unset"}] /\ adopted = {}
    BY DEF Init
<1> QED
    BY <1>1, <1>2, <1>3, <1>4 DEF Sound

\* A step adds to the history of the gap kinds.
GapsNoted ==
    /\ handGap' \in [Key -> Gaps \cup {"unset"}]
    /\ adopted \subseteq adopted' /\ adopted' \in SUBSET Key

LEMMA NotedWhenKept ==
    ASSUME Sound, UNCHANGED gapHistory
    PROVE  GapsNoted /\ handGap' = handGap /\ adopted' = adopted
    BY DEF Sound, gapHistory, GapsNoted

\* What a step leaves of the merge in hand.
LEMMA SlowStays ==
    ASSUME Sound, slow' = slow, edits' \in 0..MaxEdits, edits <= edits', reported \subseteq reported',
           reported' \in SUBSET Manifest, GapsNoted,
           FileSound(rows', withdrawn', claimRows', merged', adopted', edits', reported')
    PROVE  Sound'
<1>1. edits \in Nat /\ edits' \in Nat
    BY MatrixAssumption DEF Sound
<1>2. slow # NoMerge => FileSound(slow.rows, slow.withdrawn, slow.claimRows, slow.merged,
                                  adopted, edits, reported)
    BY DEF Sound
<1>3. slow # NoMerge => FileSound(slow.rows, slow.withdrawn, slow.claimRows, slow.merged,
                                  adopted', edits', reported')
    BY <1>1, <1>2, SoundLater DEF GapsNoted
<1>4. slow' # NoMerge => FileSound(slow'.rows, slow'.withdrawn, slow'.claimRows, slow'.merged,
                                   adopted', edits', reported')
    BY <1>3
<1>5. slow'.ms \in SUBSET Manifest
    BY DEF Sound
<1> QED
    BY <1>4, <1>5 DEF Sound, GapsNoted

LEMMA HandEditNotes == ASSUME Sound, HandEdit PROVE GapsNoted
<1>1. handGap \in [Key -> Gaps \cup {"unset"}] /\ adopted' = adopted /\ adopted \in SUBSET Key
    BY DEF Sound, HandEdit
<1>2. ASSUME NEW k \in Key, NEW gap \in {"Delivery gap", "Capability gap"}, HandSetGap(k, gap)
      PROVE  handGap' \in [Key -> Gaps \cup {"unset"}]
  <2>1. handGap' = [handGap EXCEPT ![k] = gap] /\ gap \in Gaps
    BY <1>2 DEF HandSetGap, Gaps
  <2> QED
    BY <1>1, <2>1
<1>3. handGap' \in [Key -> Gaps \cup {"unset"}]
    BY <1>1, <1>2 DEF HandEdit, Attribute, TakeOver, Withdraw, AddClaimRow
<1> QED
    BY <1>1, <1>3 DEF GapsNoted

LEMMA HandEditSound == ASSUME Sound, HandEdit PROVE Sound'
<1>1. PICK rs, taken, claims, ms, nones, eds, rep :
        /\ rs = rows /\ taken = withdrawn /\ claims = claimRows /\ ms = merged /\ nones = adopted
        /\ eds = edits /\ rep = reported
    OBVIOUS
<1>2. /\ eds \in Nat /\ edits' = eds + 1 /\ edits' \in 0..MaxEdits
      /\ reported' = rep /\ slow' = slow /\ adopted' = nones
  <2>1. /\ edits < MaxEdits /\ edits' = edits + 1 /\ reported' = reported /\ slow' = slow
        /\ adopted' = adopted
    BY DEF HandEdit
  <2>2. edits \in 0..MaxEdits
    BY DEF Sound
  <2> QED
    BY <1>1, <2>1, <2>2, MatrixAssumption
<1>3. FileSound(rs, taken, claims, ms, nones, eds, rep)
    BY <1>1 DEF Sound
<1>4. /\ rs \in GoodRows
      /\ taken \in SUBSET (Req \X Case) /\ claims \in SUBSET Req
    BY <1>3 DEF FileSound
<1>5. PICK eds2 \in Nat : eds2 = edits' /\ eds <= eds2 /\ eds2 > 0
    BY <1>2
<1>6. ASSUME NEW k \in Key, Attribute(k)
      PROVE  FileSound(rows', withdrawn', claimRows', merged', nones, eds2, rep)
  <2>1. rs[k] # NoRow /\ rs[k] \in Row
    BY <1>1, <1>4, <1>6 DEF Attribute, GoodRows
  <2>2. PICK b : b = [rs[k] EXCEPT !.target = "engine"]
    OBVIOUS
  <2>3. EditedRow(rs[k], b) /\ b.gap = rs[k].gap /\ b.hand = rs[k].hand
    BY <2>1, <2>2, RowEdits
  <2>4. FileSound([rs EXCEPT ![k] = b], taken, claims, ms, nones, eds2, rep)
    BY <1>2, <1>3, <1>5, <2>1, <2>3, SoundWhenRowEdited
  <2>5. rows' = [rs EXCEPT ![k] = b]
    BY <1>1, <1>6, <2>2 DEF Attribute
  <2>6. withdrawn' = taken /\ claimRows' = claims /\ merged' = ms
    BY <1>1, <1>6 DEF Attribute
  <2> QED
    BY <2>4, <2>5, <2>6
<1>7. ASSUME NEW k \in Key, TakeOver(k)
      PROVE  FileSound(rows', withdrawn', claimRows', merged', nones, eds2, rep)
  <2>1. rs[k] # NoRow /\ rs[k] \in Row
    BY <1>1, <1>4, <1>7 DEF TakeOver, GoodRows
  <2>2. PICK b : b = [rs[k] EXCEPT !.hand = TRUE]
    OBVIOUS
  <2>3. EditedRow(rs[k], b) /\ b.gap = rs[k].gap
    BY <2>1, <2>2, RowEdits
  <2>4. FileSound([rs EXCEPT ![k] = b], taken, claims, ms, nones, eds2, rep)
    BY <1>2, <1>3, <1>5, <2>1, <2>3, SoundWhenRowEdited
  <2>5. rows' = [rs EXCEPT ![k] = b]
    BY <1>1, <1>7, <2>2 DEF TakeOver
  <2>6. withdrawn' = taken /\ claimRows' = claims /\ merged' = ms
    BY <1>1, <1>7 DEF TakeOver
  <2> QED
    BY <2>4, <2>5, <2>6
<1>8. ASSUME NEW k \in Key, NEW gap \in {"Delivery gap", "Capability gap"}, HandSetGap(k, gap)
      PROVE  FileSound(rows', withdrawn', claimRows', merged', nones, eds2, rep)
  <2>1. rs[k] # NoRow /\ rs[k] \in Row /\ gap \in Gaps
    BY <1>1, <1>4, <1>8 DEF HandSetGap, GoodRows, Gaps
  <2>2. PICK b : b = [rs[k] EXCEPT !.gap = gap]
    OBVIOUS
  <2>3. EditedRow(rs[k], b) /\ b.gap = gap /\ b.hand = rs[k].hand
    BY <2>1, <2>2, RowEdits
  <2>4. PICK new : new = [rs EXCEPT ![k] = b]
    OBVIOUS
  <2>5. b \in Row
    BY <2>1, <2>3 DEF EditedRow
  <2>6. /\ new \in [Key -> Row \cup {NoRow}] /\ \A j \in Key : new[j] = IF j = k THEN b ELSE rs[j]
    BY <1>4, <2>4, <2>5 DEF GoodRows
  <2>7. GapsSet(rs, new, nones)
    <3>1. gap # "none"
      OBVIOUS
    <3> QED
      BY <2>1, <2>3, <2>6, <3>1 DEF GapsSet
  <2>8. FileSound(new, taken, claims, ms, nones, eds2, rep)
    <3>1. eds \in Nat /\ eds <= eds2
      BY <1>2, <1>5
    <3> QED
      BY <1>3, <2>6, <2>7, <3>1, SoundWhenGapsSet
  <2>9. /\ rows' = new
        /\ withdrawn' = taken /\ claimRows' = claims /\ merged' = ms
    BY <1>1, <1>8, <2>2, <2>4 DEF HandSetGap
  <2> QED
    BY <2>8, <2>9
<1>9. FileSound(rs, taken, claims, ms, nones, eds2, rep)
    BY <1>2, <1>3, <1>5, SoundLater
<1>10. ASSUME NEW r \in Req, NEW c \in Case, Withdraw(r, c)
       PROVE  FileSound(rows', withdrawn', claimRows', merged', nones, eds2, rep)
  <2>1. PICK more : more = taken \cup {<<r, c>>}
    OBVIOUS
  <2>2. \A m \in ms : \A i \in DOMAIN Entries[m] : Reached(rs, more, m, Entries[m][i])
    <3> SUFFICES ASSUME NEW m \in ms, NEW i \in DOMAIN Entries[m]
                 PROVE  Reached(rs, more, m, Entries[m][i])
      OBVIOUS
    <3>1. Reached(rs, taken, m, Entries[m][i])
      BY <1>3 DEF FileSound
    <3> QED
      BY <2>1, <3>1 DEF Reached, Suppressed
  <2>3. more \in SUBSET (Req \X Case)
    BY <1>4, <2>1
  <2>4. FileSound(rs, more, claims, ms, nones, eds2, rep)
    BY <1>9, <2>2, <2>3 DEF FileSound
  <2>5. rows' = rs /\ withdrawn' = more /\ claimRows' = claims /\ merged' = ms
    BY <1>1, <1>10, <2>1 DEF Withdraw
  <2> QED
    BY <2>4, <2>5
<1>11. ASSUME NEW r \in Req, AddClaimRow(r)
       PROVE  FileSound(rows', withdrawn', claimRows', merged', nones, eds2, rep)
  <2>1. PICK more : more = claims \cup {r}
    OBVIOUS
  <2>2. FileSound(rs, taken, more, ms, nones, eds2, rep)
    BY <1>4, <1>9, <2>1 DEF FileSound
  <2>3. rows' = rs /\ withdrawn' = taken /\ claimRows' = more /\ merged' = ms
    BY <1>1, <1>11, <2>1 DEF AddClaimRow
  <2> QED
    BY <2>2, <2>3
<1>12. FileSound(rows', withdrawn', claimRows', merged', nones, eds2, rep)
    BY <1>6, <1>7, <1>8, <1>10, <1>11 DEF HandEdit
<1>13. FileSound(rows', withdrawn', claimRows', merged', adopted', edits', reported')
    BY <1>2, <1>5, <1>12
<1>14. edits <= edits' /\ reported \subseteq reported' /\ reported' \in SUBSET Manifest
    BY <1>1, <1>2, <1>5 DEF Sound
<1>15. GapsNoted
    BY HandEditNotes
<1> QED
    BY <1>2, <1>13, <1>14, <1>15, SlowStays

LEMMA MergeSound == ASSUME Sound, NEW ms \in SUBSET Manifest, Merge(ms) PROVE Sound'
<1>1. /\ slow' = slow /\ edits' = edits /\ reported' = reported \cup ms
      /\ rows' = MergeAll(rows, withdrawn, ms) /\ merged' = merged \cup ms
      /\ withdrawn' = withdrawn /\ claimRows' = claimRows /\ UNCHANGED gapHistory
    BY DEF Merge
<1>2. FileSound(rows, withdrawn, claimRows, merged, adopted, edits, reported)
    BY DEF Sound
<1>3. FileSound(MergeAll(rows, withdrawn, ms), withdrawn, claimRows, merged \cup ms, adopted,
                edits, reported \cup ms)
    BY <1>2, SoundWhenMerged
<1>4. GapsNoted /\ adopted' = adopted
    BY <1>1, NotedWhenKept
<1>5. FileSound(rows', withdrawn', claimRows', merged', adopted', edits', reported')
    BY <1>1, <1>3, <1>4
<1>6. /\ edits' \in 0..MaxEdits /\ edits <= edits' /\ reported \subseteq reported'
      /\ reported' \in SUBSET Manifest
    BY <1>1, MatrixAssumption DEF Sound
<1> QED
    BY <1>1, <1>4, <1>5, <1>6, SlowStays

LEMMA LoadMatrixSound == ASSUME Sound, NEW ms \in SUBSET Manifest, LoadMatrix(ms) PROVE Sound'
<1>1. /\ rows' = rows /\ withdrawn' = withdrawn /\ claimRows' = claimRows /\ merged' = merged
      /\ handGap' = handGap /\ adopted' = adopted /\ edits' = edits /\ reported' = reported
    BY DEF LoadMatrix, file, gapHistory
<1>2. slow' = [ms |-> ms, rows |-> rows, withdrawn |-> withdrawn, claimRows |-> claimRows,
               merged |-> merged]
    BY DEF LoadMatrix
<1>3. /\ slow'.ms = ms /\ slow'.rows = rows /\ slow'.withdrawn = withdrawn
      /\ slow'.claimRows = claimRows /\ slow'.merged = merged
    BY <1>2
<1>4. FileSound(rows, withdrawn, claimRows, merged, adopted, edits, reported)
    BY DEF Sound
<1>5. FileSound(rows', withdrawn', claimRows', merged', adopted', edits', reported')
    BY <1>1, <1>4
<1>6. FileSound(slow'.rows, slow'.withdrawn, slow'.claimRows, slow'.merged, adopted',
                edits', reported')
    BY <1>1, <1>3, <1>4
<1>7. /\ slow'.ms \in SUBSET Manifest /\ edits' \in 0..MaxEdits /\ reported' \in SUBSET Manifest
      /\ handGap' \in [Key -> Gaps \cup {"unset"}] /\ adopted' \in SUBSET Key
    BY <1>1, <1>3 DEF Sound
<1> QED
    BY <1>5, <1>6, <1>7 DEF Sound

LEMMA WriteMatrixSound == ASSUME Sound, WriteMatrix PROVE Sound'
<1>1. PICK ms : ms = slow.ms
    OBVIOUS
<1>2. /\ slow # NoMerge /\ slow' = NoMerge /\ edits' = edits /\ reported' = reported \cup ms
      /\ rows' = MergeAll(slow.rows, slow.withdrawn, ms) /\ merged' = slow.merged \cup ms
      /\ withdrawn' = slow.withdrawn /\ claimRows' = slow.claimRows
      /\ handGap' = handGap /\ adopted' = adopted
    BY <1>1 DEF WriteMatrix, gapHistory
<1>3. FileSound(slow.rows, slow.withdrawn, slow.claimRows, slow.merged, adopted,
                edits, reported)
    BY <1>2 DEF Sound
<1>4. ms \in SUBSET Manifest
    BY <1>1 DEF Sound
<1>5. FileSound(MergeAll(slow.rows, slow.withdrawn, ms), slow.withdrawn, slow.claimRows,
                slow.merged \cup ms, adopted, edits, reported \cup ms)
    BY <1>3, <1>4, SoundWhenMerged
<1>6. FileSound(rows', withdrawn', claimRows', merged', adopted', edits', reported')
    BY <1>2, <1>5
<1>7. slow'.ms = {}
    BY <1>2 DEF NoMerge
<1>8. /\ edits' \in 0..MaxEdits /\ reported' \in SUBSET Manifest
      /\ handGap' \in [Key -> Gaps \cup {"unset"}] /\ adopted' \in SUBSET Key
    BY <1>2, <1>4 DEF Sound
<1> QED
    BY <1>2, <1>6, <1>7, <1>8 DEF Sound

LEMMA StutterSound == ASSUME Sound, UNCHANGED vars PROVE Sound'
<1>1. /\ rows' = rows /\ withdrawn' = withdrawn /\ claimRows' = claimRows /\ merged' = merged
      /\ handGap' = handGap /\ adopted' = adopted /\ edits' = edits /\ reported' = reported
      /\ slow' = slow
    BY DEF vars, file, gapHistory
<1> QED
    BY <1>1 DEF Sound

LEMMA NextSound == ASSUME Sound, [Next]_vars PROVE Sound'
<1>1. CASE HandEdit
    BY <1>1, HandEditSound
<1>2. CASE WriteMatrix
    BY <1>2, WriteMatrixSound
<1>3. ASSUME NEW ms \in SUBSET Manifest, Merge(ms) PROVE Sound'
    BY <1>3, MergeSound
<1>4. ASSUME NEW ms \in SUBSET Manifest, LoadMatrix(ms) PROVE Sound'
    BY <1>4, LoadMatrixSound
<1>5. CASE UNCHANGED vars
    BY <1>5, StutterSound
<1> QED
    BY <1>1, <1>2, <1>3, <1>4, <1>5 DEF Next

LEMMA IndInvKept == Spec => []IndInv
<1>1. Init => Sound
    BY InitSound
<1>2. Sound /\ [Next]_vars => Sound'
    BY NextSound
<1>3. Sound <=> IndInv
    BY SoundIsIndInv
<1> QED
    BY <1>1, <1>2, <1>3, PTL DEF Spec

(***************************************************************************)
(* The scripts between the merges.                                          *)
(***************************************************************************)

\* The two matrices a matrix is started from have no row in common.
LEMMA SoundWhenSeeded ==
    ASSUME NEW left \in SUBSET Manifest, NEW right \in SUBSET Manifest, NEW a, NEW b,
           a = MergeAll(NoRows, {}, left), b = MergeAll(NoRows, {}, right),
           \A k \in Key : a[k] = NoRow \/ b[k] = NoRow,
           NEW nones, NEW eds, NEW rep, left \cup right \subseteq rep
    PROVE  FileSound([k \in Key |-> IF a[k] = NoRow THEN b[k] ELSE a[k]], {}, {},
                     left \cup right, nones, eds, rep)
<1>1. NoRows \in GoodRows
    BY DEF NoRows, GoodRows
<1>2. /\ a \in GoodRows /\ Grown(NoRows, a)
      /\ \A m \in left : \A i \in DOMAIN Entries[m] : Reached(a, {}, m, Entries[m][i])
    BY <1>1, MergeGrows
<1>3. /\ b \in GoodRows /\ Grown(NoRows, b)
      /\ \A m \in right : \A i \in DOMAIN Entries[m] : Reached(b, {}, m, Entries[m][i])
    BY <1>1, MergeGrows
<1>4. PICK new : new = [k \in Key |-> IF a[k] = NoRow THEN b[k] ELSE a[k]]
    OBVIOUS
<1>5. ASSUME NEW r, Grown(NoRows, r), NEW k \in Key, r[k] # NoRow
      PROVE  r[k].hand = FALSE /\ (r[k].gap = "none" => Earned(r[k]))
  <2>1. NoRows[k] = NoRow
    BY DEF NoRows
  <2>2. GrownRow(NoRow, r[k])
    BY <1>5, <2>1 DEF Grown
  <2> QED
    BY <1>5, <2>2 DEF GrownRow
<1>6. new \in GoodRows
    BY <1>2, <1>3, <1>4 DEF GoodRows
<1>7. ASSUME NEW k \in Key PROVE RowStands(new[k], k \in nones, eds)
  <2>1. /\ a[k] # NoRow => a[k].hand = FALSE /\ (a[k].gap = "none" => Earned(a[k]))
        /\ b[k] # NoRow => b[k].hand = FALSE /\ (b[k].gap = "none" => Earned(b[k]))
    BY <1>2, <1>3, <1>5
  <2>2. new[k] # NoRow => new[k].hand = FALSE /\ (new[k].gap = "none" => Earned(new[k]))
    BY <1>4, <2>1
  <2> QED
    BY <2>2 DEF RowStands
<1>8. ASSUME NEW r, Grown(NoRows, r), NEW m, NEW e, Reached(r, {}, m, e),
             \A k \in Key : r[k] # NoRow => new[k] = r[k]
      PROVE  Reached(new, {}, m, e)
  <2> SUFFICES ASSUME e.outcome # "null", NEW k \in KeysOf(m, e)
               PROVE  new[k] # NoRow /\ e.attempt \in Attempts(new[k].hist)
    BY DEF Reached
  <2>1. k \in Key
    BY DEF KeysOf
  <2>2. ~HandOwned(k, r)
    BY <1>5, <1>8, <2>1 DEF HandOwned
  <2>3. r[k] # NoRow /\ e.attempt \in Attempts(r[k].hist)
    BY <1>8, <2>2 DEF Reached, Suppressed
  <2> QED
    BY <1>8, <2>1, <2>3
<1>9. /\ \A k \in Key : a[k] # NoRow => new[k] = a[k]
      /\ \A k \in Key : b[k] # NoRow => new[k] = b[k]
    BY <1>4
<1>10. ASSUME NEW m \in left \cup right, NEW i \in DOMAIN Entries[m]
       PROVE  Reached(new, {}, m, Entries[m][i])
  <2>1. CASE m \in left
    <3>1. Reached(a, {}, m, Entries[m][i])
      BY <1>2, <2>1
    <3> QED
      BY <1>2, <1>8, <1>9, <3>1
  <2>2. CASE m \in right
    <3>1. Reached(b, {}, m, Entries[m][i])
      BY <1>3, <2>2
    <3> QED
      BY <1>3, <1>8, <1>9, <3>1
  <2> QED
    BY <2>1, <2>2
<1>11. FileSound(new, {}, {}, left \cup right, nones, eds, rep)
    BY <1>6, <1>7, <1>10 DEF FileSound
<1> QED
    BY <1>4, <1>11

LEMMA SeedSound ==
    ASSUME Sound, NEW left \in SUBSET Manifest, NEW right \in SUBSET Manifest, Seed(left, right)
    PROVE  Sound'
<1>1. PICK a, b : a = MergeAll(NoRows, {}, left) /\ b = MergeAll(NoRows, {}, right)
    OBVIOUS
<1>2. /\ rows = NoRows /\ withdrawn = {} /\ claimRows = {}
      /\ \A k \in Key : a[k] = NoRow \/ b[k] = NoRow
      /\ rows' = [k \in Key |-> IF a[k] = NoRow THEN b[k] ELSE a[k]]
      /\ merged' = left \cup right /\ reported' = reported \cup left \cup right
      /\ withdrawn' = withdrawn /\ claimRows' = claimRows /\ edits' = edits /\ slow' = slow
      /\ UNCHANGED gapHistory
    BY <1>1 DEF Seed
<1>3. PICK rep : rep = reported'
    OBVIOUS
<1>4. GapsNoted /\ adopted' = adopted
    BY <1>2, NotedWhenKept
<1>5. left \cup right \subseteq rep
    BY <1>2, <1>3
<1>6. FileSound([k \in Key |-> IF a[k] = NoRow THEN b[k] ELSE a[k]], {}, {}, left \cup right,
                adopted', edits', rep)
    BY <1>1, <1>2, <1>5, SoundWhenSeeded
<1>7. FileSound(rows', withdrawn', claimRows', merged', adopted', edits', reported')
    BY <1>2, <1>3, <1>6
<1>8. /\ edits' \in 0..MaxEdits /\ edits <= edits' /\ reported \subseteq reported'
      /\ reported' \in SUBSET Manifest
    BY <1>2, MatrixAssumption DEF Sound
<1> QED
    BY <1>2, <1>4, <1>7, <1>8, SlowStays

\* Rows scoped by a script.
LEMMA GapsSetSound ==
    ASSUME Sound, Untouched, GapsNoted, rows' \in [Key -> Row \cup {NoRow}],
           GapsSet(rows, rows', adopted')
    PROVE  Sound'
<1>1. PICK rs, new, nones, nones2, eds : rs = rows /\ new = rows' /\ nones = adopted
                                         /\ nones2 = adopted' /\ eds = edits
    OBVIOUS
<1>2. /\ withdrawn' = withdrawn /\ claimRows' = claimRows /\ merged' = merged /\ edits' = eds
      /\ slow' = slow /\ reported' = reported /\ eds \in Nat /\ eds <= eds
    BY <1>1, MatrixAssumption DEF Untouched, Sound
<1>3. FileSound(rs, withdrawn, claimRows, merged, nones, eds, reported)
    BY <1>1 DEF Sound
<1>4. /\ new \in [Key -> Row \cup {NoRow}] /\ nones \subseteq nones2
      /\ GapsSet(rs, new, nones2)
    BY <1>1 DEF GapsNoted
<1>5. FileSound(new, withdrawn, claimRows, merged, nones2, eds, reported)
    BY <1>2, <1>3, <1>4, SoundWhenGapsSet
<1>6. FileSound(rows', withdrawn', claimRows', merged', adopted', edits', reported')
    BY <1>1, <1>2, <1>5
<1>7. /\ edits' \in 0..MaxEdits /\ edits <= edits' /\ reported \subseteq reported'
      /\ reported' \in SUBSET Manifest
    BY <1>1, <1>2 DEF Sound
<1> QED
    BY <1>2, <1>6, <1>7, SlowStays

LEMMA ScopedRow ==
    ASSUME Sound, NEW k \in Key, Scoped(k)
    PROVE  /\ rows[k] # NoRow /\ EditedRow(rows[k], ScopeRow(rows[k]))
           /\ ScopeRow(rows[k]) \in Row
           /\ ScopeRow(rows[k]).gap = "Delivery gap" /\ ScopeRow(rows[k]).hand = rows[k].hand
<1>1. rows[k] # NoRow /\ rows[k] \in Row
    BY DEF Sound, FileSound, Scoped, GoodRows
<1>2. "Delivery gap" \in Gaps
    BY DEF Gaps
<1>3. PICK row \in Row, gap \in Gaps : row = rows[k] /\ gap = "Delivery gap"
    BY <1>1, <1>2
<1>4. /\ EditedRow(row, ScopeRow(row)) /\ ScopeRow(row).gap = "Delivery gap"
      /\ ScopeRow(row).hand = row.hand
  <2>1. ScopeRow(row) = [row EXCEPT !.gap = gap]
    BY <1>3 DEF ScopeRow
  <2>2. /\ EditedRow(row, [row EXCEPT !.gap = gap]) /\ [row EXCEPT !.gap = gap].gap = gap
        /\ [row EXCEPT !.gap = gap].hand = row.hand
    BY RowEdits
  <2> QED
    BY <1>3, <2>1, <2>2
<1>5. ScopeRow(row) \in Row
    BY <1>1, <1>3, <1>4 DEF EditedRow
<1> QED
    BY <1>1, <1>3, <1>4, <1>5

LEMMA ScopeCaseRowsSound == ASSUME Sound, ScopeCaseRows PROVE Sound'
<1>1. /\ rows' = [k \in Key |-> IF Scoped(k) THEN ScopeRow(rows[k]) ELSE rows[k]]
      /\ handGap' = [k \in Key |-> IF Scoped(k) THEN "Delivery gap" ELSE handGap[k]]
      /\ adopted' = adopted /\ Untouched
    BY DEF ScopeCaseRows
<1>2. rows' \in [Key -> Row \cup {NoRow}]
    BY <1>1, ScopedRow DEF Sound, FileSound, GoodRows
<1>3. GapsNoted
    BY <1>1 DEF Sound, GapsNoted, Gaps
<1>4. GapsSet(rows, rows', adopted')
    BY <1>1, ScopedRow DEF GapsSet
<1> QED
    BY <1>1, <1>2, <1>3, <1>4, GapsSetSound

LEMMA AdoptedRow ==
    ASSUME Sound, NEW k \in Key, Adopted(k)
    PROVE  /\ rows[k] # NoRow /\ EditedRow(rows[k], AdoptRow(rows[k], Authority[k]))
           /\ AdoptRow(rows[k], Authority[k]) \in Row
           /\ AdoptRow(rows[k], Authority[k]).gap = Authority[k].gap
           /\ AdoptRow(rows[k], Authority[k]).hand = rows[k].hand
           /\ Authority[k].gap \in Gaps
<1>1. rows[k] # NoRow /\ rows[k] \in Row /\ Authority[k] # NoRow
    BY DEF Sound, FileSound, Adopted, GoodRows
<1>2. PICK row, auth, gap, target, new :
        /\ row = rows[k] /\ auth = Authority[k] /\ gap = auth.gap
        /\ target = (IF auth.target = "unknown" THEN row.target ELSE auth.target)
        /\ new = AdoptRow(row, auth)
    OBVIOUS
<1>3. auth \in [gap : Gaps, target : {"unknown", "engine", "harness"}]
    BY <1>1, <1>2, ScopingAssumption
<1>4. gap \in Gaps /\ target \in {"unknown", "engine", "harness"} /\ row \in Row
    BY <1>1, <1>2, <1>3, RowIs
<1>5. new = [row EXCEPT !.gap = gap, !.target = target]
    BY <1>2 DEF AdoptRow
<1>6. /\ new \in Row
      /\ new.hist = row.hist /\ new.run = row.run /\ new.ev = row.ev /\ new.latest = row.latest
      /\ new.ever = row.ever /\ new.failures = row.failures
      /\ new.intermittent = row.intermittent /\ new.hand = row.hand /\ new.gap = gap
    BY <1>4, <1>5 DEF Row
<1>7. EditedRow(row, new)
    BY <1>1, <1>2, <1>6 DEF EditedRow
<1> QED
    BY <1>1, <1>2, <1>4, <1>6, <1>7

LEMMA AdoptScopeSound == ASSUME Sound, AdoptScope PROVE Sound'
<1>1. /\ rows' = [k \in Key |-> IF Adopted(k) THEN AdoptRow(rows[k], Authority[k]) ELSE rows[k]]
      /\ handGap' = [k \in Key |-> IF Adopted(k) THEN Authority[k].gap ELSE handGap[k]]
      /\ adopted' = adopted \cup {k \in Key : Adopted(k) /\ Authority[k].gap = "none"}
      /\ Untouched
    BY DEF AdoptScope
<1>2. rows' \in [Key -> Row \cup {NoRow}]
    BY <1>1, AdoptedRow DEF Sound, FileSound, GoodRows
<1>3. GapsNoted
    BY <1>1, AdoptedRow DEF Sound, GapsNoted
<1>4. GapsSet(rows, rows', adopted')
    BY <1>1, AdoptedRow DEF GapsSet
<1> QED
    BY <1>1, <1>2, <1>3, <1>4, GapsSetSound

LEMMA ApplyFindingsSound == ASSUME Sound, ApplyFindings PROVE Sound'
<1>1. PICK rs, k, b, nones, eds : /\ rs = rows /\ k = FailedKey /\ nones = adopted /\ eds = edits
                                  /\ b = [rs[k] EXCEPT !.target = "harness"]
    OBVIOUS
<1>2. /\ rs[k] # NoRow /\ rows' = [rs EXCEPT ![k] = b] /\ UNCHANGED gapHistory
      /\ withdrawn' = withdrawn /\ claimRows' = claimRows /\ merged' = merged /\ edits' = eds
      /\ slow' = slow /\ reported' = reported
    BY <1>1 DEF ApplyFindings, Untouched
<1>3. FileSound(rs, withdrawn, claimRows, merged, nones, eds, reported)
    BY <1>1 DEF Sound
<1>4. k \in Key /\ rs[k] \in Row
    BY <1>1, <1>2, <1>3, ScopingAssumption DEF FileSound, GoodRows
<1>5. EditedRow(rs[k], b) /\ b.gap = rs[k].gap /\ b.hand = rs[k].hand
    BY <1>1, <1>4, RowEdits
<1>6. eds \in Nat /\ eds <= eds
    BY <1>1, MatrixAssumption DEF Sound
<1>7. FileSound([rs EXCEPT ![k] = b], withdrawn, claimRows, merged, nones, eds, reported)
    BY <1>2, <1>3, <1>4, <1>5, <1>6, SoundWhenRowEdited
<1>8. GapsNoted /\ adopted' = adopted
    BY <1>2, NotedWhenKept
<1>9. FileSound(rows', withdrawn', claimRows', merged', adopted', edits', reported')
    BY <1>1, <1>2, <1>7, <1>8
<1>10. /\ edits' \in 0..MaxEdits /\ edits <= edits' /\ reported \subseteq reported'
       /\ reported' \in SUBSET Manifest
    BY <1>1, <1>2, <1>6 DEF Sound
<1> QED
    BY <1>2, <1>8, <1>9, <1>10, SlowStays

LEMMA ScopingNextSound == ASSUME Sound, [ScopingNext]_scopingVars PROVE Sound'
<1>1. ASSUME NEW left \in SUBSET Manifest, NEW right \in SUBSET Manifest, Seed(left, right)
      PROVE  Sound'
    BY <1>1, SeedSound
<1>2. CASE ScopeCaseRows
    BY <1>2, ScopeCaseRowsSound
<1>3. CASE ApplyFindings
    BY <1>3, ApplyFindingsSound
<1>4. CASE AdoptScope
    BY <1>4, AdoptScopeSound
<1>5. CASE UserExcludes
  <2>1. UNCHANGED vars
    BY <1>5 DEF UserExcludes, Untouched, vars, file, gapHistory
  <2> QED
    BY <2>1, StutterSound
<1>6. ASSUME NEW m \in Manifest, Merge({m}) PROVE Sound'
  <2>1. {m} \in SUBSET Manifest
    OBVIOUS
  <2> QED
    BY <1>6, <2>1, MergeSound
<1>7. CASE UNCHANGED scopingVars
    BY <1>7, StutterSound DEF scopingVars
<1> QED
    BY <1>1, <1>2, <1>3, <1>4, <1>5, <1>6, <1>7 DEF ScopingNext

LEMMA IndInvKeptByScripts == ScopingSpec => []IndInv
<1>1. ScopingInit => Sound
    BY InitSound DEF ScopingInit
<1>2. Sound /\ [ScopingNext]_scopingVars => Sound'
    BY ScopingNextSound
<1>3. Sound <=> IndInv
    BY SoundIsIndInv
<1> QED
    BY <1>1, <1>2, <1>3, PTL DEF ScopingSpec

-----------------------------------------------------------------------------
(***************************************************************************)
(* What the properties have from the inductive invariant.                   *)
(***************************************************************************)
LEMMA RowsFollow == IndInv => RowFollowsHistory
    BY DEF IndInv, Kept, RowKept, InFile, RowFollowsHistory, HasRow

LEMMA AllAccounted == IndInv => Accounted
    BY DEF IndInv, Kept, InFile, Accounted

\* Every attempt of a merged manifest is where a merge would put it: merging it again is idle.
LEMMA MergedIsIdle == IndInv => Idempotent
<1> SUFFICES ASSUME Sound, NEW m \in merged PROVE MergeManifest(rows, withdrawn, m) = rows
    BY SoundIsIndInv DEF Idempotent
<1>1. /\ rows \in GoodRows /\ m \in Manifest
      /\ \A i \in DOMAIN Entries[m] : Reached(rows, withdrawn, m, Entries[m][i])
    BY DEF Sound, FileSound
<1> QED
    BY <1>1, ManifestIdle

\* The one merge of everything reported is a merge from a sound matrix like any other.
LEMMA LossIsMended == IndInv => LostIsMended
<1> SUFFICES ASSUME Sound
             PROVE  AccountedIn(MergeAll(rows, withdrawn, reported), withdrawn, reported)
    BY SoundIsIndInv DEF LostIsMended
<1>1. PICK new : new = MergeAll(rows, withdrawn, reported)
    OBVIOUS
<1>2. FileSound(rows, withdrawn, claimRows, merged, adopted, edits, reported)
      /\ reported \in SUBSET Manifest
    BY DEF Sound
<1>3. FileSound(new, withdrawn, claimRows, merged \cup reported, adopted, edits,
                reported \cup reported)
    BY <1>1, <1>2, SoundWhenMerged
<1> SUFFICES ASSUME NEW m \in reported, NEW i \in DOMAIN Entries[m]
             PROVE  EntryIn(new, withdrawn, m, Entries[m][i])
    BY <1>1 DEF AccountedIn
<1>4. PICK e : e = Entries[m][i]
    OBVIOUS
<1> SUFFICES ASSUME e.outcome # "null", NEW k \in KeysOf(m, e), <<k.req, k.case>> \notin withdrawn
             PROVE  \/ new[k] # NoRow /\ e.attempt \in Attempts(new[k].hist)
                    \/ HandOwned(k, new) /\ edits > 0
    BY <1>4 DEF EntryIn
<1>5. k \in Key
    BY DEF KeysOf
<1>6. Reached(new, withdrawn, m, e)
    BY <1>3, <1>4 DEF FileSound
<1>7. \/ HandOwned(k, new)
      \/ new[k] # NoRow /\ e.attempt \in Attempts(new[k].hist)
    BY <1>6 DEF Reached, Suppressed
<1>8. HandOwned(k, new) => edits > 0
    BY <1>3, <1>5 DEF FileSound, RowStands, HandOwned
<1> QED
    BY <1>7, <1>8

\* Of a history in order, the validator's latest attempt is the last.
LEMMA LatestIsLast ==
    ASSUME NEW hist \in Seq(Attempt), InOrder(hist), hist # <<>>
    PROVE  hist[Rules!LatestAt(hist)] = Last(hist)
<1>1. PICK l : l = Len(hist)
    OBVIOUS
<1>2. /\ l \in Nat /\ DOMAIN hist = 1..l /\ \A i \in 1..l : hist[i].at \in Nat
    BY <1>1, HistoryIs
<1>3. l \in 1..l
    BY <1>1, <1>2, EmptySeq
<1> DEFINE Latest(i) == \A j \in DOMAIN hist :
                          hist[j].at < hist[i].at \/ (hist[j].at = hist[i].at /\ j <= i)
<1>4. Latest(l)
  <2> SUFFICES ASSUME NEW j \in 1..l
               PROVE  hist[j].at < hist[l].at \/ (hist[j].at = hist[l].at /\ j <= l)
    BY <1>2
  <2>1. j = l \/ (j < l /\ hist[j].at <= hist[l].at)
    BY <1>2, <1>3 DEF InOrder
  <2> QED
    BY <1>2, <1>3, <2>1
<1>5. ASSUME NEW i \in 1..l, Latest(i) PROVE i = l
  <2>1. hist[l].at < hist[i].at \/ (hist[l].at = hist[i].at /\ l <= i)
    BY <1>2, <1>3, <1>5
  <2>2. i = l \/ hist[i].at <= hist[l].at
    BY <1>2, <1>3 DEF InOrder
  <2> QED
    BY <1>2, <1>3, <2>1, <2>2
<1>6. PICK i : i = Rules!LatestAt(hist)
    OBVIOUS
<1>7. i = CHOOSE n \in DOMAIN hist : Latest(n)
    BY <1>6 DEF Rules!LatestAt
<1>8. \E n \in DOMAIN hist : Latest(n)
    BY <1>2, <1>3, <1>4
<1>9. i \in DOMAIN hist /\ Latest(i)
  <2> HIDE DEF Latest
  <2> QED
    BY <1>7, <1>8
<1>10. i = l
    BY <1>2, <1>5, <1>9
<1> QED
    BY <1>1, <1>6, <1>10 DEF Last

LEMMA ValidatorAgrees == IndInv => ValidatorAccepts
<1> SUFFICES ASSUME IndInv, NEW k \in Key, HasRow(k),
                    ~(rows[k].gap = "none" /\ k \in adopted)
             PROVE  Rules!RowSound(
                      [hist |-> rows[k].hist, gap |-> rows[k].gap, latest |-> rows[k].latest,
                       ev |-> rows[k].ev, ever |-> rows[k].ever, failures |-> rows[k].failures,
                       caseless |-> FALSE, req |-> k.req], Req)
    BY DEF ValidatorAccepts
<1>1. PICK row : row = rows[k]
    OBVIOUS
<1>2. row \in Row /\ FollowsHistory(row) /\ (row.gap = "none" => Earned(row))
    BY <1>1 DEF HasRow, IndInv, TypeOK, FileType, Kept, RowKept, InFile
<1>3. row.hist \in Seq(Attempt) /\ InOrder(row.hist) /\ row.hist # <<>>
    BY <1>2, RowIs DEF FollowsHistory, InOrder
<1>4. row.latest = row.hist[Rules!LatestAt(row.hist)].outcome
    BY <1>2, <1>3, LatestIsLast DEF FollowsHistory
<1>5. row.failures = Cardinality({i \in DOMAIN row.hist : row.hist[i].outcome = "FAIL"})
    BY <1>2 DEF FollowsHistory, Failures
<1>6. row.ever <=> {i \in DOMAIN row.hist : row.hist[i].outcome = "FAIL"} # {}
    BY <1>2 DEF FollowsHistory
<1>7. k.req \in Req
    BY DEF Key
<1>8. PICK r : r = [hist |-> row.hist, gap |-> row.gap, latest |-> row.latest, ev |-> row.ev,
                    ever |-> row.ever, failures |-> row.failures, caseless |-> FALSE,
                    req |-> k.req]
    OBVIOUS
<1>9. /\ r.hist = row.hist /\ r.gap = row.gap /\ r.latest = row.latest /\ r.ev = row.ev
      /\ r.ever = row.ever /\ r.failures = row.failures /\ r.caseless = FALSE
      /\ r.req = k.req
    BY <1>8
<1>10. /\ r.gap = "none" => r.latest = "PASS" /\ r.ev \in {"proven", "reused"}
       /\ r.ever <=> {i \in DOMAIN r.hist : r.hist[i].outcome = "FAIL"} # {}
       /\ r.failures = Cardinality({i \in DOMAIN r.hist : r.hist[i].outcome = "FAIL"})
       /\ r.latest = r.hist[Rules!LatestAt(r.hist)].outcome
    BY <1>2, <1>4, <1>5, <1>6, <1>9 DEF Earned
<1>11. ASSUME NEW S PROVE Rules!Cardinality(S) = Cardinality(S)
    BY DEF Rules!Cardinality, Cardinality
<1>12. Rules!RowSound(r, Req)
    BY <1>7, <1>9, <1>10, <1>11 DEF Rules!RowSound
<1> QED
    BY <1>1, <1>8, <1>12

\* Of a row: what no merge may take from it.
Erased(a, b) ==
    ~ /\ b # NoRow
      /\ \A i \in DOMAIN a.hist : \E j \in DOMAIN b.hist : b.hist[j] = a.hist[i]
      /\ a.ever => b.ever

LEMMA GrownKeeps ==
    ASSUME Sound, NEW ms \in SUBSET Manifest, rows' = MergeAll(rows, withdrawn, ms),
           NEW k \in Key, HasRow(k)
    PROVE  ~Erased(rows[k], rows'[k]) /\ (rows[k].hand => rows'[k] = rows[k])
<1>1. rows \in GoodRows
    BY DEF Sound, FileSound
<1>2. Grown(rows, MergeAll(rows, withdrawn, ms))
    BY <1>1, MergeGrows
<1>3. GrownRow(rows[k], rows'[k])
    BY <1>2 DEF Grown
<1> QED
    BY <1>3 DEF GrownRow, Erased, HasRow

LEMMA EditErasesNothing ==
    ASSUME Sound, HandEdit, NEW k \in Key, HasRow(k)
    PROVE  ~Erased(rows[k], rows'[k]) /\ merged' = merged
<1>1. rows \in GoodRows
    BY DEF Sound, FileSound
<1>2. rows[k] \in Row /\ rows[k] # NoRow
    BY <1>1 DEF GoodRows, HasRow
<1>3. ASSUME EditedRow(rows[k], rows'[k]) PROVE ~Erased(rows[k], rows'[k])
    BY <1>2, <1>3, NoRowAssumption DEF EditedRow, Erased
<1>4. EditedRow(rows[k], rows[k])
    BY <1>1, SameIsEdited
<1>5. ASSUME NEW j \in Key, NEW b, rows' = [rows EXCEPT ![j] = b], EditedRow(rows[j], b)
      PROVE  EditedRow(rows[k], rows'[k])
    BY <1>1, <1>4, <1>5 DEF GoodRows
<1>6. ASSUME NEW j \in Key, rows[j] # NoRow PROVE rows[j] \in Row
    BY <1>1, <1>6 DEF GoodRows
<1>7. ASSUME NEW j \in Key, Attribute(j) PROVE EditedRow(rows[k], rows'[k]) /\ merged' = merged
  <2>1. EditedRow(rows[j], [rows[j] EXCEPT !.target = "engine"])
    BY <1>6, <1>7, RowEdits DEF Attribute
  <2>2. PICK b : b = [rows[j] EXCEPT !.target = "engine"]
    OBVIOUS
  <2>3. rows' = [rows EXCEPT ![j] = b] /\ merged' = merged
    BY <1>7, <2>2 DEF Attribute
  <2> QED
    BY <1>5, <2>1, <2>2, <2>3
<1>8. ASSUME NEW j \in Key, TakeOver(j) PROVE EditedRow(rows[k], rows'[k]) /\ merged' = merged
  <2>1. EditedRow(rows[j], [rows[j] EXCEPT !.hand = TRUE])
    BY <1>6, <1>8, RowEdits DEF TakeOver
  <2>2. PICK b : b = [rows[j] EXCEPT !.hand = TRUE]
    OBVIOUS
  <2>3. rows' = [rows EXCEPT ![j] = b] /\ merged' = merged
    BY <1>8, <2>2 DEF TakeOver
  <2> QED
    BY <1>5, <2>1, <2>2, <2>3
<1>9. ASSUME NEW j \in Key, NEW gap \in Gaps, HandSetGap(j, gap)
      PROVE  EditedRow(rows[k], rows'[k]) /\ merged' = merged
  <2>1. EditedRow(rows[j], [rows[j] EXCEPT !.gap = gap])
    BY <1>6, <1>9, RowEdits DEF HandSetGap
  <2>2. PICK b : b = [rows[j] EXCEPT !.gap = gap]
    OBVIOUS
  <2>3. rows' = [rows EXCEPT ![j] = b] /\ merged' = merged
    BY <1>9, <2>2 DEF HandSetGap
  <2> QED
    BY <1>5, <2>1, <2>2, <2>3
<1>10. ASSUME NEW r, NEW c, Withdraw(r, c) PROVE rows' = rows /\ merged' = merged
    BY <1>10 DEF Withdraw
<1>11. ASSUME NEW r, AddClaimRow(r) PROVE rows' = rows /\ merged' = merged
    BY <1>11 DEF AddClaimRow
<1>12. {"Delivery gap", "Capability gap"} \subseteq Gaps
    BY DEF Gaps
<1>13. EditedRow(rows[k], rows'[k]) /\ merged' = merged
    BY <1>4, <1>7, <1>8, <1>9, <1>10, <1>11, <1>12 DEF HandEdit
<1> QED
    BY <1>3, <1>13

\* The row of key k has the gap kind it was given by hand or by a script ...
AsGiven(k) ==
    handGap[k] \notin {"unset", "none"} /\ HasRow(k) /\ rows[k].gap = handGap[k]

\* ... and has it, or one that was given meanwhile, after the step.
StillAsGiven(k) == rows'[k] # NoRow /\ rows'[k].gap = handGap'[k]

\* A merge from rows that have it: those of the file, or those it had loaded.
LEMMA GapStandsInMerge ==
    ASSUME NEW rs \in GoodRows, NEW taken, NEW ms \in SUBSET Manifest,
           rows' = MergeAll(rs, taken, ms), handGap' = handGap,
           NEW k \in Key, handGap[k] # "none", rs[k] # NoRow, rs[k].gap = handGap[k]
    PROVE  StillAsGiven(k)
<1>1. Grown(rs, MergeAll(rs, taken, ms))
    BY MergeGrows
<1>2. GrownRow(rs[k], rows'[k])
    BY <1>1 DEF Grown
<1> QED
    BY <1>2 DEF GrownRow, StillAsGiven

LEMMA GapStandsInEdit ==
    ASSUME Sound, HandEdit, NEW k \in Key, AsGiven(k)
    PROVE  StillAsGiven(k)
<1>1. rows \in GoodRows /\ handGap \in [Key -> Gaps \cup {"unset"}]
    BY DEF Sound, FileSound
<1>2. ASSUME NEW j \in Key, rows[j] # NoRow PROVE rows[j] \in Row
    BY <1>1, <1>2 DEF GoodRows
<1>3. ASSUME NEW j \in Key, NEW b, rows' = [rows EXCEPT ![j] = b], EditedRow(rows[j], b),
             rows[j] # NoRow, b.gap = rows[j].gap, handGap' = handGap
      PROVE  StillAsGiven(k)
  <2>1. rows'[k] = IF k = j THEN b ELSE rows[k]
    BY <1>1, <1>3 DEF GoodRows
  <2>2. b # NoRow
    BY <1>3, NoRowAssumption DEF EditedRow
  <2> QED
    BY <1>3, <2>1, <2>2 DEF AsGiven, StillAsGiven, HasRow
<1>4. ASSUME NEW j \in Key, Attribute(j) PROVE StillAsGiven(k)
  <2>1. PICK b : b = [rows[j] EXCEPT !.target = "engine"]
    OBVIOUS
  <2>2. EditedRow(rows[j], b) /\ b.gap = rows[j].gap /\ rows[j] # NoRow
    BY <1>2, <1>4, <2>1, RowEdits DEF Attribute
  <2>3. rows' = [rows EXCEPT ![j] = b] /\ handGap' = handGap
    BY <1>4, <2>1 DEF Attribute
  <2> QED
    BY <1>3, <2>2, <2>3
<1>5. ASSUME NEW j \in Key, TakeOver(j) PROVE StillAsGiven(k)
  <2>1. PICK b : b = [rows[j] EXCEPT !.hand = TRUE]
    OBVIOUS
  <2>2. EditedRow(rows[j], b) /\ b.gap = rows[j].gap /\ rows[j] # NoRow
    BY <1>2, <1>5, <2>1, RowEdits DEF TakeOver
  <2>3. rows' = [rows EXCEPT ![j] = b] /\ handGap' = handGap
    BY <1>5, <2>1 DEF TakeOver
  <2> QED
    BY <1>3, <2>2, <2>3
<1>6. ASSUME NEW j \in Key, NEW gap \in Gaps, HandSetGap(j, gap) PROVE StillAsGiven(k)
  <2>1. PICK b : b = [rows[j] EXCEPT !.gap = gap]
    OBVIOUS
  <2>2. EditedRow(rows[j], b) /\ b.gap = gap /\ rows[j] # NoRow
    BY <1>2, <1>6, <2>1, RowEdits DEF HandSetGap
  <2>3. b # NoRow
    BY <2>2, NoRowAssumption DEF EditedRow
  <2>4. rows' = [rows EXCEPT ![j] = b] /\ handGap' = [handGap EXCEPT ![j] = gap]
    BY <1>6, <2>1 DEF HandSetGap
  <2>5. /\ rows'[k] = IF k = j THEN b ELSE rows[k]
        /\ handGap'[k] = IF k = j THEN gap ELSE handGap[k]
    BY <1>1, <2>4 DEF GoodRows
  <2> QED
    BY <2>2, <2>3, <2>5 DEF AsGiven, StillAsGiven, HasRow
<1>7. rows' = rows /\ handGap' = handGap => StillAsGiven(k)
    BY DEF AsGiven, StillAsGiven, HasRow
<1>8. {"Delivery gap", "Capability gap"} \subseteq Gaps
    BY DEF Gaps
<1> QED
    BY <1>4, <1>5, <1>6, <1>7, <1>8 DEF HandEdit, Withdraw, AddClaimRow

LEMMA GapStandsInScopeCaseRows ==
    ASSUME Sound, ScopeCaseRows, NEW k \in Key, AsGiven(k)
    PROVE  StillAsGiven(k)
<1>1. /\ rows'[k] = IF Scoped(k) THEN ScopeRow(rows[k]) ELSE rows[k]
      /\ handGap'[k] = IF Scoped(k) THEN "Delivery gap" ELSE handGap[k]
    BY DEF ScopeCaseRows
<1>2. CASE Scoped(k)
  <2>1. EditedRow(rows[k], ScopeRow(rows[k])) /\ ScopeRow(rows[k]) # NoRow
    BY <1>2, ScopedRow, NoRowAssumption
  <2>2. ScopeRow(rows[k]).gap = "Delivery gap"
    BY <1>2, ScopedRow
  <2> QED
    BY <1>1, <1>2, <2>1, <2>2 DEF StillAsGiven
<1>3. CASE ~Scoped(k)
    BY <1>1, <1>3 DEF AsGiven, StillAsGiven, HasRow
<1> QED
    BY <1>2, <1>3

LEMMA GapStandsInAdoptScope ==
    ASSUME Sound, AdoptScope, NEW k \in Key, AsGiven(k)
    PROVE  StillAsGiven(k)
<1>1. /\ rows'[k] = IF Adopted(k) THEN AdoptRow(rows[k], Authority[k]) ELSE rows[k]
      /\ handGap'[k] = IF Adopted(k) THEN Authority[k].gap ELSE handGap[k]
    BY DEF AdoptScope
<1>2. CASE Adopted(k)
  <2>1. AdoptRow(rows[k], Authority[k]) # NoRow
    BY <1>2, AdoptedRow, NoRowAssumption
  <2>2. AdoptRow(rows[k], Authority[k]).gap = Authority[k].gap
    BY <1>2, AdoptedRow
  <2> QED
    BY <1>1, <1>2, <2>1, <2>2 DEF StillAsGiven
<1>3. CASE ~Adopted(k)
    BY <1>1, <1>3 DEF AsGiven, StillAsGiven, HasRow
<1> QED
    BY <1>2, <1>3

LEMMA GapStandsInFindings ==
    ASSUME Sound, ApplyFindings, NEW k \in Key, AsGiven(k)
    PROVE  StillAsGiven(k)
<1>1. rows \in GoodRows
    BY DEF Sound, FileSound
<1>2. PICK j, b : j = FailedKey /\ j \in Key /\ b = [rows[j] EXCEPT !.target = "harness"]
    BY ScopingAssumption
<1>3. rows[j] # NoRow /\ rows' = [rows EXCEPT ![j] = b] /\ handGap' = handGap
    BY <1>2 DEF ApplyFindings, gapHistory
<1>4. rows[j] \in Row
    BY <1>1, <1>2, <1>3 DEF GoodRows
<1>5. b.gap = rows[j].gap /\ b # NoRow
    BY <1>2, <1>3, <1>4, RowEdits, NoRowAssumption DEF EditedRow
<1>6. rows'[k] = IF k = j THEN b ELSE rows[k]
    BY <1>1, <1>3 DEF GoodRows
<1> QED
    BY <1>3, <1>5, <1>6 DEF AsGiven, StillAsGiven, HasRow

-----------------------------------------------------------------------------
(***************************************************************************)
(* The theorems.                                                            *)
(***************************************************************************)

(***************************************************************************)
(* The matrix in the file and the one a merge in hand has loaded say what   *)
(* their histories say and account for every manifest merged into them.     *)
(***************************************************************************)
THEOREM Inductive == Spec => []IndInv
    BY IndInvKept

(***************************************************************************)
(* Every variable of the merge holds a value of its kind.                   *)
(***************************************************************************)
THEOREM TypeCorrect == Spec => []TypeOK
<1>1. IndInv => TypeOK
    BY DEF IndInv
<1> QED
    BY <1>1, IndInvKept, PTL

(***************************************************************************)
(* Whatever the order of merging, each row says of its attempts what their  *)
(* order in time says.                                                      *)
(***************************************************************************)
THEOREM RowsSayTheirHistory == Spec => []RowFollowsHistory
    BY IndInvKept, RowsFollow, PTL

(***************************************************************************)
(* A gap kind set by hand is taken back by nothing but the write of a merge *)
(* that had loaded the matrix before it was set: no other merge, and no     *)
(* edit of anything else, changes it.                                       *)
(***************************************************************************)
THEOREM GapsByHandStand == Spec => HandGapStands
<1> DEFINE Stands(k) ==
             /\ handGap[k] \notin {"unset", "none"} /\ HasRow(k) /\ rows[k].gap = handGap[k]
             /\ WriteMatrix => LoadedAsGiven(k)
             => rows'[k] # NoRow /\ rows'[k].gap = handGap'[k]
<1>1. ASSUME IndInv, [Next]_vars, NEW k \in Key, AsGiven(k), WriteMatrix => LoadedAsGiven(k)
      PROVE  StillAsGiven(k)
  <2>1. Sound
    BY <1>1, SoundIsIndInv
  <2>2. CASE HandEdit
    BY <1>1, <2>1, <2>2, GapStandsInEdit
  <2>3. ASSUME NEW ms \in SUBSET Manifest, Merge(ms) PROVE StillAsGiven(k)
    <3>1. rows' = MergeAll(rows, withdrawn, ms) /\ handGap' = handGap
      BY <2>3 DEF Merge, gapHistory
    <3>2. rows \in GoodRows
      BY <2>1 DEF Sound, FileSound
    <3> QED
      BY <1>1, <3>1, <3>2, GapStandsInMerge DEF AsGiven, HasRow
  <2>4. CASE rows' = rows /\ handGap' = handGap
    BY <1>1, <2>4 DEF AsGiven, StillAsGiven, HasRow
  <2>5. ASSUME NEW ms \in SUBSET Manifest, LoadMatrix(ms) PROVE StillAsGiven(k)
    BY <2>4, <2>5 DEF LoadMatrix, file, gapHistory
  <2>6. CASE WriteMatrix
    <3>1. /\ slow # NoMerge /\ handGap' = handGap
          /\ rows' = MergeAll(slow.rows, slow.withdrawn, slow.ms)
      BY <2>6 DEF WriteMatrix, gapHistory
    <3>2. slow.rows \in GoodRows /\ slow.ms \in SUBSET Manifest
      BY <2>1, <3>1 DEF Sound, FileSound
    <3>3. slow.rows[k] # NoRow /\ slow.rows[k].gap = handGap[k]
      BY <1>1, <2>6 DEF LoadedAsGiven
    <3>4. handGap[k] # "none"
      BY <1>1 DEF AsGiven
    <3> QED
      BY <3>1, <3>2, <3>3, <3>4, GapStandsInMerge
  <2>7. CASE UNCHANGED vars
    BY <2>4, <2>7 DEF vars, file, gapHistory
  <2> QED
    BY <1>1, <2>2, <2>3, <2>5, <2>6, <2>7 DEF Next
<1>2. IndInv /\ [Next]_vars => \A k \in Key : Stands(k)
    BY <1>1 DEF AsGiven, StillAsGiven
<1>3. IndInv /\ [Next]_vars => [\A k \in Key : Stands(k)]_vars
    BY <1>2
<1> QED
    BY <1>3, IndInvKept, PTL DEF Spec, HandGapStands

(***************************************************************************)
(* No attempt of a merged manifest is missing from a row it belongs to,     *)
(* unless a human withdrew the claim or took the row over.                  *)
(***************************************************************************)
THEOREM NoAttemptIsMissing == Spec => []Accounted
    BY IndInvKept, AllAccounted, PTL

(***************************************************************************)
(* Merging again what was merged before changes nothing.                    *)
(***************************************************************************)
THEOREM MergingAgainIsIdle == Spec => []Idempotent
    BY IndInvKept, MergedIsIdle, PTL

(***************************************************************************)
(* One merge of everything ever reported accounts for every attempt again,  *)
(* whatever merges at once have lost.                                       *)
(***************************************************************************)
THEOREM LostAttemptsComeBack == Spec => []LostIsMended
    BY IndInvKept, LossIsMended, PTL

(***************************************************************************)
(* The validator accepts every row the merge writes.                        *)
(***************************************************************************)
THEOREM RowsPassTheValidator == Spec => []ValidatorAccepts
    BY IndInvKept, ValidatorAgrees, PTL

(***************************************************************************)
(* No step but the write of a merge that was overtaken drops a row, an      *)
(* attempt or a recorded failure, and no merge touches a row of a human's.  *)
(***************************************************************************)
THEOREM NothingIsErased == Spec => NothingErased
<1> DEFINE Unharmed(k) ==
             /\ ~Erased(rows[k], rows'[k])
             /\ rows[k].hand /\ merged' # merged => rows'[k] = rows[k]
           Harmless(k) ==
             HasRow(k) /\ ~(WriteMatrix /\ Overtaken) =>
               /\ rows'[k] # NoRow
               /\ \A i \in DOMAIN rows[k].hist : \E j \in DOMAIN rows'[k].hist :
                    rows'[k].hist[j] = rows[k].hist[i]
               /\ rows[k].ever => rows'[k].ever
               /\ rows[k].hand /\ merged' # merged => rows'[k] = rows[k]
<1>1. ASSUME IndInv, [Next]_vars, NEW k \in Key, HasRow(k), ~(WriteMatrix /\ Overtaken)
      PROVE  Unharmed(k)
  <2>1. Sound
    BY <1>1, SoundIsIndInv
  <2>2. CASE HandEdit
    BY <1>1, <2>1, <2>2, EditErasesNothing
  <2>3. ASSUME NEW ms \in SUBSET Manifest, Merge(ms) PROVE Unharmed(k)
    <3>1. rows' = MergeAll(rows, withdrawn, ms)
      BY <2>3 DEF Merge
    <3> QED
      BY <1>1, <2>1, <3>1, GrownKeeps
  <2>4. CASE rows' = rows
    BY <1>1, <2>4 DEF Erased, HasRow
  <2>5. ASSUME NEW ms \in SUBSET Manifest, LoadMatrix(ms) PROVE Unharmed(k)
    BY <2>4, <2>5 DEF LoadMatrix, file
  <2>6. CASE WriteMatrix
    <3>1. /\ slow # NoMerge /\ rows' = MergeAll(slow.rows, slow.withdrawn, slow.ms)
      BY <2>6 DEF WriteMatrix
    <3>2. slow.rows = rows /\ slow.withdrawn = withdrawn
      BY <1>1, <2>6, <3>1 DEF Overtaken
    <3>3. slow.ms \in SUBSET Manifest
      BY <2>1 DEF Sound
    <3> QED
      BY <1>1, <2>1, <3>1, <3>2, <3>3, GrownKeeps
  <2>7. CASE UNCHANGED vars
    BY <2>4, <2>7 DEF vars, file
  <2> QED
    BY <1>1, <2>2, <2>3, <2>5, <2>6, <2>7 DEF Next
<1>2. IndInv /\ [Next]_vars => \A k \in Key : Harmless(k)
    BY <1>1 DEF Erased
<1>3. IndInv /\ [Next]_vars => [\A k \in Key : Harmless(k)]_vars
    BY <1>2
<1> QED
    BY <1>3, IndInvKept, PTL DEF Spec, NothingErased

(***************************************************************************)
(* The scripts that change the matrix between merges, without being merges, *)
(* keep the inductive invariant, and with it everything that follows; a gap *)
(* kind they or a human set is changed by another of them, by no merge.     *)
(***************************************************************************)
THEOREM ScriptsKeepTheMatrix ==
    ScopingSpec => /\ [](IndInv /\ Accounted /\ Idempotent /\ ValidatorAccepts)
                   /\ HandGapStands
<1> DEFINE Stands(k) ==
             /\ handGap[k] \notin {"unset", "none"} /\ HasRow(k) /\ rows[k].gap = handGap[k]
             /\ WriteMatrix => LoadedAsGiven(k)
             => rows'[k] # NoRow /\ rows'[k].gap = handGap'[k]
<1>1. ASSUME IndInv, [ScopingNext]_scopingVars, NEW k \in Key, AsGiven(k)
      PROVE  StillAsGiven(k)
  <2>1. Sound
    BY <1>1, SoundIsIndInv
  <2>2. ASSUME NEW left \in SUBSET Manifest, NEW right \in SUBSET Manifest, Seed(left, right)
        PROVE  StillAsGiven(k)
    BY <1>1, <2>2 DEF Seed, NoRows, AsGiven, HasRow
  <2>3. CASE ScopeCaseRows
    BY <1>1, <2>1, <2>3, GapStandsInScopeCaseRows
  <2>4. CASE ApplyFindings
    BY <1>1, <2>1, <2>4, GapStandsInFindings
  <2>5. CASE AdoptScope
    BY <1>1, <2>1, <2>5, GapStandsInAdoptScope
  <2>6. CASE rows' = rows /\ handGap' = handGap
    BY <1>1, <2>6 DEF AsGiven, StillAsGiven, HasRow
  <2>7. CASE UserExcludes
    BY <2>6, <2>7 DEF UserExcludes, gapHistory
  <2>8. ASSUME NEW m \in Manifest, Merge({m}) PROVE StillAsGiven(k)
    <3>1. rows' = MergeAll(rows, withdrawn, {m}) /\ handGap' = handGap
      BY <2>8 DEF Merge, gapHistory
    <3>2. rows \in GoodRows /\ {m} \in SUBSET Manifest
      BY <2>1 DEF Sound, FileSound
    <3> QED
      BY <1>1, <3>1, <3>2, GapStandsInMerge DEF AsGiven, HasRow
  <2>9. CASE UNCHANGED scopingVars
    BY <2>6, <2>9 DEF scopingVars, vars, file, gapHistory
  <2> QED
    BY <1>1, <2>2, <2>3, <2>4, <2>5, <2>7, <2>8, <2>9 DEF ScopingNext
<1>2. IndInv /\ [ScopingNext]_scopingVars => [\A k \in Key : Stands(k)]_vars
    BY <1>1 DEF AsGiven, StillAsGiven
<1>3. ScopingSpec => HandGapStands
    BY <1>2, IndInvKeptByScripts, PTL DEF ScopingSpec, HandGapStands
<1>4. ScopingSpec => [](IndInv /\ Accounted /\ Idempotent /\ ValidatorAccepts)
    BY IndInvKeptByScripts, AllAccounted, MergedIsIdle, ValidatorAgrees, PTL
<1> QED
    BY <1>3, <1>4
=============================================================================
