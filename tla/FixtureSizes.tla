---------------------------- MODULE FixtureSizes -----------------------------
(***************************************************************************)
(* derive_ticket19_sizes.py and derive_case_sizes.py: of each fixture row   *)
(* of the test cases, what a case may claim of its placement.  A claim must *)
(* hold under both accountings, and must tell the engine's rule, largest    *)
(* column first until the record fits, from other rules.                    *)
(*                                                                          *)
(* A row has the logical lengths of its variable columns, Absent for NULL,  *)
(* and the sizes of the fixed columns beside its INT key.                   *)
(***************************************************************************)
EXTENDS RecordLayout, FiniteSets

FixtureIo == 16384

\* A NULL takes no room at all; an empty value still has its prefix.
VarDisk(n) == IF n = Absent THEN 0 ELSE VarbitDisk(n)

Serialized(row) == [i \in DOMAIN row.var |-> VarDisk(row.var[i])]
FixedOf(row) == <<IntDisk>> \o row.fixed

RowLayout(row, acc) ==
    Layout(FixedOf(row), Serialized(row), Gate(FixtureIo, acc), Stub(acc))

RecordBefore(row) == RecordSize(FixedOf(row), Serialized(row))

Chunks(n, acc) ==
    LET cap == MaxChunkPayload(FixtureIo, acc) IN (VarbitDisk(n) + cap - 1) \div cap

DemotedUnder(row, acc) == RowLayout(row, acc).demoted
Agree(row) == DemotedUnder(row, "pinned") = DemotedUnder(row, "normative")

-----------------------------------------------------------------------------
\* Columns above the floor that were left inline.
LeftEligible(row, acc) ==
    {i \in DOMAIN row.var \ DemotedUnder(row, acc) : Serialized(row)[i] > Stub(acc)}

Fitted(row, acc) == RowLayout(row, acc).after <= Gate(FixtureIo, acc)

\* A demoted column and another of its logical length: which of them moved is not claimed.
Tied(row) ==
    \E i \in DemotedUnder(row, "pinned") : \E j \in DOMAIN row.var \ {i} : row.var[i] = row.var[j]

NotAssertable == [kind |-> "refused", demoted |-> {}, tie |-> FALSE]
Accepted(kind, row, tie) == [kind |-> kind, demoted |-> DemotedUnder(row, "pinned"), tie |-> tie]

\* MUTANT: a row none of whose eligible columns stays inline is accepted.
ClassifyWithoutNeighbour(row, expect) ==
    IF ~Agree(row) THEN NotAssertable
    ELSE IF DemotedUnder(row, "pinned") = {} THEN Accepted("inline", row, FALSE)
    ELSE IF \A acc \in Accountings : Fitted(row, acc) THEN Accepted("oos", row, Tied(row))
    ELSE NotAssertable

\* What a row is, given what the case means to claim of it.
Classify(row, expect) ==
    CASE expect = "disputed" ->
           IF Agree(row) THEN NotAssertable ELSE Accepted("disputed", row, FALSE)
      [] expect # "disputed" /\ ~Agree(row) -> NotAssertable
      [] expect # "disputed" /\ Agree(row) /\ DemotedUnder(row, "pinned") = {} ->
           Accepted("inline", row, FALSE)
      [] expect = "oos-exhausted" /\ Agree(row) /\ DemotedUnder(row, "pinned") # {} ->
           IF \A acc \in Accountings : ~Fitted(row, acc) /\ LeftEligible(row, acc) = {}
           THEN Accepted("oos-exhausted", row, Tied(row)) ELSE NotAssertable
      [] OTHER ->
           IF \A acc \in Accountings : Fitted(row, acc) /\ LeftEligible(row, acc) # {}
           THEN Accepted("oos", row, Tied(row)) ELSE NotAssertable

\* What the case says moves: columns one of which may stand for another, and how many.
Met(fixture) ==
    LET c == Classify(fixture.row, fixture.expect)
    IN /\ c.kind # "refused"
       /\ \/ fixture.expect = "disputed"
          \/ /\ c.demoted \subseteq UNION {fixture.want[i] : i \in DOMAIN fixture.want}
             /\ Cardinality(c.demoted) = Len(fixture.want)

-----------------------------------------------------------------------------
Fixture(var, expect, want, fixed) ==
    [row |-> [var |-> var, fixed |-> fixed], expect |-> expect, want |-> want]
Payload == <<{1}>>

\* The fixtures of ticket 19 ...
Reused1 == <<3500, 20000, 3500>>
Reused2 == <<3600, 21000, 3400>>
ReusedUpdate == <<3700, 22000, 3300>>

Fixtures19 ==
    {Fixture(<<n, 300>>, "oos", Payload, <<>>) : n \in {4200, 5000, 20000, 4400, 4207, 4900, 4100, 4196}}
    \cup {Fixture(<<3000, 300>>, "inline", <<>>, <<>>)}
    \cup {Fixture(Reused1, "oos", <<{2}, {1, 3}>>, <<>>), Fixture(Reused2, "oos", <<{2}, {1}>>, <<>>),
          Fixture(ReusedUpdate, "oos", <<{2}, {1}>>, <<>>)}

\* ... those of ticket 18, by the sizes either side of the bands in which the accountings part ...
T18 == [tag |-> 300, gate |-> 3700 .. 3723, floor |-> 16 .. 23, chunk |-> 16276 .. 16283,
        bigone |-> 16169 .. 16176, varbit |-> 64, three |-> 32576, oos |-> 4200, inline |-> 3000,
        filler |-> <<5000>>, wide |-> [i \in 1 .. 18 |-> 710 - 10 * i]]

Fixtures18 ==
    {Fixture(<<n, T18.tag>>, "inline", <<>>, <<>>) : n \in {3699, T18.inline}}
    \cup {Fixture(<<n, T18.tag>>, "oos", Payload, <<>>) : n \in {3724, 16275, 16284, T18.three, T18.oos}}
    \cup {Fixture(<<n, T18.tag>>, "disputed", <<>>, <<>>) : n \in {3700, 3723}}
    \cup {Fixture(<<2000, 1900, T18.tag>>, "oos", Payload, <<>>),
          Fixture(<<2000, 2000, T18.tag>>, "oos", <<{1, 2}>>, <<>>),
          Fixture(<<2200, 2100, 2000, T18.tag>>, "oos", <<{1}, {2}>>, <<>>),
          Fixture(<<900, 800, T18.tag>>, "inline", <<>>, <<>>)}
    \cup {Fixture(<<T18.oos, 15>>, "oos-exhausted", Payload, T18.filler),
          Fixture(<<T18.oos, 24>>, "oos-exhausted", <<{1}, {2}>>, T18.filler),
          Fixture(<<T18.oos, 20>>, "disputed", <<>>, T18.filler),
          Fixture(<<500, 15>>, "inline", <<>>, <<100>>)}
    \cup {Fixture(<<T18.varbit>>, "oos-exhausted", Payload, <<16168>>),
          Fixture(<<T18.varbit>>, "inline", <<>>, <<100>>)}
    \cup {Fixture(<<T18.oos, Absent, 0, T18.tag>>, "oos", Payload, <<>>),
          Fixture(<<T18.inline, Absent, 0, T18.tag>>, "inline", <<>>, <<>>)}
    \cup {Fixture(T18.wide, "oos", [i \in 1 .. 12 |-> {i}], <<>>),
          Fixture([i \in 1 .. 18 |-> 30], "inline", <<>>, <<>>)}
    \cup {Fixture(<<40, 40>>, "inline", <<>>, <<>>), Fixture(<<40, 44>>, "inline", <<>>, <<>>),
          Fixture(<<T18.oos, 30>>, "oos", Payload, <<>>)}

\* ... and that of ticket 13, with the two of its self-test that are in dispute.
Fixtures13 ==
    {Fixture(<<3000, 1200>>, "oos", Payload, <<>>), Fixture(<<1000, 500>>, "inline", <<>>, <<>>)}
Disputed13 ==
    {Fixture(<<3500, 500>>, "disputed", <<>>, <<>>), Fixture(<<16>>, "disputed", <<>>, <<4100>>)}

\* The generated rows, and those of them that share character and size.
Bulk100 == [i \in 1 .. 100 |-> 4200 + 7 * i]
Bulk1000 == [i \in 1 .. 1000 |-> 4100 + (i % 97)]
BulkDistinct(size) == Cardinality({<<i % 15, size[i]>> : i \in DOMAIN size}) = Len(size)

\* Values of which a case claims the number of chunks.
Topology ==
    {<<n, 1>> : n \in {4200, 5000, 4400, 3500, 4900, 3724, 16275}} \cup {<<20000, 2>>, <<16284, 2>>, <<32576, 3>>}

\* What Oos_recs_sumlen shows of a demoted set.
SumLen(row, demoted, acc) ==
    SumOf([i \in DOMAIN row.var |->
             IF i \in demoted THEN Serialized(row)[i] + Chunks(row.var[i], acc) * ChunkHeader(acc) ELSE 0])

\* The sizes over which a row built from a size is in dispute.
BandOf(rowOf) == {n \in DOMAIN rowOf : ~Agree(rowOf[n])}

BigRejected(f, acc) ==
    TooBig(RowLayout([var |-> <<T18.varbit>>, fixed |-> <<f>>], acc), FixtureIo)

-----------------------------------------------------------------------------
\* The bands the two scripts search for, and the counts the cases rely on.
SearchesAgree ==
    LET gated == [n \in 3000 .. 4399 |-> [var |-> <<n, T18.tag>>, fixed |-> <<>>]]
        floored == [n \in 1 .. 64 |-> [var |-> <<T18.oos, n>>, fixed |-> T18.filler]]
    IN /\ BandOf(gated) = T18.gate
       /\ BandOf(floored) = T18.floor
       /\ {n \in 16200 .. 16399 : Chunks(n, "pinned") # Chunks(n, "normative")} = T18.chunk
       /\ {f \in 16100 .. 16249 : BigRejected(f, "pinned") # BigRejected(f, "normative")} = T18.bigone
       /\ \A t \in Topology : \A acc \in Accountings : Chunks(t[1], acc) = t[2]
       /\ BulkDistinct(Bulk100) /\ BulkDistinct(Bulk1000)

DemotedSmallestFirst(row, acc) ==
    DemoteIn("smallest", FixedOf(row), Serialized(row), Gate(FixtureIo, acc), Stub(acc)).demoted

\* What a column left inline or moved in a tie costs is the same whichever moves.
TieIsBlind(row) ==
    \A i \in DemotedUnder(row, "pinned") : \A j \in DOMAIN row.var \ DemotedUnder(row, "pinned") :
        row.var[i] = row.var[j] =>
            SumLen(row, {j}, "pinned") = SumLen(row, {i}, "pinned")

\* The record with some of its columns demoted.
SizeWith(row, acc, moved) ==
    RecordSize(FixedOf(row), [i \in DOMAIN row.var |-> IF i \in moved THEN Stub(acc) ELSE Serialized(row)[i]])

\* Of records that never need offsets of four bytes: with one column fewer demoted, and the
\* header that would then have, the record would not fit.
ShortestPrefix(row, acc) ==
    LET var == Serialized(row)
        moved == DemotedUnder(row, acc)
        inline == Candidates(var, Stub(acc)) \ moved
    IN RecordBefore(row) <= MaxShort =>
         /\ moved \subseteq Candidates(var, Stub(acc))
         /\ \A i \in moved : \A j \in inline : Larger(var, i, j)
         /\ \A i \in moved : SizeWith(row, acc, {j \in moved : Larger(var, j, i)}) > Gate(FixtureIo, acc)
         /\ SizeWith(row, acc, moved) = RowLayout(row, acc).after
         /\ inline # {} => SizeWith(row, acc, moved) <= Gate(FixtureIo, acc)

\* What it takes for a row to support what was made of it.
Supported(row, c) ==
    /\ c.kind \notin {"refused", "disputed"} => Agree(row) /\ TieIsBlind(row)
    /\ \A acc \in Accountings :
         /\ ShortestPrefix(row, acc)
         /\ c.kind = "oos" => DemotedSmallestFirst(row, acc) # c.demoted
         /\ c.kind = "oos-exhausted" =>
              /\ DemotedSmallestFirst(row, acc) = c.demoted
              /\ \A i \in DOMAIN row.var \ c.demoted : Serialized(row)[i] <= Stub(acc)
         /\ c.kind = "inline" => DemotedSmallestFirst(row, acc) = {}
    /\ c.kind = "disputed" => ~Agree(row)

(***************************************************************************)
(* A row classify accepts supports the claim it was accepted for.  Of an    *)
(* "oos" row an engine that began with the smallest column would move       *)
(* others, under either accounting; of an "oos-exhausted" row none could    *)
(* move other columns, and what stays is below the floor; of an "inline"    *)
(* row nothing moves; and only a row in dispute moves differently under the *)
(* two.  The demoted columns are the shortest run of the largest that       *)
(* brings the record under the gate.  Every fixture of the test cases is    *)
(* accepted as what its case claims, and lies where the script says it does *)
(* with respect to the bands.                                               *)
(***************************************************************************)
ClaimIsEarned ==
    /\ At("classify") => Supported(given.row, Classify(given.row, given.expect))
    /\ At("fixture") => Met(given.fixture) /\ TieIsBlind(given.fixture.row)
    /\ At("bands") => SearchesAgree
=============================================================================
