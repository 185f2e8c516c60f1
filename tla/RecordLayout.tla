---------------------------- MODULE RecordLayout ----------------------------
(***************************************************************************)
(* oos_boundaries.py: the arithmetic by which the engine lays a record out  *)
(* and demotes its variable columns to OOS, in bytes, and the boundaries a  *)
(* binary search finds in it.                                               *)
(*                                                                          *)
(* A record has fixed columns and variable columns, each a sequence of      *)
(* serialized sizes.  An accounting is the reading of the specification the *)
(* sizes are judged by: the engine's at its pinned revision, or the         *)
(* normative one.                                                           *)
(***************************************************************************)
EXTENDS Given, Integers, Sequences

PageSizes == {4096, 8192, 16384}
Accountings == {"pinned", "normative"}

MvccInsertHeader == 16
MvccExtra == 32 - 16
MaxByte == 127
MaxShort == 32767
IntDisk == 4
SlotSize == 4

Stub(acc) == IF acc = "pinned" THEN 16 ELSE 24
ChunkHeader(acc) == IF acc = "pinned" THEN 16 ELSE 24

AlignBelow(x, a) == (x \div a) * a
Align(x, a) == AlignBelow(x + a - 1, a)

DbPageSize(io) == io - 40
SpageMaxRecord(io) == DbPageSize(io) - 32 - SlotSize
HeapCapacity(io) == SpageMaxRecord(io) - 40
HeapMaxSlotted(io) == AlignBelow(SpageMaxRecord(io) - Align(40, 4) - 8 * SlotSize, 4)

GatePinned(io) == DbPageSize(io) \div 4
TargetNormative(io) == AlignBelow((HeapCapacity(io) - 4 * SlotSize) \div 4, 4)
Gate(io, acc) == IF acc = "pinned" THEN GatePinned(io) ELSE TargetNormative(io)

MaxChunkPayload(io, acc) == AlignBelow(SpageMaxRecord(io), 8) - ChunkHeader(acc)

\* A length below 255 bits has a prefix of one byte, any other one of five.
VarbitDisk(n) == Align((IF n * 8 < 255 THEN 1 ELSE 5) + n, 4)

\* sum() of a sequence, column by column.
RunningSum(s) ==
    LET upTo[n \in 0 .. Len(s)] == IF n = 0 THEN 0 ELSE upTo[n - 1] + s[n] IN upTo
SumOf(s) == RunningSum(s)[Len(s)]

-----------------------------------------------------------------------------
BoundBits(nFixed) == ((nFixed + 31) \div 32) * 4

VarTable(nVar, width) == IF nVar = 0 THEN 0 ELSE Align(width * (nVar + 1), 4)

HeaderBase(nFixed) == MvccInsertHeader + BoundBits(nFixed)

\* The width of an offset: one byte, widened in two steps by what header and payload come to.
OffsetWidth(nFixed, nVar, payload) ==
    LET total(width) == HeaderBase(nFixed) + VarTable(nVar, width) + payload
    IN IF total(1) <= MaxByte THEN 1 ELSE IF total(2) <= MaxShort THEN 2 ELSE 4

HeaderSize(nFixed, nVar, payload) ==
    HeaderBase(nFixed) + VarTable(nVar, OffsetWidth(nFixed, nVar, payload))

RecordSize(fixed, var) ==
    LET payload == SumOf(fixed) + SumOf(var)
    IN HeaderSize(Len(fixed), Len(var), payload) + payload + MvccExtra

\* The columns above the floor.
Candidates(var, stub) == {i \in DOMAIN var : var[i] > stub}

\* Of two columns of a size the later one counts as the larger.
Larger(var, i, j) == var[i] > var[j] \/ (var[i] = var[j] /\ i > j)

\* The column of S that goes first.  The engine begins with the largest.
First(var, order, S) ==
    CHOOSE i \in S : \A j \in S \ {i} :
        IF order = "largest" THEN Larger(var, i, j) ELSE Larger(var, j, i)

\* Columns are demoted one after the other while the record, with the header it had before, is
\* above the gate.
Demotions(order, payload, header, var, gate, stub) ==
    LET after[n \in 0 .. Len(var)] ==
          IF n = 0 THEN [payload |-> payload, demoted |-> {}]
          ELSE LET l == after[n - 1]
                   inline == Candidates(var, stub) \ l.demoted
                   i == First(var, order, inline)
               IN IF inline = {} \/ header + l.payload + MvccExtra <= gate THEN l
                  ELSE [payload |-> l.payload - var[i] + stub, demoted |-> l.demoted \cup {i}]
    IN  after

DemoteIn(order, fixed, var, gate, stub) ==
    LET payload == SumOf(fixed) + SumOf(var)
    IN Demotions(order, payload, HeaderSize(Len(fixed), Len(var), payload), var, gate, stub)[Len(var)]

\* The record with columns demoted, and with the header it has now.
Placed(l, nFixed, nVar) ==
    [demoted |-> l.demoted,
     after   |-> HeaderSize(nFixed, nVar, l.payload) + l.payload + MvccExtra]

Layout(fixed, var, gate, stub) ==
    Placed(DemoteIn("largest", fixed, var, gate, stub), Len(fixed), Len(var))

-----------------------------------------------------------------------------
\* Schema A: an INT and one BIT VARYING of n bytes.
FirstDemoted(io, acc, n) == Layout(<<IntDisk>>, <<VarbitDisk(n)>>, Gate(io, acc), Stub(acc)).demoted # {}
FirstMultichunk(io, acc, n) == VarbitDisk(n) > MaxChunkPayload(io, acc)
FirstTwoByteVot(n) == OffsetWidth(1, 1, IntDisk + VarbitDisk(n)) = 2

\* Schema B: an INT, n fixed bytes and a BIT VARYING of 64, by the pinned gate under either stub.
TooBig(l, io) == l.demoted # {} /\ l.after > HeapMaxSlotted(io)

FirstRejected(io, acc, n) ==
    TooBig(Layout(<<IntDisk, n>>, <<VarbitDisk(64)>>, GatePinned(io), Stub(acc)), io)

\* The boundaries searched for, and the range each search is given.
Searches == [demoted |-> 20000, multichunk |-> 40000, twobyte |-> 1000, rejected |-> 20000]

Crossed(q, n) ==
    CASE q.search = "demoted"    -> FirstDemoted(q.io, q.acc, n)
      [] q.search = "multichunk" -> FirstMultichunk(q.io, q.acc, n)
      [] q.search = "twobyte"    -> FirstTwoByteVot(n)
      [] q.search = "rejected"   -> FirstRejected(q.io, q.acc, n)

\* The least n from lo on that crosses the boundary, by halving, or Absent.
SmallestFrom(lo, q) ==
    LET hi == Searches[q.search]
        search[r \in (lo .. hi) \X (lo .. hi)] ==
          LET l == r[1]
              h == r[2]
              mid == (l + h) \div 2
          IN IF l < h THEN (IF Crossed(q, mid) THEN search[<<l, mid>>] ELSE search[<<mid + 1, h>>])
             ELSE IF Crossed(q, l) THEN l ELSE Absent
    IN search[<<lo, hi>>]

\* MUTANT: the search begins above what a small page has for a boundary.
BoundaryFrom1000(q) == SmallestFrom(1000, q)

Boundary(q) == SmallestFrom(1, q)

-----------------------------------------------------------------------------
(***************************************************************************)
(* A boundary the search reports is the least size that crosses it, and     *)
(* every size from there on does, which is what searching by halves         *)
(* assumes: alignment, a prefix or an offset that widens, and stubs as      *)
(* large as what they replace do not make the predicates oscillate.         *)
(***************************************************************************)
BoundaryIsLeast ==
    At("boundary") =>
        LET n == Boundary(given)
        IN n # Absent /\ \A m \in 1 .. Searches[given.search] : Crossed(given, m) <=> m >= n
=============================================================================
