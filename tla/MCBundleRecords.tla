--------------------------- MODULE MCBundleRecords ---------------------------
(***************************************************************************)
(* Instances of BundleRecords for TLC: two declared cases, the first of     *)
(* which left any of the combinations the rules tell apart, the second one  *)
(* of a few.                                                                *)
(***************************************************************************)
EXTENDS BundleRecords

CONSTANTS a1, a2

\* Two ids in order, and one too few.
MCIdLists == {<<a1, a2>>, <<a1>>}

SqlCase == [list |-> "ok", match |-> "MATCH", declares |-> "-", backed |-> TRUE,
            late |-> FALSE, checker |-> "own", reusable |-> FALSE, excused |-> FALSE]

\* Nothing declared, or a status the catalogue backs or does not back.
Declared(x) ==
    {x} \cup {[x EXCEPT !.declares = d, !.backed = b] :
                d \in {"UNSUPPORTED", "BLOCKED"}, b \in BOOLEAN}

SqlRun ==
    UNION {Declared([SqlCase EXCEPT !.list = l, !.match = m, !.late = t]) :
        l \in {"ok", "nok"}, m \in {"MATCH", "MISMATCH", "INCOMPLETE"}, t \in BOOLEAN}
SqlChecked ==
    {[SqlCase EXCEPT !.checker = k, !.reusable = r, !.excused = e] :
        k \in {"none", "unproven", "own", "other"}, r \in BOOLEAN, e \in BOOLEAN}
SqlNotRun == {[SqlCase EXCEPT !.list = l] : l \in {"absent", "notRun"}}
SqlSecond == {[SqlCase EXCEPT !.list = l] : l \in {"ok", "nok", "notRun"}}

ShellCase == [found |-> "result", lines |-> {"OK"}, word |-> "PASS", skipAsOk |-> FALSE,
              declares |-> "-", backed |-> TRUE, match |-> "MATCH", late |-> FALSE,
              markers |-> "matched"]

ShellRun ==
    UNION {Declared([ShellCase EXCEPT !.lines = s, !.word = w, !.late = t]) :
        s \in {{}, {"OK"}, {"SKIP"}, {"OK", "SKIP"}, {"OK", "NOK"}},
        w \in {"-", "PASS", "FAIL", "SKIP", "UNSUPPORTED", "other"}, t \in BOOLEAN}
ShellChecked ==
    {[ShellCase EXCEPT !.skipAsOk = s, !.match = m, !.late = t, !.markers = k,
                       !.lines = IF s THEN {"OK", "SKIP"} ELSE {"OK"}] :
        s \in BOOLEAN, m \in {"MATCH", "MISMATCH", "NO-ORACLE"}, t \in BOOLEAN,
        k \in {"none", "matched", "unmatched"}}
ShellNotRun == {[ShellCase EXCEPT !.found = f] : f \in {"no", "dispatched"}}
ShellSecond == {[ShellCase EXCEPT !.found = f] : f \in {"dispatched", "result"}}

\* A case that CTP did not discover also upsets the counts.
Left(runner, firsts, seconds, kinds, clean) ==
    {v \in {[runner |-> runner, kind |-> k, clean |-> q, case |-> <<x, y>>] :
              k \in kinds, q \in clean, x \in firsts, y \in seconds} :
        v.clean => \A c \in 1..2 :
            IF runner = "sql" THEN v.case[c].list # "absent" ELSE v.case[c].found # "no"}

\* Upset counts act on the verdict as an oracle mismatch does: a few cases show it.
MCInvocation ==
    Left("sql", SqlRun, SqlSecond, {"original"}, {TRUE})
    \cup Left("sql", SqlChecked \cup SqlNotRun, SqlSecond, {"original"}, BOOLEAN)
    \cup Left("sql", SqlRun, {SqlCase}, {"checker-validation", "coexistence"}, {TRUE})
    \cup Left("shell", ShellRun, ShellSecond, {"original"}, {TRUE})
    \cup Left("shell", ShellChecked \cup ShellNotRun, ShellSecond, {"original"}, BOOLEAN)
    \cup Left("shell", ShellChecked, {ShellCase}, {"checker-validation", "coexistence"},
              BOOLEAN)
=============================================================================
