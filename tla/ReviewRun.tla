------------------------------ MODULE ReviewRun ------------------------------
(***************************************************************************)
(* reproduce.py of cbrd-27785: the run command.  Two variants of the engine *)
(* take turns; a round of a variant starts its server, takes a number of    *)
(* samples of each case, checks the tables and stops the server.  The       *)
(* updates are consecutive: no sample and no round resets the tables, so    *)
(* what a sample measured depends on all that ran before it.                *)
(*                                                                          *)
(* The tables are three counts, of the updates made of w.a, of w.big and of *)
(* table n.  A case reads one of them or adds to it.  w_length and n_pred,  *)
(* whose result no update changes, are left out.                            *)
(***************************************************************************)
EXTENDS Naturals, Sequences, FiniteSets

CONSTANTS
    RoundOrder,   \* RoundOrder[r + 1]: the variants of round r in their order
    Runs,         \* samples of a case in a round
    MaxStarts     \* bound: runs of the script

Variants == {"base", "feature"}
Rounds == 0 .. Len(RoundOrder) - 1
Pairs == Variants \X Rounds

ReviewAssumption ==
    /\ \A i \in DOMAIN RoundOrder : RoundOrder[i] \in {<<"base", "feature">>, <<"feature", "base">>}
    /\ Runs \in Nat \ {0} /\ MaxStarts \in Nat
ASSUME ReviewAssumption

\* The cases in their order, and the count each of them reads or adds to.
CaseOrder == <<"w_small", "w_substr", "w_update_small", "w_update_big", "n_scan", "n_update">>
Column == [w_small |-> "a", w_substr |-> "big", w_update_small |-> "a", w_update_big |-> "big",
           n_scan |-> "n", n_update |-> "n"]
Updates == {"w_update_small", "w_update_big", "n_update"}
Columns == {"a", "big", "n"}

NoTables == [c \in Columns |-> 0]

VARIABLES
    tables,      \* tables[v]: the counts of v's database, or <<>> before its DDL ran
    serving,     \* variants whose server runs
    opened,      \* pairs whose round directory exists
    results,     \* results.json: samples, completed_pairs, complete
    insensitive, \* the collation the databases were created with
    review       \* the run: phase, the pairs it has still to do, case, sample, what failed

reviewVars == <<tables, serving, opened, results, insensitive, review>>

BetweenRuns(starts) ==
    [phase |-> "idle", todo |-> <<>>, case |-> 1, sample |-> 0, failed |-> FALSE, at |-> 0, starts |-> starts]

ReviewInit ==
    /\ tables = [v \in Variants |-> <<>>] /\ serving = {} /\ opened = {}
    /\ results = [samples |-> <<>>, completed |-> {}, complete |-> FALSE]
    /\ insensitive \in BOOLEAN
    /\ review = BetweenRuns(0)

ThisVariant == Head(review.todo)[1]
ThisRound == Head(review.todo)[2]
SampledCase == CaseOrder[review.case]
\* Where the samples of a pair are on record.
OfPair(v, r) == {i \in DOMAIN results.samples : results.samples[i].variant = v /\ results.samples[i].round = r}

Go(phase) == review' = [review EXCEPT !.phase = phase]
\* An exception under the try block, which its finally block still follows.
Raise == review' = [review EXCEPT !.phase = "stopping", !.failed = TRUE]

-----------------------------------------------------------------------------
PairsFrom(first, rounds) ==
    [i \in 1 .. 2 * rounds |-> <<RoundOrder[first + (i + 1) \div 2][2 - (i % 2)], first + (i - 1) \div 2>>]

\* The operator names the rounds; nothing of either installation may be running.
Run(first, rounds) ==
    /\ review.phase = "idle" /\ review.starts < MaxStarts
    /\ serving = {}
    /\ review' = [BetweenRuns(review.starts + 1) EXCEPT !.phase = "pairs", !.todo = PairsFrom(first, rounds)]
    /\ UNCHANGED <<tables, serving, opened, results, insensitive>>

\* MUTANT: a round that was begun before is begun again.
MayBeginAgain == <<ThisVariant, ThisRound>> \notin results.completed /\ serving = {}

\* No sample of the pair is on record, its directory is new, and no server is up.
MayBegin ==
    /\ <<ThisVariant, ThisRound>> \notin results.completed
    /\ OfPair(ThisVariant, ThisRound) = {}
    /\ <<ThisVariant, ThisRound>> \notin opened
    /\ serving = {}

BeginRound ==
    /\ review.phase = "pairs" /\ review.todo # <<>>
    /\ IF MayBegin
       THEN opened' = opened \cup {<<ThisVariant, ThisRound>>} /\ Go("starting")
       ELSE review' = BetweenRuns(review.starts) /\ UNCHANGED opened
    /\ UNCHANGED <<tables, serving, results, insensitive>>

\* The first round of a variant creates and fills its tables.
StartServer ==
    /\ review.phase = "starting"
    /\ \/ /\ serving' = serving \cup {ThisVariant} /\ Go("sampling")
          /\ tables' = IF ThisRound = 0 THEN [tables EXCEPT ![ThisVariant] = NoTables] ELSE tables
       \/ /\ serving' \in {serving, serving \cup {ThisVariant}} /\ Raise
          /\ \/ UNCHANGED tables
             \/ ThisRound = 0 /\ tables' = [tables EXCEPT ![ThisVariant] = NoTables]
    /\ UNCHANGED <<opened, results, insensitive>>

-----------------------------------------------------------------------------
\* What expected() says of a case that reads, of the count it finds.
AsExpected(case, r, count) ==
    case \in Updates \/ (case = "w_substr" /\ ~insensitive) \/ count = r * Runs

\* One statement under perf, committed by itself; its result is checked before it is recorded.
TakeSample ==
    /\ review.phase = "sampling" /\ tables[ThisVariant] # <<>>
    /\ LET count == tables[ThisVariant][Column[SampledCase]]
       IN /\ tables' = IF SampledCase \in Updates THEN [tables EXCEPT ![ThisVariant][Column[SampledCase]] = @ + 1] ELSE tables
          /\ review' = IF AsExpected(SampledCase, ThisRound, count)
                       THEN [review EXCEPT !.phase = "recording", !.at = count]
                       ELSE [review EXCEPT !.phase = "stopping", !.failed = TRUE]
    /\ UNCHANGED <<serving, opened, results, insensitive>>

SampleTaken == [variant |-> ThisVariant, round |-> ThisRound, case |-> SampledCase, run |-> review.sample, at |-> review.at]

RecordSample ==
    /\ review.phase = "recording"
    /\ results' = [results EXCEPT !.samples = Append(@, SampleTaken)]
    /\ review' = CASE review.sample + 1 < Runs -> [review EXCEPT !.phase = "sampling", !.sample = @ + 1]
                   [] review.sample + 1 = Runs /\ review.case < Len(CaseOrder) ->
                        [review EXCEPT !.phase = "sampling", !.sample = 0, !.case = @ + 1]
                   [] OTHER -> [review EXCEPT !.phase = "verifying"]
    /\ UNCHANGED <<tables, serving, opened, insensitive>>

\* A command that fails or times out, a counter that ran too little, a table that is not there.
Fails ==
    /\ review.phase \in {"sampling", "recording", "verifying"} /\ Raise
    /\ UNCHANGED <<tables, serving, opened, results, insensitive>>

\* check_state: every row of both tables was updated as often as the rounds say.
CheckState(v, count) == \A c \in Columns : tables[v][c] = count

VerifyRound ==
    /\ review.phase = "verifying"
    /\ IF CheckState(ThisVariant, (ThisRound + 1) * Runs)
       THEN results' = [results EXCEPT !.completed = @ \cup {<<ThisVariant, ThisRound>>}] /\ Go("stopping")
       ELSE Raise /\ UNCHANGED results
    /\ UNCHANGED <<tables, serving, opened, insensitive>>

\* The finally block; when it fails too, the server may still be up.
StopServer ==
    /\ review.phase = "stopping"
    /\ \/ /\ serving' = serving \ {ThisVariant}
          /\ review' = IF review.failed THEN BetweenRuns(review.starts)
                       ELSE [review EXCEPT !.phase = "pairs", !.todo = Tail(@), !.case = 1, !.sample = 0]
       \/ review' = BetweenRuns(review.starts) /\ UNCHANGED serving
    /\ UNCHANGED <<tables, opened, results, insensitive>>

FinishRun ==
    /\ review.phase = "pairs" /\ review.todo = <<>>
    /\ results' = [results EXCEPT !.complete = Cardinality(results.completed) = Cardinality(Pairs)]
    /\ review' = BetweenRuns(review.starts)
    /\ UNCHANGED <<tables, serving, opened, insensitive>>

\* A kill reaches no finally block.
KillRun ==
    /\ review.phase # "idle" /\ review' = BetweenRuns(review.starts)
    /\ UNCHANGED <<tables, serving, opened, results, insensitive>>

\* The operator stops what a kill left running.
StopByHand ==
    /\ review.phase = "idle" /\ serving # {} /\ serving' = {}
    /\ UNCHANGED <<tables, opened, results, insensitive, review>>

ReviewNext ==
    \/ \E first \in Rounds : \E rounds \in 1 .. Len(RoundOrder) - first : Run(first, rounds)
    \/ BeginRound \/ StartServer \/ TakeSample \/ RecordSample \/ Fails
    \/ VerifyRound \/ StopServer \/ FinishRun \/ KillRun \/ StopByHand

ReviewSpec == ReviewInit /\ [][ReviewNext]_reviewVars

-----------------------------------------------------------------------------
\* The count a sample of a round that nothing disturbed finds in its column.
Undisturbed(case, r, k) == r * Runs + (IF case \in Updates THEN k ELSE 0)

Planned(v, r) == [variant : {v}, round : {r}, case : {CaseOrder[i] : i \in DOMAIN CaseOrder}, run : 0 .. Runs - 1]

(***************************************************************************)
(* Whatever failed, was killed, resumed or begun at a later round: a pair   *)
(* on record as completed has each of its samples once, taken from tables   *)
(* that had seen the updates of the rounds before it and of this one, and   *)
(* no others; and results.json says complete only when every pair has.      *)
(***************************************************************************)
CompletedIsWhole ==
    /\ \A p \in results.completed :
         LET took == OfPair(p[1], p[2])
             Taken(i) == results.samples[i]
         IN /\ {[variant |-> Taken(i).variant, round |-> Taken(i).round,
                  case |-> Taken(i).case, run |-> Taken(i).run] : i \in took} = Planned(p[1], p[2])
            /\ \A i, j \in took : Taken(i).case = Taken(j).case /\ Taken(i).run = Taken(j).run => i = j
            /\ \A i \in took : Taken(i).at = Undisturbed(Taken(i).case, p[2], Taken(i).run)
    /\ results.complete => results.completed = Pairs
=============================================================================
